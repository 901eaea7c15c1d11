------------------------------ MODULE Sessions ------------------------------
(***************************************************************************)
(* Devices and the teams they play for: joining a realization, the slots   *)
(* it creates on the way, the session every later request renews, and the  *)
(* requests that move a device to another team (mobile.service.ts).        *)
(*                                                                         *)
(* One action is one awaited statement. What a team is called and looks    *)
(* like is the subject of TeamProfiles; here a profile request only turns  *)
(* the status of the team to ACTIVE.                                       *)
(***************************************************************************)
EXTENDS Integers, FiniteSets, SequencesExt

CONSTANTS
  Devices,
  Handlers,             \* requests that may be in flight at once
  MaxTeams, Sizes,      \* team counts the organiser may set
  ExpiresInFlight,      \* a session may expire between two statements of a handler
  MaxRequests, MaxExpiries, MaxResets, MaxResizes, MaxLost   \* bounds

ASSUME SessionsAssumption ==
  /\ MaxTeams \in Nat \ {0} /\ Sizes \subseteq 1..MaxTeams /\ Sizes # {}
  /\ ExpiresInFlight \in BOOLEAN
  /\ {MaxRequests, MaxExpiries, MaxResets, MaxResizes, MaxLost} \subseteq Nat

VARIABLES
  teamCount,   \* Realization.teamCount
  team,        \* the Team row of every slot: its id, 0 if there is none, and its status
  rows,        \* TeamAssignment
  phone,       \* the session token each device holds, 0 for none
  pc, job,     \* where the handler of a slot awaits, and its local variables
  nextTeam, nextId,               \* fresh ids and tokens
  served, expiries, resets, resizes, lost,
  doubled,     \* history: devices with two joins in flight at once
  misread,     \* history: devices that did not get the answer of their last join
  contested,   \* history: teams two devices were given for a reason listed at Contest
  resized      \* history: the team count changed under a handler creating teams

counts == <<served, expiries, resets, resizes, lost>>
history == <<doubled, misread, contested, resized>>
vars == <<teamCount, team, rows, phone, pc, job, nextTeam, nextId, counts, history>>

-----------------------------------------------------------------------------
TeamSlots == 1..MaxTeams
Ids == Nat
TeamIds == Nat
Row == [id : Ids, device : Devices, team : TeamIds, live : BOOLEAN, token : Ids]
Kinds == {"join", "reset", "state", "profile", "select"}

Ensuring == {"teams", "trim", "createTeam"}
Placing == {"oust", "clear", "create", "move"}
Renewed == {"profile", "rivals", "oust", "move", "release", "activate", "answer"}
PCs == {"idle", "find", "rotate", "place", "probe", "joinRivals", "touch", "drop", "wipe", "zero"}
       \cup Ensuring \cup Placing \cup Renewed

NoTeam == [id |-> 0, active |-> FALSE]
NoDevice == "nobody"
Job == [kind : Kinds \cup {"none"}, device : Devices \cup {NoDevice}, size : 0..MaxTeams,
        list : Seq(TeamIds), row : Ids, team : TeamIds, old : TeamIds, slot : 0..(MaxTeams + 1),
        found : SUBSET Ids, token : Ids]
NoJob == [kind |-> "none", device |-> NoDevice, size |-> 0, list |-> <<>>, row |-> 0,
          team |-> 0, old |-> 0, slot |-> 0, found |-> {}, token |-> 0]

TypeOK ==
  /\ teamCount \in Sizes /\ team \in [TeamSlots -> [id : TeamIds, active : BOOLEAN]]
  /\ rows \subseteq Row /\ phone \in [Devices -> Ids]
  /\ pc \in [Handlers -> PCs] /\ job \in [Handlers -> Job]
  /\ \A r \in Handlers : pc[r] = "idle" <=> job[r] = NoJob
  \* foreign keys and the unique session token
  /\ \A a \in rows : \E s \in TeamSlots : team[s].id = a.team /\ a.team # 0
  /\ \A a, b \in rows : a.token = b.token \/ a.id = b.id => a = b
  /\ doubled \cup misread \subseteq Devices /\ contested \subseteq TeamIds /\ resized \in BOOLEAN

Init ==
  /\ teamCount \in Sizes
  /\ team = [s \in TeamSlots |-> NoTeam] /\ rows = {} /\ phone = [d \in Devices |-> 0]
  /\ pc = [r \in Handlers |-> "idle"] /\ job = [r \in Handlers |-> NoJob]
  /\ nextTeam = 1 /\ nextId = 1
  /\ served = 0 /\ expiries = 0 /\ resets = 0 /\ resizes = 0 /\ lost = 0
  /\ doubled = {} /\ misread = {} /\ contested = {} /\ resized = FALSE

-----------------------------------------------------------------------------
RowsOf(d) == {a \in rows : a.device = d}
LiveOn(t) == {a \in rows : a.team = t /\ a.live}
RowById(i) == {a \in rows : a.id = i}
Newest(d) == CHOOSE a \in RowsOf(d) : \A b \in RowsOf(d) : b.id <= a.id
TeamsBySlot ==
  LET upTo[k \in 0..MaxTeams] ==
        IF k = 0 THEN <<>> ELSE IF team[k].id = 0 THEN upTo[k - 1] ELSE Append(upTo[k - 1], team[k].id)
  IN upTo[MaxTeams]
SlotsOf(t) == {s \in TeamSlots : t # 0 /\ team[s].id = t}

\* A new request takes a slot that is free; which one does not matter.
Free(r) ==
  LET idle == {q \in Handlers : pc[q] = "idle"}
  IN idle # {} /\ r = CHOOSE q \in idle : TRUE

Idle == \A r \in Handlers : pc[r] = "idle"

Goto(r, p, j) == pc' = [pc EXCEPT ![r] = p] /\ job' = [job EXCEPT ![r] = j]
End(r) == Goto(r, "idle", NoJob)

\* A team comes to have two devices when a device is placed there while another
\* handler is placing one, when a session that expired since it was read is renewed,
\* and when every team is taken.
Contest(r, t) == \E q \in Handlers \ {r} : pc[q] \in Placing /\ job[q].team = t

WithStatus(t, active) ==
  [s \in TeamSlots |-> IF s \in SlotsOf(t) THEN [team[s] EXCEPT !.active = active] ELSE team[s]]

Tables == <<teamCount, team, rows, nextTeam, nextId>>
Environment == <<phone, counts>>

-----------------------------------------------------------------------------
\* joinMobileSession and resetMobileAdminRealization begin alike: they read the
\* realization, and make its teams match its team count.
ReceiveJoin(r, d) ==
  /\ Free(r) /\ served < MaxRequests
  /\ served' = served + 1
  /\ Goto(r, "teams", [NoJob EXCEPT !.kind = "join", !.device = d, !.size = teamCount])
  /\ doubled' = IF \E q \in Handlers : job[q].kind = "join" /\ job[q].device = d
                THEN doubled \cup {d} ELSE doubled
  /\ UNCHANGED <<Tables, phone, expiries, resets, resizes, lost, misread, contested, resized>>

ReceiveReset(r) ==
  /\ Free(r) /\ resets < MaxResets
  /\ resets' = resets + 1
  /\ Goto(r, "teams", [NoJob EXCEPT !.kind = "reset", !.size = teamCount])
  /\ UNCHANGED <<Tables, phone, served, expiries, resizes, lost, history>>

AfterTeams(r) == IF job[r].kind = "reset" THEN "wipe" ELSE "find"

\* The teams are read in the order of their slots; surplus ones are deleted, missing
\* ones created, from the slot after as many as there were.
ReadTeams(r) ==
  LET there == TeamsBySlot
      n == Len(there)
  IN /\ pc[r] = "teams"
     /\ Goto(r, IF n > job[r].size THEN "trim" ELSE IF n < job[r].size THEN "createTeam" ELSE AfterTeams(r),
             [job[r] EXCEPT !.list = there, !.slot = n + 1])
     /\ UNCHANGED <<Tables, Environment, history>>

\* Mutant of Surplus: removes the teams with the lowest slots.
SurplusFirst(r) == {job[r].list[i] : i \in 1..(Len(job[r].list) - job[r].size)}
Surplus(r) == {job[r].list[i] : i \in (job[r].size + 1)..Len(job[r].list)}

\* Deleting a team deletes its assignments.
Trim(r) ==
  /\ pc[r] = "trim"
  /\ team' = [s \in TeamSlots |-> IF team[s].id \in Surplus(r) THEN NoTeam ELSE team[s]]
  /\ rows' = {a \in rows : a.team \notin Surplus(r)}
  /\ Goto(r, AfterTeams(r), [job[r] EXCEPT !.list = <<>>, !.slot = 0])
  /\ UNCHANGED <<teamCount, nextTeam, nextId, Environment, history>>

\* Mutant of CreateTeam: overwrites the team of a slot that exists by now.
CreateTeamAnyway(r) ==
  LET s == job[r].slot
      more == s < job[r].size
  IN /\ pc[r] = "createTeam"
     /\ team' = [team EXCEPT ![s] = [id |-> nextTeam, active |-> FALSE]]
     /\ nextTeam' = nextTeam + 1
     /\ Goto(r, IF more THEN "createTeam" ELSE AfterTeams(r),
             [job[r] EXCEPT !.list = <<>>, !.slot = IF more THEN s + 1 ELSE 0])
     /\ UNCHANGED <<teamCount, rows, nextId, Environment, history>>
\* A slot that exists by now violates the unique key: the request fails half way.
CreateTeam(r) ==
  LET s == job[r].slot
      more == s < job[r].size
  IN /\ pc[r] = "createTeam"
     /\ \/ /\ team[s].id = 0
           /\ team' = [team EXCEPT ![s] = [id |-> nextTeam, active |-> FALSE]]
           /\ nextTeam' = nextTeam + 1
           /\ Goto(r, IF more THEN "createTeam" ELSE AfterTeams(r),
                   [job[r] EXCEPT !.list = <<>>, !.slot = IF more THEN s + 1 ELSE 0])
        \/ /\ team[s].id # 0
           /\ End(r)
           /\ UNCHANGED <<team, nextTeam>>
     /\ UNCHANGED <<teamCount, rows, nextId, Environment, history>>

-----------------------------------------------------------------------------
\* joinMobileSession, for a device whose newest session is alive: rotate its token.
FindRow(r) ==
  LET d == job[r].device
      known == RowsOf(d) # {}
  IN /\ pc[r] = "find"
     /\ IF known
        THEN Goto(r, IF Newest(d).live THEN "rotate" ELSE "place",
                  [job[r] EXCEPT !.list = <<>>, !.slot = 0, !.row = Newest(d).id, !.team = Newest(d).team])
        ELSE Goto(r, "place", [job[r] EXCEPT !.list = <<>>, !.slot = 0])
     /\ UNCHANGED <<Tables, Environment, history>>

\* An update of a row that is gone throws. Token 0 leaves the token as it is. A session
\* that expired since it was read may be renewed although its team is taken.
Renew(r, token) ==
  LET old == RowById(job[r].row)
  IN /\ rows' = (rows \ old) \cup {[a EXCEPT !.token = IF token = 0 THEN @ ELSE token, !.live = TRUE] : a \in old}
     /\ contested' = contested \cup
          {a.team : a \in {b \in old : ~b.live /\ (LiveOn(b.team) # {} \/ Contest(r, b.team))}}

Rotate(r) ==
  /\ pc[r] = "rotate"
  /\ Renew(r, nextId)
  /\ IF RowById(job[r].row) # {}
     THEN nextId' = nextId + 1 /\ Goto(r, "answer", [job[r] EXCEPT !.token = nextId])
     ELSE nextId' = nextId /\ End(r)
  /\ UNCHANGED <<teamCount, team, nextTeam, Environment, doubled, misread, resized>>

\* Otherwise it gets its previous team back, or the first team when that is gone, or
\* a device that never joined looks for a free one. A realization without teams refuses.
Place(r) ==
  LET there == TeamsBySlot
      known == job[r].row # 0
      mine  == IF job[r].team \in ToSet(there) THEN job[r].team ELSE there[1]
  IN /\ pc[r] = "place"
     /\ IF there = <<>> THEN End(r)
        ELSE IF known THEN Goto(r, "joinRivals", [job[r] EXCEPT !.team = mine])
        ELSE Goto(r, "probe", [job[r] EXCEPT !.list = there, !.slot = 1])
     /\ UNCHANGED <<Tables, Environment, history>>

\* Mutant of Probe: a team with expired sessions is not free either.
ProbeAll(r) ==
  LET t == job[r].list[job[r].slot]
      free == {a \in rows : a.team = t} = {}
      last == job[r].slot = Len(job[r].list)
      chosen == IF free THEN t ELSE job[r].list[1]
  IN /\ pc[r] = "probe"
     /\ IF free \/ last
        THEN Goto(r, "create", [job[r] EXCEPT !.team = chosen, !.list = <<>>, !.slot = 0])
        ELSE Goto(r, "probe", [job[r] EXCEPT !.slot = @ + 1])
     /\ contested' = IF last /\ ~free THEN contested \cup {chosen} ELSE contested
     /\ UNCHANGED <<Tables, Environment, doubled, misread, resized>>
\* The free teams are looked for one by one; when none is free the first one serves.
Probe(r) ==
  LET t == job[r].list[job[r].slot]
      free == LiveOn(t) = {}
      last == job[r].slot = Len(job[r].list)
      chosen == IF free THEN t ELSE job[r].list[1]
  IN /\ pc[r] = "probe"
     /\ IF free \/ last
        THEN Goto(r, "create", [job[r] EXCEPT !.team = chosen, !.list = <<>>, !.slot = 0])
        ELSE Goto(r, "probe", [job[r] EXCEPT !.slot = @ + 1])
     /\ contested' = IF last /\ ~free THEN contested \cup {chosen} ELSE contested
     /\ UNCHANGED <<Tables, Environment, doubled, misread, resized>>

\* Mutant of JoinRivals: looks at sessions older than the one of the device.
JoinRivalsOlder(r) ==
  LET others == {a.id : a \in {b \in LiveOn(job[r].team) : b.device # job[r].device /\ b.id < job[r].row}}
  IN /\ pc[r] = "joinRivals"
     /\ Goto(r, IF others # {} THEN "oust" ELSE "clear", [job[r] EXCEPT !.found = others])
     /\ UNCHANGED <<Tables, Environment, history>>
\* The other devices on the team are found first and removed by their ids later.
JoinRivals(r) ==
  LET others == {a.id : a \in {b \in LiveOn(job[r].team) : b.device # job[r].device}}
  IN /\ pc[r] = "joinRivals"
     /\ Goto(r, IF others # {} THEN "oust" ELSE "clear", [job[r] EXCEPT !.found = others])
     /\ UNCHANGED <<Tables, Environment, history>>

Oust(r) ==
  /\ pc[r] = "oust"
  /\ rows' = {a \in rows : a.id \notin job[r].found}
  /\ Goto(r, IF job[r].kind = "join" THEN "clear" ELSE "move", [job[r] EXCEPT !.found = {}])
  /\ UNCHANGED <<teamCount, team, nextTeam, nextId, Environment, history>>

\* Mutant of Clear: removes the sessions of the device that have not expired.
ClearAlive(r) ==
  /\ pc[r] = "clear"
  /\ rows' = {a \in rows : a.device # job[r].device \/ ~a.live}
  /\ Goto(r, "create", job[r])
  /\ UNCHANGED <<teamCount, team, nextTeam, nextId, Environment, history>>
Clear(r) ==
  /\ pc[r] = "clear"
  /\ rows' = rows \ RowsOf(job[r].device)
  /\ Goto(r, "create", job[r])
  /\ UNCHANGED <<teamCount, team, nextTeam, nextId, Environment, history>>

\* Creating an assignment of a team that is gone throws.
CreateRow(r) ==
  LET t == job[r].team
      new == [id |-> nextId, device |-> job[r].device, team |-> t, live |-> TRUE, token |-> nextId]
      there == SlotsOf(t) # {}
  IN /\ pc[r] = "create"
     /\ rows' = IF there THEN rows \cup {new} ELSE rows
     /\ nextId' = IF there THEN nextId + 1 ELSE nextId
     /\ contested' = IF there /\ Contest(r, t) THEN contested \cup {t} ELSE contested
     /\ IF there
        THEN Goto(r, "activate", [job[r] EXCEPT !.row = nextId, !.token = nextId])
        ELSE End(r)
     /\ UNCHANGED <<teamCount, team, nextTeam, Environment, doubled, misread, resized>>

Activate(r) ==
  LET t == job[r].team
  IN /\ pc[r] = "activate"
     /\ team' = WithStatus(t, TRUE)
     /\ IF SlotsOf(t) # {} /\ job[r].kind = "join" THEN Goto(r, "answer", job[r]) ELSE End(r)
     /\ UNCHANGED <<teamCount, rows, nextTeam, nextId, Environment, history>>

\* The answer of a join carries the token; it may get lost.
Answer(r) ==
  LET d == job[r].device
  IN /\ pc[r] = "answer"
     /\ End(r)
     /\ \/ /\ phone' = [phone EXCEPT ![d] = job[r].token]
           /\ misread' = misread \ {d}
           /\ lost' = lost
        \/ /\ lost < MaxLost
           /\ lost' = lost + 1
           /\ misread' = misread \cup {d}
           /\ phone' = phone
     /\ UNCHANGED <<Tables, served, expiries, resets, resizes, doubled, contested, resized>>

-----------------------------------------------------------------------------
\* Every other request begins with requireSession.
ReceiveSession(r, d, kind, s) ==
  LET row == {a \in rows : a.token = phone[d]}
  IN /\ Free(r) /\ served < MaxRequests /\ row # {}
     /\ kind = "select" <=> s # 0
     /\ served' = served + 1
     /\ \E a \in row :
          Goto(r, IF a.live THEN "touch" ELSE "drop",
               [NoJob EXCEPT !.kind = kind, !.device = d, !.slot = s, !.row = a.id, !.token = a.token, !.team = a.team])
     /\ UNCHANGED <<Tables, phone, expiries, resets, resizes, lost, history>>

\* An expired session is deleted by its id.
Drop(r) ==
  /\ pc[r] = "drop"
  /\ rows' = rows \ RowById(job[r].row)
  /\ End(r)
  /\ UNCHANGED <<teamCount, team, nextTeam, nextId, Environment, history>>

\* Mutant of Touch: renews the session with the token the request came with.
TouchToken(r) ==
  /\ pc[r] = "touch"
  /\ Renew(r, job[r].token)
  /\ IF RowById(job[r].row) # {} /\ job[r].kind # "state"
     THEN Goto(r, IF job[r].kind = "select" THEN "rivals" ELSE "profile", job[r])
     ELSE End(r)
  /\ UNCHANGED <<teamCount, team, nextTeam, nextId, Environment, doubled, misread, resized>>
\* requireSession: the update of expiresAt. Tokens are stored hashed; the re-hash of a
\* raw token of older versions changes how a row is found, not which, and is left out.
Touch(r) ==
  /\ pc[r] = "touch"
  /\ Renew(r, 0)
  /\ IF RowById(job[r].row) # {} /\ job[r].kind # "state"
     THEN Goto(r, IF job[r].kind = "select" THEN "rivals" ELSE "profile", job[r])
     ELSE End(r)
  /\ UNCHANGED <<teamCount, team, nextTeam, nextId, Environment, doubled, misread, resized>>

\* claimMobileTeam, updateMobileTeamCustomization, randomizeMobileTeam: the update
\* of the team that was read with the session.
WriteProfile(r) ==
  /\ pc[r] = "profile"
  /\ team' = WithStatus(job[r].team, TRUE)
  /\ End(r)
  /\ UNCHANGED <<teamCount, rows, nextTeam, nextId, Environment, history>>

\* selectMobileTeam: find the requested team and who is on it ...
SelectRivals(r) ==
  LET t == team[job[r].slot].id
      others == {a.id : a \in {b \in LiveOn(t) : b.id # job[r].row}}
  IN /\ pc[r] = "rivals"
     /\ IF t \in {0, job[r].team} THEN End(r)
        ELSE Goto(r, IF others # {} THEN "oust" ELSE "move",
                  [job[r] EXCEPT !.found = others, !.old = job[r].team, !.team = t])
     /\ UNCHANGED <<Tables, Environment, history>>

\* ... and, once they are gone, move, and rewrite the status of both teams.
Move(r) ==
  LET t == job[r].team
      mine == RowById(job[r].row)
      there == SlotsOf(t) # {}
  IN /\ pc[r] = "move"
     /\ rows' = IF there THEN (rows \ mine) \cup {[a EXCEPT !.team = t, !.live = TRUE] : a \in mine} ELSE rows
     /\ contested' = IF there /\ mine # {} /\ Contest(r, t) THEN contested \cup {t} ELSE contested
     /\ IF there /\ mine # {} THEN Goto(r, "release", job[r]) ELSE End(r)
     /\ UNCHANGED <<teamCount, team, nextTeam, nextId, Environment, doubled, misread, resized>>

\* Mutant of Release: the last statement releases the team the device moved to.
ReleaseNew(r) ==
  /\ pc[r] = "release"
  /\ team' = WithStatus(job[r].team, FALSE)
  /\ End(r)
  /\ UNCHANGED <<teamCount, rows, nextTeam, nextId, Environment, history>>
Release(r) ==
  /\ pc[r] = "release"
  /\ team' = WithStatus(job[r].old, FALSE)
  /\ IF SlotsOf(job[r].old) # {} THEN Goto(r, "activate", job[r]) ELSE End(r)
  /\ UNCHANGED <<teamCount, rows, nextTeam, nextId, Environment, history>>

-----------------------------------------------------------------------------
\* resetMobileAdminRealization, once the teams are there.
Wipe(r) ==
  /\ pc[r] = "wipe"
  /\ rows' = {}
  /\ Goto(r, "zero", job[r])
  /\ UNCHANGED <<teamCount, team, nextTeam, nextId, Environment, history>>

ZeroTeams(r) ==
  /\ pc[r] = "zero"
  /\ team' = [s \in TeamSlots |-> [team[s] EXCEPT !.active = FALSE]]
  /\ End(r)
  /\ UNCHANGED <<teamCount, rows, nextTeam, nextId, Environment, history>>

\* The organiser changes the number of teams.
Resize ==
  /\ resizes < MaxResizes
  /\ resizes' = resizes + 1
  /\ teamCount' \in Sizes \ {teamCount}
  /\ resized' = (resized \/ \E r \in Handlers : pc[r] \in Ensuring)
  /\ UNCHANGED <<team, rows, nextTeam, nextId, phone, pc, job, served, expiries, resets, lost, doubled, misread, contested>>

\* Twelve hours after the last renewal; no handler that renewed it lives that long.
Expire(a) ==
  /\ expiries < MaxExpiries
  /\ ExpiresInFlight \/ Idle
  /\ a.live /\ ~\E r \in Handlers : pc[r] \in Renewed /\ job[r].row = a.id
  /\ expiries' = expiries + 1
  /\ rows' = (rows \ {a}) \cup {[a EXCEPT !.live = FALSE]}
  /\ UNCHANGED <<teamCount, team, nextTeam, nextId, phone, pc, job, served, resets, resizes, lost, history>>

Step(r) ==
  \/ ReadTeams(r) \/ Trim(r) \/ CreateTeam(r)
  \/ FindRow(r) \/ Rotate(r) \/ Place(r) \/ Probe(r) \/ JoinRivals(r) \/ Oust(r)
  \/ Clear(r) \/ CreateRow(r) \/ Activate(r) \/ Answer(r)
  \/ Drop(r) \/ Touch(r) \/ WriteProfile(r) \/ SelectRivals(r) \/ Move(r) \/ Release(r)
  \/ Wipe(r) \/ ZeroTeams(r)

Receive(r) ==
  \/ \E d \in Devices : ReceiveJoin(r, d)
  \/ \E d \in Devices, k \in {"state", "profile", "select"}, s \in 0..MaxTeams : ReceiveSession(r, d, k, s)
  \/ ReceiveReset(r)

Next ==
  \/ \E r \in Handlers : Receive(r) \/ Step(r)
  \/ Resize
  \/ \E a \in rows : Expire(a)

Spec == Init /\ [][Next]_vars

-----------------------------------------------------------------------------
Joining(d) == \E r \in Handlers : job[r].kind = "join" /\ job[r].device = d

\* A device whose joins never overlapped has at most one session, whatever the
\* handlers of other devices do (joinMobileSession clears before it creates).
OneSessionPerDevice == \A d \in Devices \ doubled : Cardinality(RowsOf(d)) <= 1

\* A device that got the answer of its last join holds the token of its session:
\* no other request rotates it, so a phone is never locked out of a session it has.
PhoneHoldsToken ==
  \A d \in Devices \ (doubled \cup misread) :
    ~Joining(d) => \A a \in RowsOf(d) : a.token = phone[d]

\* A device has one session, and it is the one whose token it holds.
SessionHeld == OneSessionPerDevice /\ PhoneHoldsToken

\* Two devices play for one team only for the reasons of Contest: a probe, an oust
\* or a renewal never puts a device on an occupied team otherwise.
SharedTeamsExplained ==
  \A a \in rows : a.team \in contested \/ Cardinality(LiveOn(a.team)) <= 1

\* The teams of a realization have the slots 1 to n, whichever joins created them
\* together: the next join can create the ones that are missing.
SlotsContiguous == resized \/ \A s \in 2..MaxTeams : team[s].id # 0 => team[s - 1].id # 0

\* With no request in flight, a team that a device plays for, alone, is ACTIVE.
ActiveWhenPlayed ==
  Idle => \A a \in rows : ~a.live \/ a.team \in contested \/ \A s \in SlotsOf(a.team) : team[s].active

\* The abstract specification: who sits at which team.
Seat == [d \in Devices |->
  LET mine == {a \in RowsOf(d) : a.live}
  IN IF mine = {} THEN 0 ELSE CHOOSE s \in SlotsOf((CHOOSE a \in mine : TRUE).team) : TRUE]
Board == INSTANCE Seats WITH open <- {s \in TeamSlots : team[s].id # 0}, seat <- Seat

SeatsSpec == Board!Spec
=============================================================================
