---------------------------- MODULE TeamProfiles ----------------------------
(***************************************************************************)
(* What a team is called and looks like: claimMobileTeam,                  *)
(* updateMobileTeamCustomization, randomizeMobileTeam and uploadTeamSelfie *)
(* of mobile.service.ts, and the customization screen of the phones        *)
(* (realization-onboarding-screen.tsx) that saves a colour as soon as it   *)
(* is picked, and polls meanwhile.                                         *)
(*                                                                         *)
(* A call is a request with its handler and its answer: it is `sent`, its  *)
(* handler reads the teams, writes its own team, and the phone hears of    *)
(* it, unless it stopped waiting before.                                   *)
(***************************************************************************)
EXTENDS Integers, FiniteSets, SequencesExt

CONSTANTS
  Teams, Phones, TeamOf,   \* every phone plays for one team
  Calls,                   \* calls that may be in flight at once
  Names, Icons,
  Colors,                  \* the palette, a sequence
  Inputs,                  \* requests of other clients than the app
  MaxRequests, MaxFaults   \* bounds

ASSUME ProfilesAssumption ==
  /\ TeamOf \in [Phones -> Teams]
  /\ Colors \in Seq(ToSet(Colors)) \ {<<>>} /\ IsInjective(Colors)
  /\ {MaxRequests, MaxFaults} \subseteq Nat

VARIABLES
  name, color, badge, selfie,   \* the columns of Team
  photo,       \* the TEAM_SELFIE row of TeamPhoto of each team
  objects,     \* the files in the media storage
  shown,       \* the colour the screen of a phone has selected
  seen,        \* the colours it believes other teams have
  newest,      \* liveCustomizationRequestRef: the number of its last live save
  polling,     \* the poll of the screen is due, or a call, or over
  screen,      \* editing, saving, or done
  call,
  session,     \* the phones' sessions are valid: no reset deleted them
  files, requests, faults,
  wanted,      \* history: the colour and icon the last accepted request stands for
  raced,       \* history: names two teams were writing at the same time
  disturbed    \* history: teams two requests, or a request and a reset, wrote at the same time

profile == <<name, color, badge>>
storage == <<selfie, photo, objects, files>>
display == <<shown, seen, newest, polling, screen>>
counts  == <<requests, faults>>
history == <<wanted, raced, disturbed>>
vars == <<profile, storage, display, call, session, counts, history>>

-----------------------------------------------------------------------------
None == "none"
Keep == "keep"
Palette == ToSet(Colors)

\* A badge is stored as the icon, or as the older key of that icon.
Badges == [icon : Icons, key : BOOLEAN]
NoBadge == [icon |-> None, key |-> FALSE]
Normal(b) == [b EXCEPT !.key = FALSE]

Request == [kind : {"claim", "customize"}, name : Names \cup {Keep}, color : Palette \cup {Keep},
            badge : Badges \cup {[icon |-> Keep, key |-> FALSE]}]
NoRequest == [kind |-> "none", name |-> Keep, color |-> Keep, badge |-> [icon |-> Keep, key |-> FALSE]]
ASSUME InputsAssumption == Inputs \subseteq Request /\ None \notin Phones

\* A call: what is asked for whom, how far its handler got, whether a phone waits for
\* it, the number of a live save and the colour to go back to, what the handler will
\* write, and the colour and the occupied colours its answer carries.
NoCall == [kind |-> "none", at |-> "idle", team |-> None, phone |-> None, ask |-> NoRequest,
           id |-> 0, back |-> None, put |-> <<None, None, NoBadge>>, file |-> 0,
           ok |-> FALSE, own |-> None, taken |-> {}]
Kinds == {"claim", "customize", "randomize", "selfie", "poll", "refresh"}
Stages == {"sent", "write", "stored", "commit", "discard", "answered"}

TypeOK ==
  /\ name \in [Teams -> Names \cup {None}] /\ color \in [Teams -> Palette \cup {None}]
  /\ badge \in [Teams -> Badges \cup {NoBadge}]
  /\ selfie \in [Teams -> Nat] /\ photo \in [Teams -> Nat] /\ objects \subseteq Nat
  /\ shown \in [Phones -> Palette] /\ seen \in [Phones -> SUBSET Palette]
  /\ newest \in [Phones -> 0..MaxRequests]
  /\ polling \in [Phones -> {"due", "out", "off"}] /\ screen \in [Phones -> {"editing", "saving", "done"}]
  /\ \A c \in Calls : (call[c].at = "idle") = (call[c] = NoCall)
  /\ \A c \in Calls : call[c].kind \in Kinds \cup {"none"} /\ call[c].at \in Stages \cup {"idle"}
  /\ \A p \in Phones : polling[p] = "out" => Cardinality({c \in Calls : call[c].kind = "poll" /\ call[c].phone = p}) = 1
  \* the unique keys of Team
  /\ \A t, u \in Teams : t # u => \/ color[t] = None \/ color[t] # color[u]
  /\ \A t, u \in Teams : t # u => \/ badge[t] = NoBadge \/ badge[t] # badge[u]

Init ==
  /\ name = [t \in Teams |-> None] /\ color = [t \in Teams |-> None] /\ badge = [t \in Teams |-> NoBadge]
  /\ selfie = [t \in Teams |-> 0] /\ photo = [t \in Teams |-> 0] /\ objects = {} /\ files = 0
  /\ shown = [p \in Phones |-> Colors[1]] /\ seen = [p \in Phones |-> {}]
  /\ newest = [p \in Phones |-> 0] /\ polling = [p \in Phones |-> "due"] /\ screen = [p \in Phones |-> "editing"]
  /\ call = [c \in Calls |-> NoCall] /\ session = TRUE
  /\ requests = 0 /\ faults = 0
  /\ wanted = [t \in Teams |-> <<None, None>>] /\ raced = {} /\ disturbed = {}

-----------------------------------------------------------------------------
Idle(c) == call[c].at = "idle"
Free(c) ==
  LET idle == {d \in Calls : Idle(d)}
  IN idle # {} /\ c = CHOOSE d \in idle : TRUE

Peers(t) == Teams \ {t}
ColorsOf(S) == {color[u] : u \in S} \ {None}
Writers(t) == {c \in Calls : call[c].team = t /\ call[c].at = "write"}

Put(c, r) == call' = [call EXCEPT ![c] = r]
Send(c, p, kind, ask) ==
  [NoCall EXCEPT !.kind = kind, !.at = "sent", !.team = TeamOf[p], !.phone = p, !.ask = ask]
\* The handler is done: the answer travels to the phone that waits for it.
Answered(r, ok, own, taken) ==
  IF r.phone = None THEN NoCall ELSE [r EXCEPT !.at = "answered", !.ok = ok, !.own = own, !.taken = taken]
Refused(r) == Answered(r, FALSE, None, {})

-----------------------------------------------------------------------------
\* The screen of a phone. A colour believed taken is not selected; another one is
\* shown at once and saved by a call of its own.
Pick(p, c, k) ==
  /\ Free(c) /\ requests < MaxRequests
  /\ screen[p] = "editing" /\ k \notin seen[p] \cup {shown[p]}
  /\ requests' = requests + 1
  /\ shown' = [shown EXCEPT ![p] = k]
  /\ newest' = [newest EXCEPT ![p] = @ + 1]
  /\ Put(c, [Send(c, p, "customize", [NoRequest EXCEPT !.kind = "customize", !.color = k])
             EXCEPT !.id = newest[p] + 1, !.back = shown[p]])
  /\ UNCHANGED <<profile, storage, seen, polling, screen, session, faults, history>>

Save(p, c, n) ==
  /\ Free(c) /\ requests < MaxRequests /\ screen[p] = "editing"
  /\ requests' = requests + 1
  /\ screen' = [screen EXCEPT ![p] = "saving"]
  /\ Put(c, Send(c, p, "claim", [NoRequest EXCEPT !.kind = "claim", !.name = n, !.color = shown[p]]))
  /\ UNCHANGED <<profile, storage, shown, seen, newest, polling, session, faults, history>>

Poll(p, c) ==
  /\ Free(c) /\ polling[p] = "due" /\ screen[p] # "done"
  /\ polling' = [polling EXCEPT ![p] = "out"]
  /\ Put(c, Send(c, p, "poll", NoRequest))
  /\ UNCHANGED <<profile, storage, shown, seen, newest, screen, session, counts, history>>

\* Requests no screen waits for: other clients', and the selfie.
Other(t, c, kind, ask) ==
  /\ Free(c)
  /\ requests < MaxRequests
  /\ requests' = requests + 1
  /\ Put(c, [NoCall EXCEPT !.kind = kind, !.at = "sent", !.team = t, !.ask = ask])
  /\ UNCHANGED <<profile, storage, display, session, faults, history>>

\* What the answer does to the screen. Only the newest live save may go back to the
\* colour it replaced, and then asks the server.
Shows(p, own, taken) ==
  /\ shown' = IF own = None THEN shown ELSE [shown EXCEPT ![p] = own]
  /\ seen'  = [seen EXCEPT ![p] = taken]

\* Mutant of HearPoll: the next poll is scheduled only after a good answer.
HearPollOnce(c) ==
  LET r == call[c]
      p == r.phone
  IN /\ r.at = "answered" /\ r.kind \in {"poll", "refresh"}
     /\ IF r.ok /\ screen[p] # "done" THEN Shows(p, r.own, r.taken) ELSE UNCHANGED <<shown, seen>>
     /\ polling' = IF r.kind = "poll" THEN [polling EXCEPT ![p] = IF r.ok THEN "due" ELSE "off"] ELSE polling
     /\ Put(c, NoCall)
     /\ UNCHANGED <<profile, storage, newest, screen, session, counts, history>>
HearPoll(c) ==
  LET r == call[c]
      p == r.phone
  IN /\ r.at = "answered" /\ r.kind \in {"poll", "refresh"}
     /\ IF r.ok /\ screen[p] # "done" THEN Shows(p, r.own, r.taken) ELSE UNCHANGED <<shown, seen>>
     /\ polling' = IF r.kind = "poll" THEN [polling EXCEPT ![p] = "due"] ELSE polling
     /\ Put(c, NoCall)
     /\ UNCHANGED <<profile, storage, newest, screen, session, counts, history>>

HearLive(c) ==
  LET r == call[c]
      p == r.phone
      mine == r.id = newest[p]
  IN /\ r.at = "answered" /\ r.kind = "customize"
     /\ seen' = IF mine /\ r.ok THEN [seen EXCEPT ![p] = r.taken] ELSE seen
     /\ shown' = IF mine /\ ~r.ok THEN [shown EXCEPT ![p] = r.back] ELSE shown
     /\ Put(c, IF mine /\ ~r.ok THEN Send(c, p, "refresh", NoRequest) ELSE NoCall)
     /\ UNCHANGED <<profile, storage, newest, polling, screen, session, counts, history>>

HearClaim(c) ==
  LET r == call[c]
      p == r.phone
  IN /\ r.at = "answered" /\ r.kind = "claim"
     /\ screen' = [screen EXCEPT ![p] = IF r.ok THEN "done" ELSE "editing"]
     /\ seen' = IF r.ok THEN [seen EXCEPT ![p] = r.taken] ELSE seen
     /\ Put(c, NoCall)
     /\ UNCHANGED <<profile, storage, shown, newest, polling, session, counts, history>>

\* The request or its answer gets lost, or the process stops in the handler: the phone
\* is told that the call failed. A handler that goes on although the phone stopped waiting
\* is, here, done by the time the phone gives up: its answer is what gets lost.
Fail(c) ==
  /\ faults < MaxFaults /\ ~Idle(c) /\ ~(call[c].at = "answered" /\ ~call[c].ok)
  /\ faults' = faults + 1
  /\ Put(c, Refused(call[c]))
  /\ UNCHANGED <<profile, storage, display, session, requests, history>>

-----------------------------------------------------------------------------
\* The handlers: what they read, and whether they go on.
TakenBy(t) == ColorsOf(Peers(t))

ReadState(c) ==
  LET r == call[c]
  IN /\ r.at = "sent" /\ r.kind \in {"poll", "refresh"}
     /\ Put(c, IF session THEN Answered(r, TRUE, color[r.team], TakenBy(r.team)) ELSE Refused(r))
     /\ UNCHANGED <<profile, storage, display, session, counts, history>>

\* Mutant of ReadClaim: the name is not compared with the other teams'.
ReadClaimAnyName(c) ==
  LET r == call[c]
      t == r.team
      k == IF r.ask.color = Keep THEN color[t] ELSE r.ask.color
      b == IF r.ask.badge.icon = Keep THEN NoBadge ELSE Normal(r.ask.badge)
      conflict == \E u \in Peers(t) : color[u] = k \/ (b # NoBadge /\ Normal(badge[u]) = b)
  IN /\ r.at = "sent" /\ r.kind = "claim"
     /\ Put(c, IF session /\ k # None /\ ~conflict THEN [r EXCEPT !.at = "write", !.put = <<r.ask.name, k, b>>]
               ELSE Refused(r))
     /\ UNCHANGED <<profile, storage, display, session, counts, history>>

\* claimMobileTeam replaces all three fields: no badge in the request means none.
ReadClaim(c) ==
  LET r == call[c]
      t == r.team
      k == IF r.ask.color = Keep THEN color[t] ELSE r.ask.color
      b == IF r.ask.badge.icon = Keep THEN NoBadge ELSE Normal(r.ask.badge)
      conflict == \E u \in Peers(t) : name[u] = r.ask.name \/ color[u] = k \/ (b # NoBadge /\ Normal(badge[u]) = b)
  IN /\ r.at = "sent" /\ r.kind = "claim"
     /\ Put(c, IF session /\ k # None /\ ~conflict THEN [r EXCEPT !.at = "write", !.put = <<r.ask.name, k, b>>]
               ELSE Refused(r))
     /\ UNCHANGED <<profile, storage, display, session, counts, history>>

\* Mutant of ReadCustomize: a field that is not in the request is cleared.
ReadCustomizeWhole(c) ==
  LET r == call[c]
      t == r.team
      k == r.ask.color
      b == IF r.ask.badge.icon = Keep THEN NoBadge ELSE Normal(r.ask.badge)
      conflict == \E u \in Peers(t) : \/ color[u] = r.ask.color
                                      \/ r.ask.badge.icon # Keep /\ Normal(badge[u]) = b
  IN /\ r.at = "sent" /\ r.kind = "customize"
     /\ Put(c, IF session /\ k # Keep /\ ~conflict THEN [r EXCEPT !.at = "write", !.put = <<Keep, k, b>>] ELSE Refused(r))
     /\ UNCHANGED <<profile, storage, display, session, counts, history>>
\* updateMobileTeamCustomization writes both fields: the one that is not in the
\* request as it was read. Only the one in the request is compared with the peers'.
ReadCustomize(c) ==
  LET r == call[c]
      t == r.team
      k == IF r.ask.color = Keep THEN color[t] ELSE r.ask.color
      b == IF r.ask.badge.icon = Keep THEN Normal(badge[t]) ELSE Normal(r.ask.badge)
      conflict == \E u \in Peers(t) : \/ color[u] = r.ask.color
                                      \/ r.ask.badge.icon # Keep /\ Normal(badge[u]) = b
  IN /\ r.at = "sent" /\ r.kind = "customize"
     /\ Put(c, IF session /\ ~conflict THEN [r EXCEPT !.at = "write", !.put = <<Keep, k, b>>] ELSE Refused(r))
     /\ UNCHANGED <<profile, storage, display, session, counts, history>>

\* The first colour of the palette no other team has, or else the first.
FirstFree(t) ==
  LET free == {i \in DOMAIN Colors : Colors[i] \notin TakenBy(t)}
  IN IF free = {} THEN 1 ELSE CHOOSE i \in free : \A j \in free : i <= j

\* randomizeMobileTeam compares names and the stored badge keys, and keeps the colour.
ReadRandomize(c) ==
  LET r == call[c]
      t == r.team
      freeNames == Names \ {name[u] : u \in Peers(t)}
      freeKeys  == {b \in Badges : b.key} \ {badge[u] : u \in Peers(t)}
      k == IF color[t] # None THEN color[t] ELSE Colors[FirstFree(t)]
  IN /\ r.at = "sent" /\ r.kind = "randomize"
     /\ IF session /\ freeNames # {} /\ freeKeys # {}
        THEN \E n \in freeNames, b \in freeKeys : Put(c, [r EXCEPT !.at = "write", !.put = <<n, k, b>>])
        ELSE Put(c, Refused(r))
     /\ UNCHANGED <<profile, storage, display, session, counts, history>>

\* What a request stands for: the fields it names, and for a claim no badge as well.
Wants(r) ==
  <<CASE r.kind = "randomize" /\ wanted[r.team][1] # None -> wanted[r.team][1]
      [] r.kind # "randomize" /\ r.ask.color = Keep -> wanted[r.team][1]
      [] OTHER -> r.put[2],
    IF r.kind = "customize" /\ r.ask.badge.icon = Keep THEN wanted[r.team][2] ELSE r.put[3].icon>>

\* Mutant of WriteProfile: the table has no unique keys.
WriteProfileAnyway(c) ==
  LET r == call[c]
      t == r.team
      n == IF r.put[1] = Keep THEN name[t] ELSE r.put[1]
      k == r.put[2]
  IN /\ r.at = "write"
     /\ name' = [name EXCEPT ![t] = n]
     /\ color' = [color EXCEPT ![t] = k]
     /\ badge' = [badge EXCEPT ![t] = r.put[3]]
     /\ wanted' = [wanted EXCEPT ![t] = Wants(r)]
     /\ raced' = raced \cup ({n} \cap {call[d].put[1] : d \in UNION {Writers(u) : u \in Peers(t)}})
     /\ disturbed' = IF Writers(t) = {c} THEN disturbed ELSE disturbed \cup {t}
     /\ Put(c, Answered(r, TRUE, k, TakenBy(t)))
     /\ UNCHANGED <<storage, display, session, counts>>

\* The update of the team; its unique keys may refuse it.
WriteProfile(c) ==
  LET r == call[c]
      t == r.team
      n == IF r.put[1] = Keep THEN name[t] ELSE r.put[1]
      k == r.put[2]
      b == r.put[3]
      taken == \E u \in Peers(t) : (k # None /\ color[u] = k) \/ (b # NoBadge /\ badge[u] = b)
  IN /\ r.at = "write"
     /\ IF taken THEN Put(c, Refused(r)) /\ UNCHANGED <<profile, history>>
        ELSE /\ name' = [name EXCEPT ![t] = n]
             /\ color' = [color EXCEPT ![t] = k]
             /\ badge' = [badge EXCEPT ![t] = b]
             /\ wanted' = [wanted EXCEPT ![t] = Wants(r)]
             /\ raced' = raced \cup ({n} \cap {call[d].put[1] : d \in UNION {Writers(u) : u \in Peers(t)}})
             /\ disturbed' = IF Writers(t) = {c} THEN disturbed ELSE disturbed \cup {t}
             /\ Put(c, Answered(r, TRUE, k, TakenBy(t)))
     /\ UNCHANGED <<storage, display, session, counts>>

-----------------------------------------------------------------------------
\* uploadTeamSelfie stores the file, finds the previous selfie, replaces the row and
\* the column in one transaction, and deletes the previous file.
StoreSelfie(c) ==
  LET r == call[c]
  IN /\ r.at = "sent" /\ r.kind = "selfie"
     /\ files' = IF session THEN files + 1 ELSE files
     /\ objects' = IF session THEN objects \cup {files + 1} ELSE objects
     /\ Put(c, IF session THEN [r EXCEPT !.at = "stored", !.file = files + 1] ELSE NoCall)
     /\ UNCHANGED <<profile, selfie, photo, display, session, counts, history>>

\* Mutant of FindPrevious: the previous file goes before the row is replaced.
FindPreviousFirst(c) ==
  /\ call[c].at = "stored"
  /\ objects' = objects \ {photo[call[c].team]}
  /\ Put(c, [call[c] EXCEPT !.at = "commit"])
  /\ UNCHANGED <<profile, selfie, photo, files, display, session, counts, history>>
FindPrevious(c) ==
  /\ call[c].at = "stored"
  /\ Put(c, [call[c] EXCEPT !.at = "commit", !.id = photo[call[c].team]])
  /\ UNCHANGED <<profile, storage, display, session, counts, history>>

CommitSelfie(c) ==
  LET r == call[c]
  IN /\ r.at = "commit"
     /\ photo' = [photo EXCEPT ![r.team] = r.file]
     /\ selfie' = [selfie EXCEPT ![r.team] = r.file]
     /\ Put(c, IF r.id = 0 THEN NoCall ELSE [r EXCEPT !.at = "discard"])
     /\ UNCHANGED <<profile, objects, files, display, session, counts, history>>

Discard(c) ==
  /\ call[c].at = "discard"
  /\ objects' = objects \ {call[c].id}
  /\ Put(c, NoCall)
  /\ UNCHANGED <<profile, selfie, photo, files, display, session, counts, history>>

\* resetMobileAdminRealization: the sessions go, the teams lose name and look, the
\* rows of TeamPhoto stay.
Reset ==
  /\ requests < MaxRequests /\ session
  /\ requests' = requests + 1 /\ session' = FALSE
  /\ name' = [t \in Teams |-> None] /\ color' = [t \in Teams |-> None] /\ badge' = [t \in Teams |-> NoBadge]
  /\ selfie' = [t \in Teams |-> 0]
  /\ wanted' = [t \in Teams |-> <<None, None>>]
  /\ disturbed' = disturbed \cup {t \in Teams : Writers(t) # {}}
  /\ UNCHANGED <<photo, objects, files, display, call, faults, raced>>

Handle(c) ==
  \/ ReadState(c) \/ ReadClaim(c) \/ ReadCustomize(c) \/ ReadRandomize(c) \/ WriteProfile(c)
  \/ StoreSelfie(c) \/ FindPrevious(c) \/ CommitSelfie(c) \/ Discard(c)
Hear(c) == HearPoll(c) \/ HearLive(c) \/ HearClaim(c)

Next ==
  \/ \E c \in Calls :
       \/ Handle(c) \/ Hear(c) \/ Fail(c)
       \/ \E p \in Phones : Poll(p, c) \/ (\E k \in Palette : Pick(p, c, k)) \/ (\E n \in Names : Save(p, c, n))
       \/ \E t \in Teams :
            \/ \E i \in Inputs : Other(t, c, i.kind, i)
            \/ Other(t, c, "randomize", NoRequest)
            \/ Other(t, c, "selfie", NoRequest)
  \/ Reset

\* Handlers run to their end, answers arrive, and the timer of the poll fires.
Fairness ==
  /\ \A c \in Calls : WF_vars(Handle(c)) /\ WF_vars(Hear(c))
  /\ \A p \in Phones : WF_vars(\E c \in Calls : Poll(p, c))

Spec == Init /\ [][Next]_vars /\ Fairness

-----------------------------------------------------------------------------
\* Two teams have one name only if both were writing it at the same time: each
\* request compares with the other teams before it writes.
NamesDistinct == \A t, u \in Teams : t # u /\ name[t] = name[u] /\ name[t] # None => name[t] \in raced

\* The colour and the icon of a team are those of the last accepted request that named
\* them: a request for one field leaves the other alone (unless requests for one team,
\* or a reset, overlapped).
LastAcceptedStands ==
  \A t \in Teams \ disturbed : color[t] = wanted[t][1] /\ badge[t].icon = wanted[t][2]

\* The selfie a team shows is a file that exists, however uploads overlap or break off.
SelfieStored == \A t \in Teams : selfie[t] = 0 \/ selfie[t] \in objects

\* Whatever picks, refusals, lost answers and polls there were, a screen that stays
\* open shows the colour its team has on the server in the end.
ScreenConverges ==
  <>[](\A p \in Phones : session /\ screen[p] = "editing" /\ color[TeamOf[p]] # None
                           => shown[p] = color[TeamOf[p]])

\* What the conflict messages promise of icons ("Team icon already taken").
IconsDistinct == \A t, u \in Teams : t # u /\ badge[t].icon = badge[u].icon => badge[t] = NoBadge
=============================================================================
