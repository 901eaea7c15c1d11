----------------------------- MODULE Scenarios ------------------------------
(***************************************************************************)
(* Where the stations of a realization come from: creating, updating and   *)
(* deleting a realization (realization.service.ts) clones a scenario with  *)
(* its stations, brings the clone in line with the stations the admin      *)
(* edited in the form, and drops what is replaced (scenario.service.ts,    *)
(* station.service.ts). All of it is separate statements; nothing undoes   *)
(* the first ones when a later one fails.                                  *)
(*                                                                         *)
(* Ids are numbers in order of creation; 0 is null.                        *)
(***************************************************************************)
EXTENDS Integers, FiniteSets, SequencesExt

CONSTANTS
  Realizations,
  Codes,                  \* printed QR entry codes
  Library, Templates,     \* the codes of the template stations; the template scenarios
  Calls, MaxStations, MaxScenarios, MaxRequests, MaxFaults   \* bounds

None == "none"
Random == "random"        \* a generated code: never equal to another one

ASSUME ScenariosAssumption ==
  /\ {None, Random} \cap (Realizations \cup Codes) = {}
  /\ Library \in Seq(Codes \cup {None})
  /\ Templates \in Seq(Seq(DOMAIN Library)) /\ \A i \in DOMAIN Templates : IsInjective(Templates[i])
  /\ {MaxStations, MaxScenarios, MaxRequests, MaxFaults} \subseteq Nat
  \* there is room for the first rows
  /\ Templates # <<>> /\ Len(Library) + Len(Templates[1]) <= MaxStations /\ Len(Templates) < MaxScenarios

VARIABLES
  station,      \* Station: the realization it belongs to, its template, its code
  scenario,     \* Scenario with its ScenarioStation rows, in order
  realization,  \* the scenario of a realization, 0 when there is none
  running,      \* realizations in progress
  call, requests, faults,
  touched,      \* history: realizations with a request that broke off, or two at once, or a template that changed
  asked         \* history: the codes the last update gave to stations

tables == <<station, scenario, realization>>
bounds == <<requests, faults>>
vars == <<tables, running, call, bounds, touched, asked>>

-----------------------------------------------------------------------------
NoStation == [own |-> None, tmpl |-> 0, code |-> None, live |-> FALSE]
NoScenario == [own |-> None, tmpl |-> 0, list |-> <<>>, live |-> FALSE]
Stations == DOMAIN station
Live == {s \in Stations : station[s].live}
Exists(n) == n \in DOMAIN scenario /\ scenario[n].live
Template(s) == station[s].own = None

NoCall == [op |-> None, at |-> "idle", rz |-> None, from |-> 0, old |-> 0, scn |-> 0, drafts |-> <<>>,
           src |-> <<>>, cur |-> <<>>, next |-> <<>>, used |-> {}]
Ops == {"create", "update", "delete"}
Stages == {"start", "discard", "clone", "adopt", "sync", "draft", "prune", "replace", "save", "drop", "stations", "row"}

TypeOK ==
  /\ \A s \in Stations : station[s].own \in Realizations \cup {None} /\ station[s].code \in Codes \cup {None, Random}
  /\ Len(station) <= MaxStations /\ Len(scenario) <= MaxScenarios
  /\ \A n \in DOMAIN scenario : IsInjective(scenario[n].list) /\ ToSet(scenario[n].list) \subseteq Live
  /\ \A r \in Realizations : realization[r] = 0 \/ Exists(realization[r])   \* the foreign key
  \* the unique key of a realization's codes
  /\ \A s, u \in Live : s # u /\ station[s].own # None /\ station[s].own = station[u].own
                          => station[s].code # station[u].code \/ station[s].code \in {None, Random}
  /\ running \subseteq Realizations /\ touched \subseteq Realizations
  /\ \A c \in Calls : call[c] = NoCall \/ (call[c].op \in Ops /\ call[c].at \in Stages)

\* The codes a clone of the first template has: one that an earlier station got is generated anew.
FirstCode(i) ==
  LET code(k) == Library[Templates[1][k]]
  IN IF code(i) # None /\ \E k \in 1..(i - 1) : code(k) = code(i) THEN Random ELSE code(i)

\* The library and the templates; a realization may have been created from the first one.
Init ==
  LET lib == [i \in DOMAIN Library |-> [own |-> None, tmpl |-> i, code |-> Library[i], live |-> TRUE]]
      tmp == [i \in DOMAIN Templates |-> [own |-> None, tmpl |-> 0, list |-> Templates[i], live |-> TRUE]]
      cloned(r) == [i \in DOMAIN Templates[1] |->
                      [own |-> r, tmpl |-> Templates[1][i], code |-> FirstCode(i), live |-> TRUE]]
      instance(r) == [own |-> r, tmpl |-> 1, live |-> TRUE, list |-> [i \in DOMAIN Templates[1] |-> Len(lib) + i]]
      none == [r \in Realizations |-> 0]
  IN /\ \/ station = lib /\ scenario = tmp /\ realization = none
        \/ \E r \in Realizations : /\ station = lib \o cloned(r) /\ scenario = Append(tmp, instance(r))
                                   /\ realization = [none EXCEPT ![r] = Len(tmp) + 1]
     /\ running = {} /\ call = [c \in Calls |-> NoCall] /\ requests = 0 /\ faults = 0
     /\ touched = {} /\ asked = [r \in Realizations |-> {}]

-----------------------------------------------------------------------------
Put(c, r) == call' = [call EXCEPT ![c] = r]
Ask == requests < MaxRequests /\ requests' = requests + 1
Free(c) ==
  LET idle == {d \in Calls : call[d] = NoCall}
  IN idle # {} /\ c = CHOOSE d \in idle : TRUE
Busy(r) == \E d \in Calls : call[d].rz = r
\* A request that throws: what it has written stays.
Throw(c) == Put(c, NoCall) /\ touched' = touched \cup {call[c].rz}
Touch(r) == touched' = IF Busy(r) THEN touched \cup {r} ELSE touched

\* Mutant of CodeFor: a code somebody has is given again.
CodeForAnyone(want, keep, r, s) == IF want = None THEN keep ELSE want
\* Mutant of CodeFor: a station is compared with itself.
CodeForItself(want, keep, r, s) ==
  IF want = None THEN keep
  ELSE IF \E u \in Live : station[u].own = r /\ station[u].code = want THEN Random
  ELSE want
\* createStationRow and updateScenarioStationInstance: the code that was asked for, a
\* generated one if another station of the realization has it; none leaves it as it is.
CodeFor(want, keep, r, s) ==
  IF want = None THEN keep
  ELSE IF \E u \in Live \ {s} : station[u].own = r /\ station[u].code = want THEN Random
  ELSE want

\* The foreign key of a station to its template.
Refers(t) == t = 0 \/ t \in Live

\* Stations as a handler read them.
Read(list) == [i \in DOMAIN list |-> [id |-> list[i], tmpl |-> station[list[i]].tmpl, code |-> station[list[i]].code]]
Ids(seen) == {seen[i].id : i \in DOMAIN seen}

\* A list without the rows of S.
Kept(list, S) ==
  LET upto[i \in 0..Len(list)] ==
        IF i = 0 THEN <<>> ELSE IF list[i] \in S THEN upto[i - 1] ELSE Append(upto[i - 1], list[i])
  IN upto[Len(list)]
\* Rows that go take their places in scenarios with them.
Without(S) ==
  /\ station' = [s \in Stations |-> IF s \in S THEN NoStation
                                    ELSE IF station[s].tmpl \in S THEN [station[s] EXCEPT !.tmpl = 0] ELSE station[s]]
  /\ scenario' = [n \in DOMAIN scenario |-> [scenario[n] EXCEPT !.list = Kept(@, S)]]

-----------------------------------------------------------------------------
Create(c, r, n, drafts) ==
  /\ Free(c) /\ Ask /\ realization[r] = 0 /\ ~Busy(r)
  /\ Put(c, [NoCall EXCEPT !.op = "create", !.at = "adopt", !.rz = r, !.from = n, !.drafts = drafts])
  /\ UNCHANGED <<tables, running, faults, touched, asked>>

Update(c, r, n, drafts) ==
  /\ Free(c) /\ Ask /\ realization[r] # 0
  /\ Put(c, [NoCall EXCEPT !.op = "update", !.at = "start", !.rz = r, !.from = n, !.drafts = drafts])
  /\ Touch(r)
  /\ UNCHANGED <<tables, running, faults, asked>>

Delete(c, r) ==
  /\ Free(c) /\ Ask /\ realization[r] # 0
  /\ Put(c, [NoCall EXCEPT !.op = "delete", !.at = "start", !.rz = r])
  /\ Touch(r)
  /\ UNCHANGED <<tables, running, faults, asked>>

\* updateRealization: the requested scenario is the one it has, the template of it, or
\* another one, for which it discards what it has.
StartUpdate(c) ==
  LET r == call[c]
      now == realization[r.rz]
      reuse == r.from = now \/ scenario[now].tmpl = r.from
  IN /\ r.op = "update" /\ r.at = "start"
     /\ IF now = 0 \/ ~Exists(r.from) THEN Throw(c)
        ELSE /\ touched' = touched
             /\ Put(c, IF reuse THEN [r EXCEPT !.at = "sync", !.scn = now]
                       ELSE IF scenario[now].own = r.rz
                       THEN [r EXCEPT !.at = "discard", !.old = now, !.cur = Read(scenario[now].list)]
                       ELSE [r EXCEPT !.at = "adopt"])
     /\ UNCHANGED <<tables, running, bounds, asked>>

Discard(c) ==
  LET r == call[c]
  IN /\ r.at = "discard"
     /\ Without(Ids(r.cur))
     /\ Put(c, [r EXCEPT !.at = "adopt", !.cur = <<>>])
     /\ UNCHANGED <<realization, running, bounds, touched, asked>>

\* cloneScenario: reads the source, whose stations know their template or are it, ...
Copies(n, r) ==
  LET of(s) == [station[s] EXCEPT !.own = r, !.tmpl = IF @ = 0 THEN s ELSE @]
  IN [i \in DOMAIN scenario[n].list |-> of(scenario[n].list[i])]
ReadSource(c) ==
  LET r == call[c]
  IN /\ r.at = "adopt"
     /\ IF ~Exists(r.from) THEN Throw(c)
        ELSE Put(c, [r EXCEPT !.at = "clone", !.src = Copies(r.from, r.rz)]) /\ UNCHANGED touched
     /\ UNCHANGED <<tables, running, bounds, asked>>

\* ... creates its stations one by one, ...
CloneStation(c) ==
  LET r == call[c]
      s == Head(r.src)
  IN /\ r.at = "clone" /\ r.src # <<>> /\ Len(station) < MaxStations
     /\ IF ~Refers(s.tmpl) THEN Throw(c) /\ UNCHANGED station
        ELSE /\ station' = Append(station, [s EXCEPT !.code = CodeFor(s.code, None, r.rz, 0)])
             /\ Put(c, [r EXCEPT !.src = Tail(@), !.next = Append(@, Len(station) + 1)])
             /\ UNCHANGED touched
     /\ UNCHANGED <<scenario, realization, running, bounds, asked>>

\* Mutant of AddScenario: the clone lists the stations of its source.
AddScenarioShared(c) ==
  LET r == call[c]
      from == IF scenario[r.from].tmpl = 0 THEN r.from ELSE scenario[r.from].tmpl
  IN /\ r.at = "clone" /\ r.src = <<>> /\ Len(scenario) < MaxScenarios
     /\ IF ~(ToSet(r.next) \subseteq Live /\ Exists(from)) THEN Throw(c) /\ UNCHANGED scenario
        ELSE /\ scenario' = Append(scenario, [own |-> r.rz, tmpl |-> from, list |-> scenario[r.from].list, live |-> TRUE])
             /\ Put(c, [r EXCEPT !.at = "sync", !.scn = Len(scenario) + 1, !.next = <<>>])
             /\ UNCHANGED touched
     /\ UNCHANGED <<station, realization, running, bounds, asked>>
\* ... and the scenario with them.
AddScenario(c) ==
  LET r == call[c]
      from == IF scenario[r.from].tmpl = 0 THEN r.from ELSE scenario[r.from].tmpl
  IN /\ r.at = "clone" /\ r.src = <<>> /\ Len(scenario) < MaxScenarios
     /\ IF ~(ToSet(r.next) \subseteq Live /\ Exists(from)) THEN Throw(c) /\ UNCHANGED scenario
        ELSE /\ scenario' = Append(scenario, [own |-> r.rz, tmpl |-> from, list |-> r.next, live |-> TRUE])
             /\ Put(c, [r EXCEPT !.at = "sync", !.scn = Len(scenario) + 1, !.next = <<>>])
             /\ UNCHANGED touched
     /\ UNCHANGED <<station, realization, running, bounds, asked>>

-----------------------------------------------------------------------------
\* syncScenarioStations: without drafts it only reads; otherwise every draft finds its
\* station by id, or by template among those no other draft took, ...
ReadCurrent(c) ==
  LET r == call[c]
  IN /\ r.at = "sync"
     /\ Put(c, [r EXCEPT !.cur = Read(scenario[r.scn].list), !.at = IF r.drafts = <<>> THEN "save" ELSE "draft"])
     /\ UNCHANGED <<tables, running, bounds, touched, asked>>

Existing(r, d) ==
  LET ofTemplate == {i \in DOMAIN r.cur : r.cur[i].tmpl = d.id /\ r.cur[i].id \notin r.used}
  IN IF d.id = 0 THEN 0
     ELSE IF d.id \in Ids(r.cur) THEN d.id
     ELSE IF ofTemplate # {} THEN r.cur[CHOOSE i \in ofTemplate : \A k \in ofTemplate : i <= k].id ELSE 0

\* ... and is written to it, or makes a new one, of the template it names, ...
Edited(s, d) ==
  [station[s] EXCEPT !.code = CodeFor(d.code, @, station[s].own, s), !.tmpl = IF d.tmpl = 0 THEN @ ELSE d.tmpl]
ApplyDraft(c) ==
  LET r == call[c]
      d == r.drafts[Len(r.next) + 1]
      s == Existing(r, d)
  IN /\ r.at = "draft" /\ Len(r.next) < Len(r.drafts)
     /\ IF s = 0 /\ Refers(d.tmpl)
        THEN /\ Len(station) < MaxStations
             /\ station' = Append(station, [own |-> r.rz, tmpl |-> d.tmpl, live |-> TRUE,
                                            code |-> CodeFor(d.code, None, r.rz, 0)])
             /\ Put(c, [r EXCEPT !.next = Append(@, Len(station) + 1)])
             /\ UNCHANGED touched
        ELSE IF s \in Live /\ Refers(d.tmpl)
        THEN /\ station' = [station EXCEPT ![s] = Edited(s, d)]
             /\ Put(c, [r EXCEPT !.next = Append(@, s), !.used = @ \cup {s}])
             /\ UNCHANGED touched
        ELSE Throw(c) /\ UNCHANGED station
     /\ UNCHANGED <<scenario, realization, running, bounds, asked>>

\* Mutant of Prune: the stations without a draft stay.
PruneNothing(c) ==
  LET r == call[c]
  IN /\ r.at = "draft" /\ Len(r.next) = Len(r.drafts)
     /\ UNCHANGED <<station, scenario>>
     /\ Put(c, [r EXCEPT !.at = "replace"])
     /\ UNCHANGED <<realization, running, bounds, touched, asked>>
\* ... the others go, ...
Prune(c) ==
  LET r == call[c]
  IN /\ r.at = "draft" /\ Len(r.next) = Len(r.drafts)
     /\ Without(Ids(r.cur) \ r.used)
     /\ Put(c, [r EXCEPT !.at = "replace"])
     /\ UNCHANGED <<realization, running, bounds, touched, asked>>

\* ... and replaceScenario lists the new ones, in one transaction.
Replace(c) ==
  LET r == call[c]
      good == Exists(r.scn) /\ ToSet(r.next) \subseteq Live /\ IsInjective(r.next)
  IN /\ r.at = "replace"
     /\ IF good THEN /\ scenario' = [scenario EXCEPT ![r.scn].list = r.next]
                     /\ Put(c, [r EXCEPT !.at = "save"]) /\ UNCHANGED touched
        ELSE Throw(c) /\ UNCHANGED scenario
     /\ UNCHANGED <<station, realization, running, bounds, asked>>

\* The codes a save gives: those that no other station has when it begins, also one
\* that it removes, and that no other draft asks for.
Promised(r) ==
  {<<r.next[i], r.drafts[i].code>> : i \in {j \in DOMAIN r.next :
     /\ r.drafts[j].code # None
     /\ \A k \in DOMAIN r.drafts : k # j => r.drafts[k].code # r.drafts[j].code
     /\ \A k \in DOMAIN r.cur : r.cur[k].id # r.next[j] => r.cur[k].code # r.drafts[j].code}}

\* The realization row is created, or updated.
SaveRealization(c) ==
  LET r == call[c]
      good == Exists(r.scn) /\ (r.op = "update" => realization[r.rz] # 0)
  IN /\ r.at = "save"
     /\ IF good
        THEN /\ realization' = [realization EXCEPT ![r.rz] = r.scn]
             /\ asked' = [asked EXCEPT ![r.rz] = Promised(r)]
             /\ Put(c, IF r.old # 0 THEN [r EXCEPT !.at = "drop"] ELSE NoCall) /\ UNCHANGED touched
        ELSE Throw(c) /\ UNCHANGED <<realization, asked>>
     /\ UNCHANGED <<station, scenario, running, bounds>>

Referenced(n) == \E r \in Realizations : realization[r] = n
Removed(n) ==
  scenario' = [m \in DOMAIN scenario |-> IF m = n THEN NoScenario
                                         ELSE IF scenario[m].tmpl = n THEN [scenario[m] EXCEPT !.tmpl = 0] ELSE scenario[m]]

DropScenario(c) ==
  LET r == call[c]
  IN /\ r.at = "drop"
     /\ IF Exists(r.old) /\ ~Referenced(r.old) THEN Removed(r.old) /\ Put(c, NoCall) /\ UNCHANGED touched
        ELSE Throw(c) /\ UNCHANGED scenario
     /\ UNCHANGED <<station, realization, running, bounds, asked>>

-----------------------------------------------------------------------------
\* deleteRealization: not while it is in progress; the stations, the row, the scenario.
StartDelete(c) ==
  LET r == call[c]
      now == realization[r.rz]
  IN /\ r.op = "delete" /\ r.at = "start"
     /\ Put(c, IF now = 0 \/ r.rz \in running THEN NoCall
               ELSE [r EXCEPT !.at = "stations", !.old = now, !.cur = Read(scenario[now].list)])
     /\ UNCHANGED <<tables, running, bounds, touched, asked>>

DeleteStations(c) ==
  LET r == call[c]
  IN /\ r.at = "stations"
     /\ Without(Ids(r.cur))
     /\ Put(c, [r EXCEPT !.at = "row"])
     /\ UNCHANGED <<realization, running, bounds, touched, asked>>

DeleteRow(c) ==
  LET r == call[c]
  IN /\ r.at = "row"
     /\ IF realization[r.rz] = 0 THEN Throw(c) /\ UNCHANGED <<realization, asked, running>>
        ELSE /\ realization' = [realization EXCEPT ![r.rz] = 0]
             /\ running' = running \ {r.rz}
             /\ asked' = [asked EXCEPT ![r.rz] = {}]
             /\ Put(c, IF scenario[r.old].own = r.rz THEN [r EXCEPT !.at = "drop"] ELSE NoCall)
             /\ UNCHANGED touched
     /\ UNCHANGED <<station, scenario, bounds>>

\* The process stops in a handler, or a draft of its request turns out to be invalid and
\* normalizing it throws, with everything before it done.
Fail(c) ==
  /\ faults < MaxFaults /\ call[c] # NoCall
  /\ faults' = faults + 1
  /\ Throw(c)
  /\ UNCHANGED <<tables, running, requests, asked>>

-----------------------------------------------------------------------------
\* The library: a template station is deleted, a template scenario deleted or emptied
\* of a station; a game starts.
DeleteTemplateStation(s) ==
  /\ Ask /\ s \in Live /\ Template(s)
  /\ Without({s})
  /\ touched' = touched \cup {call[c].rz : c \in {d \in Calls : call[d] # NoCall}}
  /\ UNCHANGED <<realization, running, call, faults, asked>>

DeleteTemplate(n) ==
  /\ Ask /\ Exists(n) /\ scenario[n].own = None /\ ~Referenced(n)
  /\ Removed(n)
  /\ touched' = touched \cup {call[c].rz : c \in {d \in Calls : call[d] # NoCall}}
  /\ UNCHANGED <<station, realization, running, call, faults, asked>>

Start(r) ==
  /\ realization[r] # 0 /\ r \notin running /\ Ask
  /\ running' = running \cup {r}
  /\ UNCHANGED <<tables, call, faults, touched, asked>>

\* A draft names the station it edits (the template of it in a new realization) with its
\* template, or none, and the code the station is to have.
\* What the form sends: drafts of stations it shows, in any order, then a new one.
Shown(r, n) ==
  IF realization[r] = 0 \/ ~(n = realization[r] \/ scenario[realization[r]].tmpl = n)
  THEN ToSet(scenario[n].list) ELSE ToSet(scenario[realization[r]].list)
Forms(r, n) ==
  LET drafts == {[id |-> s, tmpl |-> station[s].tmpl, code |-> k] : s \in Shown(r, n), k \in Codes \cup {None}}
                \cup [id : {0}, tmpl : {0}, code : Codes]
  IN {f \in SeqOf(drafts, 2) : \A i, j \in DOMAIN f : i < j => f[i].id # f[j].id /\ f[i].id # 0}

Handle(c) ==
  \/ StartUpdate(c) \/ Discard(c) \/ ReadSource(c) \/ CloneStation(c) \/ AddScenario(c)
  \/ ReadCurrent(c) \/ ApplyDraft(c) \/ Prune(c) \/ Replace(c) \/ SaveRealization(c) \/ DropScenario(c)
  \/ StartDelete(c) \/ DeleteStations(c) \/ DeleteRow(c)

Next ==
  \/ \E c \in Calls :
       \/ Handle(c) \/ Fail(c)
       \/ \E r \in Realizations :
            \/ Delete(c, r)
            \/ /\ Free(c) /\ requests < MaxRequests
               /\ \E n \in {m \in DOMAIN scenario : Exists(m) /\ scenario[m].own \in {None, r}} :
                    \E f \in Forms(r, n) : Create(c, r, n, f) \/ Update(c, r, n, f)
  \/ \E s \in Stations : DeleteTemplateStation(s)
  \/ \E n \in DOMAIN scenario : DeleteTemplate(n)
  \/ \E r \in Realizations : Start(r)

Spec == Init /\ [][Next]_vars

-----------------------------------------------------------------------------
\* Whatever overlaps or breaks off, the stations of a realization are its own: no save
\* or delete of it reaches a template or another realization.
StationsOwned ==
  /\ \A n \in DOMAIN scenario : scenario[n].live =>
       \A i \in DOMAIN scenario[n].list : station[scenario[n].list[i]].own = scenario[n].own
  /\ \A r \in Realizations : realization[r] # 0 => scenario[realization[r]].own = r

\* A realization whose requests came one after the other and went through has exactly
\* one scenario, and every station made for it is in it: nothing is left behind.
NothingLeft ==
  \A r \in Realizations \ touched : ~Busy(r) =>
    /\ {n \in DOMAIN scenario : Exists(n) /\ scenario[n].own = r} = {realization[r]} \ {0}
    /\ {s \in Live : station[s].own = r} = IF realization[r] = 0 THEN {} ELSE ToSet(scenario[realization[r]].list)

\* A station has the code the last save gave it.
CodesAsSaved ==
  \A r \in Realizations \ touched : ~Busy(r) => \A x \in asked[r] : station[x[1]].code = x[2]
=============================================================================
