-------------------------- MODULE TeamTasks_proofs --------------------------
(***************************************************************************)
(* Proofs about TeamTasks for every choice of its constants: the type      *)
(* invariant; that the stored total, the outcome events and the scans of a *)
(* team left alone agree with its rows and claims; that no task in         *)
(* progress is stuck; what the first team gets when requests are served    *)
(* one at a time; and that such requests implement TaskBoard.              *)
(***************************************************************************)
EXTENDS TeamTasks, TLAPS

RowPCs == {"read", "busy", "start", "bonus", "finalize", "fail", "write",
           "photo", "scan", "upsert", "count"}
CodePCs == {"code", "first", "claim"}
TotalPCs == {"tasks", "claims", "total"}

\* Which request can be at which place of its handler.
Coherent(r) ==
  /\ pc[r] \in {"find", "resetAll", "clearAll"} => job[r].op = "resetTasks"
  /\ pc[r] \in {"wipe", "zero", "reopen"} => job[r].op = "resetGame"
  /\ pc[r] = "logAll" => job[r].op \in BulkOps
  /\ pc[r] \in TotalPCs => job[r].op # "resetGame"
  /\ pc[r] \in RowPCs \cup CodePCs \cup {"clear", "log"} => job[r].op \notin BulkOps

\* The total counts the rows and the claims of the team.
Exact(t) == tally[t] = Earned(t)

\* What holds of team t while the handler in slot r, alone, is busy with it.
Phase(r, t) ==
  LET j == job[r]
      row == progress[t][j.station]
  IN /\ pc[r] \in RowPCs \cup CodePCs \cup {"find", "resetAll", "wipe", "reopen", "logAll"} => Exact(t)
     /\ pc[r] \in RowPCs \ {"read"} => j.seen = row
     /\ pc[r] \in {"busy", "start", "photo", "scan", "upsert"} => row.status # "DONE"
     /\ j.team = t =>
          /\ pc[r] = "claims" => j.sum.awards = Counted(progress[t])
          /\ pc[r] = "total" => j.sum = Earned(t)
     /\ pc[r] = "resetAll" => \A s \in Stations : progress[t][s].status = "DONE" => <<t, s>> \in j.found
     /\ pc[r] = "clearAll" => ((\A s \in Stations : <<t, s>> \notin j.found) => Exact(t))
     /\ (pc[r] \in TotalPCs /\ t \notin j.left /\ t # j.team) => Exact(t)
     /\ pc[r] = "zero" => Counted(progress[t]) = NothingCounted

IInv ==
  /\ TypeOK
  /\ \A r \in Slots : Coherent(r)
  /\ \A t \in Teams : t \notin disturbed =>
       /\ \A r, q \in Slots : BusyOn(r, t) /\ BusyOn(q, t) => r = q
       /\ Idle(t) => Exact(t)
       /\ \A r \in Slots : BusyOn(r, t) => Phase(r, t)

-----------------------------------------------------------------------------
(* Type correctness.                                                       *)

\* The empty job is a job.
LEMMA NoJobType == NoJob \in Job
<1>1. AnyTeam \in Teams /\ AnyStation \in Stations /\ AnyLabel \in Labels
  BY ConstantsAssumption DEF AnyTeam, AnyStation, AnyLabel
<1>2. NoTally \in Tally
  BY DEF NoTally, Tally, NothingCounted, NotDone
<1>3. NoRow \in Row
  BY DEF NoRow, Row, Statuses
<1> QED BY <1>1, <1>2, <1>3 DEF NoJob, Job, Outcomes

\* A job stays a job when a field gets a value of its type.
LEMMA JobFields ==
  ASSUME NEW j \in Job, NEW row \in Row, NEW n \in Nat, NEW o \in Outcomes,
         NEW sum \in Tally, NEW f \in SUBSET (Teams \X Stations),
         NEW t \in Teams, NEW l \in SUBSET Teams
  PROVE /\ [j EXCEPT !.seen = row] \in Job
        /\ [j EXCEPT !.award = n] \in Job
        /\ [j EXCEPT !.outcome = o] \in Job
        /\ [j EXCEPT !.found = f] \in Job
        /\ [j EXCEPT !.left = l] \in Job
        /\ [j EXCEPT !.sum = sum] \in Job
        /\ [j EXCEPT !.team = t, !.left = l, !.sum = sum] \in Job
BY DEF Job

\* What rows count towards is a function with a worth, or none, per station.
LEMMA CountedType ==
  ASSUME NEW rows \in [Stations -> Row]
  PROVE Counted(rows) \in [Stations -> Nat \cup {NotDone}]
BY DEF Counted, Row

\* A handler that moves leaves its slot well typed.
LEMMA GoType ==
  ASSUME TypeOK, NEW r \in Slots, NEW next \in PCs, NEW j \in Job, Go(r, next, j)
  PROVE /\ pc' \in [Slots -> PCs] /\ job' \in [Slots -> Job]
        /\ served' \in Nat /\ crashes' \in Nat /\ disturbed' \subseteq Teams
BY DEF TypeOK, Go

LEMMA FinishType ==
  ASSUME TypeOK, NEW r \in Slots, Finish(r)
  PROVE /\ pc' \in [Slots -> PCs] /\ job' \in [Slots -> Job]
        /\ served' \in Nat /\ crashes' \in Nat /\ disturbed' \subseteq Teams
BY NoJobType, GoType DEF Finish, PCs

\* The type of the part of the state that the database keeps.
StoreOK ==
  /\ progress \in [Teams -> [Stations -> Row]]
  /\ scans \in [Teams -> [Stations -> SUBSET Labels]]
  /\ photos \in [Teams -> SUBSET Stations]
  /\ claims \in [Teams -> SUBSET Codes] /\ live \subseteq Codes
  /\ tally \in [Teams -> Tally]
  /\ latest \in [Teams -> [Stations -> Outcomes]]
  /\ kept \in [Teams -> [Stations -> Outcomes]]
  /\ ended \in BOOLEAN /\ epoch \in Nat

\* The type of the part that the server process keeps, and of the history.
ServerOK ==
  /\ pc \in [Slots -> PCs] /\ job \in [Slots -> Job]
  /\ served \in Nat /\ crashes \in Nat /\ disturbed \subseteq Teams

LEMMA TypeParts == TypeOK <=> StoreOK /\ ServerOK
BY DEF TypeOK, StoreOK, ServerOK

LEMMA InitType == Init => TypeOK
<1> SUFFICES ASSUME Init PROVE TypeOK
  OBVIOUS
<1>1. NoRow \in Row /\ NoTally \in Tally
  BY DEF NoRow, Row, Statuses, NoTally, Tally, NothingCounted
<1>2. StoreOK
  BY <1>1 DEF Init, StoreOK, Outcomes
<1>3. ServerOK
  BY NoJobType DEF Init, ServerOK, PCs
<1> QED BY <1>2, <1>3, TypeParts

\* What the handlers hold is well typed: the row that was read, the job itself.
LEMMA SeenType ==
  ASSUME TypeOK, NEW r \in Slots
  PROVE /\ job[r] \in Job /\ job[r].team \in Teams /\ job[r].station \in Stations
        /\ progress[job[r].team][job[r].station] \in Row
        /\ Seen(r) \in Job
<1>1. job[r] \in Job /\ job[r].team \in Teams /\ job[r].station \in Stations
  BY DEF TypeOK, Job
<1>2. progress[job[r].team][job[r].station] \in Row
  BY <1>1 DEF TypeOK
<1> QED BY <1>1, <1>2 DEF Seen, Job

\* Accepting a request.
LEMMA AcceptType ==
  ASSUME TypeOK, NEW r \in Slots, NEW first \in PCs, NEW j \in Job, NEW T \in SUBSET Teams,
         Accept(r, first, j, T)
  PROVE TypeOK'
BY DEF TypeOK, Accept, store

LEMMA ReceiveType ==
  ASSUME TypeOK, NEW r \in Slots, Receive(r)
  PROVE TypeOK'
<1>1. ASSUME NEW op \in DeviceOps \cup AdminOps, NEW t \in Teams, NEW s \in Stations,
             ReceiveTask(r, op, t, s)
      PROVE TypeOK'
  <2>1. [NoJob EXCEPT !.op = op, !.team = t, !.station = s] \in Job
    BY <1>1, NoJobType DEF Job
  <2> QED BY <1>1, <2>1, AcceptType DEF ReceiveTask, PCs
<1>2. ASSUME NEW t \in Teams, NEW s \in Stations, NEW label \in Labels,
             ReceiveScan(r, t, s, label)
      PROVE TypeOK'
  <2>1. [NoJob EXCEPT !.op = "scan", !.team = t, !.station = s, !.label = label] \in Job
    BY <1>2, NoJobType DEF Job, DeviceOps
  <2> QED BY <1>2, <2>1, AcceptType DEF ReceiveScan, PCs
<1>3. ASSUME NEW t \in Teams, NEW c \in Codes, ReceiveCode(r, t, c)
      PROVE TypeOK'
  <2>1. [NoJob EXCEPT !.op = "claim", !.team = t, !.code = c] \in Job
    BY <1>3, NoJobType DEF Job, DeviceOps
  <2> QED BY <1>3, <2>1, AcceptType DEF ReceiveCode, PCs
<1>4. ASSUME NEW op \in BulkOps
      PROVE [NoJob EXCEPT !.op = op] \in Job
  BY NoJobType DEF Job
<1>5. CASE ReceiveResetTasks(r)
  BY <1>4, <1>5, AcceptType DEF ReceiveResetTasks, PCs, BulkOps
<1>6. CASE ReceiveResetGame(r)
  BY <1>4, <1>6, AcceptType DEF ReceiveResetGame, PCs, BulkOps
<1> QED BY <1>1, <1>2, <1>3, <1>5, <1>6 DEF Receive

\* Steps that only read leave the store as it is.
LEMMA ReadOnlyType ==
  ASSUME TypeOK, UNCHANGED store, ServerOK'
  PROVE TypeOK'
BY DEF TypeOK, ServerOK, store

LEMMA GoServer ==
  ASSUME TypeOK, NEW r \in Slots, NEW next \in PCs, NEW j \in Job, Go(r, next, j)
  PROVE ServerOK'
BY GoType DEF ServerOK

LEMMA FinishServer ==
  ASSUME TypeOK, NEW r \in Slots, Finish(r)
  PROVE ServerOK'
BY FinishType DEF ServerOK

LEMMA JudgeServer ==
  ASSUME TypeOK, NEW r \in Slots, NEW j \in Job, Judge(r, j)
  PROVE ServerOK'
<1>1. CASE Go(r, "fail", j)
  BY <1>1, GoServer DEF PCs
<1>2. ASSUME NEW a \in Awards[j.station],
             Go(r, IF j.station \in BonusStations THEN "bonus" ELSE "finalize",
                [j EXCEPT !.award = a])
      PROVE ServerOK'
  <2>1. a \in Nat
    BY ConstantsAssumption DEF Job
  <2>2. [j EXCEPT !.award = a] \in Job
    BY <2>1 DEF Job
  <2> QED BY <1>2, <2>2, GoServer DEF PCs
<1> QED BY <1>1, <1>2 DEF Judge

LEMMA TallyFields ==
  ASSUME NEW j \in Job, NEW a \in [Stations -> Nat \cup {NotDone}], NEW c \in SUBSET Codes
  PROVE /\ j.sum \in Tally
        /\ [j EXCEPT !.sum.awards = a] \in Job
        /\ [j EXCEPT !.sum.codes = c] \in Job
<1>1. /\ [j.sum EXCEPT !.awards = a] \in Tally
      /\ [j.sum EXCEPT !.codes = c] \in Tally
      /\ j.sum \in Tally
  BY DEF Job, Tally
<1>2. ASSUME NEW x \in Tally PROVE [j EXCEPT !.sum = x] \in Job
  BY DEF Job
<1> QED BY <1>1, <1>2

LEMMA SaveType ==
  ASSUME TypeOK, NEW r \in Slots, NEW status \in Statuses, NEW pts \in Nat,
         NEW started \in BOOLEAN, NEW next \in PCs, NEW outcome \in Outcomes,
         Save(r, status, pts, started, next, outcome)
  PROVE TypeOK'
<1> DEFINE j == job[r]
           row == progress[j.team][j.station]
           new == [status |-> status, pts |-> pts, started |-> started,
                   id |-> IF row.status = "none" THEN epoch ELSE row.id]
<1>1. j \in Job /\ j.team \in Teams /\ j.station \in Stations /\ row \in Row
  BY SeenType
<1>2. new \in Row
  BY <1>1 DEF Row, TypeOK
<1>3. [j EXCEPT !.outcome = outcome] \in Job
  BY <1>1 DEF Job
<1> HIDE DEF new
<1>4. [progress EXCEPT ![j.team][j.station] = new] \in [Teams -> [Stations -> Row]]
  BY <1>1, <1>2 DEF TypeOK
<1>5. progress' \in [Teams -> [Stations -> Row]]
  BY <1>4 DEF Save, new, TypeOK
<1>6. ServerOK'
  BY <1>1, <1>3, GoServer, FinishServer DEF Save
<1> QED BY <1>5, <1>6 DEF Save, TypeOK, ServerOK

LEMMA NextTeamServer ==
  ASSUME TypeOK, NEW r \in Slots, NEW j \in Job, NextTeam(r, j)
  PROVE ServerOK'
<1>1. CASE j.left = {} /\ Go(r, "logAll", j)
  BY <1>1, GoServer DEF PCs
<1>2. ASSUME NEW t \in j.left,
             Go(r, "tasks", [j EXCEPT !.team = t, !.left = @ \ {t}, !.sum = NoTally])
      PROVE ServerOK'
  <2>1. t \in Teams /\ j.left \ {t} \in SUBSET Teams /\ NoTally \in Tally
    BY DEF Job, NoTally, Tally, NothingCounted
  <2>2. [j EXCEPT !.team = t, !.left = @ \ {t}, !.sum = NoTally] \in Job
    BY <2>1 DEF Job
  <2> QED BY <1>2, <2>2, GoServer DEF PCs
<1> QED BY <1>1, <1>2 DEF NextTeam

LEMMA TaskType ==
  ASSUME TypeOK, NEW r \in Slots, Task(r)
  PROVE TypeOK'
<1> DEFINE j == job[r]
<1>1. /\ j \in Job /\ j.team \in Teams /\ j.station \in Stations
      /\ progress[j.team][j.station] \in Row /\ Seen(r) \in Job
  BY SeenType
<1>2. j.seen \in Row /\ j.award \in Nat /\ j.outcome \in Outcomes
      /\ j.seen.started \in BOOLEAN /\ progress[j.team][j.station].pts \in Nat
  BY <1>1 DEF Job, Row
<1>3. CASE ReadStart(r)
  BY <1>1, <1>3, GoServer, FinishServer, ReadOnlyType DEF ReadStart, PCs
<1>4. CASE CheckBusy(r)
  BY <1>1, <1>4, GoServer, FinishServer, ReadOnlyType DEF CheckBusy, PCs
<1>5. CASE WriteStarted(r)
  BY <1>2, <1>5, SaveType DEF WriteStarted, Statuses, PCs, Outcomes
<1>6. CASE ReadComplete(r)
  BY <1>1, <1>6, JudgeServer, FinishServer, ReadOnlyType DEF ReadComplete
<1>7. CASE CheckBonus(r)
  <2>1. BonusAward[j.station] \in Nat
    BY <1>1, ConstantsAssumption
  <2>2. \A n \in Nat : [j EXCEPT !.award = n] \in Job
    BY <1>1 DEF Job
  <2>3. \E n \in Nat : Go(r, "finalize", [j EXCEPT !.award = n]) /\ UNCHANGED store
    BY <1>2, <1>7, <2>1 DEF CheckBonus
  <2> QED BY <2>2, <2>3, GoServer, ReadOnlyType DEF PCs
<1>8. CASE Finalize(r)
  BY <1>2, <1>8, SaveType DEF Finalize, Statuses, PCs, Outcomes
<1>9. CASE ReadFail(r)
  BY <1>1, <1>9, GoServer, FinishServer, ReadOnlyType DEF ReadFail, PCs
<1>10. CASE MarkFailed(r)
  BY <1>2, <1>10, SaveType DEF MarkFailed, Statuses, PCs, Outcomes
<1>11. CASE ReadContext(r)
  BY <1>1, <1>11, GoServer, ReadOnlyType DEF ReadContext, PCs
<1>12. CASE AdminComplete(r)
  <2>1. AdminAward[j.station] \in Nat
    BY <1>1, ConstantsAssumption
  <2> QED BY <1>12, <2>1, SaveType DEF AdminComplete, Statuses, PCs, Outcomes
<1>13. CASE AdminReset(r)
  BY <1>13, SaveType DEF AdminReset, Statuses, PCs, Outcomes
<1>14. CASE ClearScans(r)
  <2>1. ServerOK'
    BY <1>1, <1>14, GoServer DEF ClearScans, PCs
  <2>2. scans' \in [Teams -> [Stations -> SUBSET Labels]]
    BY <1>1, <1>14 DEF ClearScans, TypeOK
  <2> QED BY <1>14, <2>1, <2>2 DEF ClearScans, TypeOK, ServerOK
<1>15. CASE LogOutcome(r)
  <2>1. ServerOK'
    BY <1>1, <1>15, GoServer DEF LogOutcome, PCs
  <2>2. /\ latest' \in [Teams -> [Stations -> Outcomes]]
        /\ kept' \in [Teams -> [Stations -> Outcomes]]
    BY <1>1, <1>2, <1>15 DEF LogOutcome, TypeOK
  <2> QED BY <1>15, <2>1, <2>2 DEF LogOutcome, TypeOK, ServerOK
<1> QED BY <1>3, <1>4, <1>5, <1>6, <1>7, <1>8, <1>9, <1>10, <1>11, <1>12, <1>13, <1>14, <1>15
       DEF Task

LEMMA SubmissionType ==
  ASSUME TypeOK, NEW r \in Slots, Submission(r)
  PROVE TypeOK'
<1> DEFINE j == job[r]
<1>1. /\ j \in Job /\ j.team \in Teams /\ j.station \in Stations /\ j.label \in Labels
      /\ progress[j.team][j.station] \in Row /\ Seen(r) \in Job
  BY SeenType DEF Job
<1>2. CASE ReadPhoto(r)
  BY <1>1, <1>2, GoServer, FinishServer, ReadOnlyType DEF ReadPhoto, PCs
<1>3. CASE SavePhoto(r)
  <2>1. ServerOK'
    BY <1>1, <1>3, GoServer DEF SavePhoto, PCs
  <2>2. photos' \in [Teams -> SUBSET Stations]
    BY <1>1, <1>3 DEF SavePhoto, TypeOK
  <2> QED BY <1>3, <2>1, <2>2 DEF SavePhoto, TypeOK, ServerOK
<1>4. CASE ReadScan(r)
  BY <1>1, <1>4, GoServer, FinishServer, ReadOnlyType DEF ReadScan, PCs
<1>5. CASE SaveScan(r)
  <2>1. ServerOK'
    BY <1>1, <1>5, GoServer DEF SaveScan, PCs
  <2>2. scans' \in [Teams -> [Stations -> SUBSET Labels]]
    BY <1>1, <1>5 DEF SaveScan, TypeOK
  <2> QED BY <1>5, <2>1, <2>2 DEF SaveScan, TypeOK, ServerOK
<1>6. CASE UpsertRow(r)
  <2> DEFINE row == Upserted(progress[j.team][j.station])
  <2>1. row \in Row
    BY <1>1 DEF Upserted, Row, Statuses, TypeOK
  <2> HIDE DEF row
  <2>2. progress' \in [Teams -> [Stations -> Row]]
    <3>1. progress' = [progress EXCEPT ![j.team][j.station] = row]
      BY <1>6 DEF UpsertRow, row
    <3> QED BY <1>1, <2>1, <3>1 DEF TypeOK
  <2>3. [j EXCEPT !.seen = row] \in Job
    BY <1>1, <2>1 DEF Job
  <2>4. Finish(r) \/ Go(r, "count", [j EXCEPT !.seen = row])
    BY <1>6 DEF UpsertRow, row
  <2>5. ServerOK'
    BY <2>3, <2>4, GoServer, FinishServer DEF PCs
  <2> QED BY <1>6, <2>2, <2>5 DEF UpsertRow, TypeOK, ServerOK
<1>7. CASE CountScans(r)
  BY <1>1, <1>7, JudgeServer, FinishServer, ReadOnlyType DEF CountScans
<1> QED BY <1>2, <1>3, <1>4, <1>5, <1>6, <1>7 DEF Submission

LEMMA ClaimType ==
  ASSUME TypeOK, NEW r \in Slots, Claim(r)
  PROVE TypeOK'
<1> DEFINE j == job[r]
<1>1. j \in Job /\ j.team \in Teams
  BY SeenType
<1>2. CASE FindCode(r)
  BY <1>1, <1>2, GoServer, FinishServer, ReadOnlyType DEF FindCode, PCs
<1>3. CASE CheckFirstTeam(r)
  BY <1>1, <1>3, GoServer, FinishServer, ReadOnlyType DEF CheckFirstTeam, PCs
<1>4. CASE CreateClaim(r)
  <2>1. ServerOK'
    BY <1>1, <1>4, GoServer, FinishServer DEF CreateClaim, PCs
  <2>2. CASE UNCHANGED claims
    BY <1>4, <2>1, <2>2 DEF CreateClaim, TypeOK, ServerOK
  <2>3. CASE j.code \in live /\ claims' = [claims EXCEPT ![j.team] = @ \cup {j.code}]
    <3>1. claims[j.team] \cup {j.code} \in SUBSET Codes
      BY <1>1, <2>3 DEF TypeOK
    <3>2. claims' \in [Teams -> SUBSET Codes]
      BY <1>1, <2>3, <3>1 DEF TypeOK
    <3> QED BY <1>4, <2>1, <3>2 DEF CreateClaim, TypeOK, ServerOK
  <2> QED BY <1>4, <2>2, <2>3 DEF CreateClaim
<1> QED BY <1>2, <1>3, <1>4 DEF Claim

LEMMA RecalculateType ==
  ASSUME TypeOK, NEW r \in Slots, Recalculate(r)
  PROVE TypeOK'
<1> DEFINE j == job[r]
<1>1. j \in Job /\ j.team \in Teams
  BY SeenType
<1>2. /\ Counted(progress[j.team]) \in [Stations -> Nat \cup {NotDone}]
      /\ claims[j.team] \in SUBSET Codes
  BY <1>1, CountedType DEF TypeOK
<1>3. CASE ReadTasks(r)
  <2>1. [j EXCEPT !.sum.awards = Counted(progress[j.team])] \in Job
    BY <1>1, <1>2, TallyFields
  <2> QED BY <1>3, <2>1, GoServer, ReadOnlyType DEF ReadTasks, PCs
<1>4. CASE ReadClaims(r)
  <2>1. [j EXCEPT !.sum.codes = claims[j.team]] \in Job
    BY <1>1, <1>2, TallyFields
  <2> QED BY <1>4, <2>1, GoServer, ReadOnlyType DEF ReadClaims, PCs
<1>5. CASE WriteTotal(r)
  <2>1. ServerOK'
    BY <1>1, <1>5, NextTeamServer, FinishServer DEF WriteTotal
  <2>2. tally' \in [Teams -> Tally]
    BY <1>1, <1>2, <1>5, TallyFields DEF WriteTotal, TypeOK
  <2> QED BY <1>5, <2>1, <2>2 DEF WriteTotal, TypeOK, ServerOK
<1> QED BY <1>3, <1>4, <1>5 DEF Recalculate

LEMMA ResetType ==
  ASSUME TypeOK, NEW r \in Slots, Reset(r)
  PROVE TypeOK'
<1> DEFINE j == job[r]
<1>1. j \in Job
  BY SeenType
<1>2. NoRow \in Row /\ NoTally \in Tally
  BY DEF NoRow, Row, Statuses, NoTally, Tally, NothingCounted
<1>3. CASE FindResettable(r)
  <2>1. Resettable \in SUBSET (Teams \X Stations)
    BY DEF Resettable
  <2>2. [j EXCEPT !.found = Resettable] \in Job
    BY <1>1, <2>1 DEF Job
  <2> QED BY <1>3, <2>2, GoServer, FinishServer, ReadOnlyType DEF FindResettable, PCs
<1>4. CASE ResetRows(r)
  <2>1. ServerOK'
    BY <1>1, <1>4, GoServer DEF ResetRows, PCs
  <2>2. ASSUME NEW t \in Teams, NEW s \in Stations
        PROVE [progress[t][s] EXCEPT !.status = "TODO", !.pts = 0, !.started = FALSE] \in Row
    <3>1. progress[t][s] \in Row
      BY DEF TypeOK
    <3> QED BY <3>1 DEF Row, Statuses
  <2>3. progress' \in [Teams -> [Stations -> Row]]
    BY <1>4, <2>2 DEF ResetRows, TypeOK
  <2> QED BY <1>4, <2>1, <2>3 DEF ResetRows, TypeOK, ServerOK
<1>5. CASE ClearFoundScans(r)
  <2>1. {p[1] : p \in j.found} \in SUBSET Teams
    BY <1>1 DEF Job
  <2>2. [j EXCEPT !.left = {p[1] : p \in j.found}] \in Job
    BY <1>1, <2>1 DEF Job
  <2>3. ServerOK'
    BY <1>5, <2>2, NextTeamServer DEF ClearFoundScans
  <2>4. scans' \in [Teams -> [Stations -> SUBSET Labels]]
    BY <1>5 DEF ClearFoundScans, TypeOK
  <2> QED BY <1>5, <2>3, <2>4 DEF ClearFoundScans, TypeOK, ServerOK
<1>6. CASE Wipe(r)
  <2>1. ServerOK'
    BY <1>1, <1>6, GoServer DEF Wipe, PCs
  <2> QED BY <1>2, <1>6, <2>1 DEF Wipe, TypeOK, ServerOK
<1>7. CASE ZeroTotals(r)
  BY <1>2, <1>7 DEF ZeroTotals, TypeOK, PCs
<1>8. CASE Reopen(r)
  <2>1. ServerOK'
    BY <1>1, <1>8, GoServer DEF Reopen, PCs
  <2> QED BY <1>8, <2>1 DEF Reopen, TypeOK, ServerOK
<1>9. CASE LogReset(r)
  <2>1. ServerOK'
    BY <1>9, FinishServer DEF LogReset
  <2> QED BY <1>9, <2>1 DEF LogReset, TypeOK, ServerOK, Outcomes
<1> QED BY <1>3, <1>4, <1>5, <1>6, <1>7, <1>8, <1>9 DEF Reset

\* Every step keeps the types.
LEMMA TypeStep == TypeOK /\ [Next]_vars => TypeOK'
<1> SUFFICES ASSUME TypeOK, [Next]_vars PROVE TypeOK'
  OBVIOUS
<1>1. ASSUME NEW r \in Slots, Receive(r) \/ Serve(r) PROVE TypeOK'
  BY <1>1, ReceiveType, TaskType, SubmissionType, ClaimType, RecalculateType, ResetType DEF Serve
<1>2. CASE FinishGame
  BY <1>2 DEF FinishGame, TypeOK
<1>3. ASSUME NEW c \in Codes, DeleteCode(c) PROVE TypeOK'
  BY <1>3 DEF DeleteCode, TypeOK
<1>4. CASE Crash
  BY <1>4, NoJobType DEF Crash, TypeOK, store, PCs
<1>5. CASE UNCHANGED vars
  BY <1>5 DEF vars, store, TypeOK
<1> QED BY <1>1, <1>2, <1>3, <1>4, <1>5 DEF Next, Rest

\* The database rows, the handlers' snapshots and the history keep their types in
\* every reachable state, whatever the stations, teams and slots are.
THEOREM TypeCorrect == Spec => []TypeOK
BY InitType, TypeStep, PTL DEF Spec

-----------------------------------------------------------------------------
(* The totals. A handler either works for one team, and leaves everything  *)
(* of the other teams alone, or for all of them; whoever else is busy with *)
(* an undisturbed team is nobody.                                          *)

Good(t) ==
  /\ \A r, q \in Slots : BusyOn(r, t) /\ BusyOn(q, t) => r = q
  /\ Idle(t) => Exact(t)
  /\ \A r \in Slots : BusyOn(r, t) => Phase(r, t)

\* A step of the handler in slot r: what it does to the server's side.
OneMoves(r) ==
  /\ pc[r] # "idle" /\ Coherent(r)'
  /\ \A q \in Slots \ {r} : pc'[q] = pc[q] /\ job'[q] = job[q]
  /\ pc'[r] # "idle" => job'[r].op = job[r].op

\* What it leaves behind for team t.
Leaves(r, t) ==
  /\ pc'[r] = "idle" => Exact(t)'
  /\ pc'[r] # "idle" => Phase(r, t)'

\* A handler that works for one team.
Local(r) ==
  /\ OneMoves(r) /\ disturbed' = disturbed
  /\ job[r].op \notin BulkOps
  /\ pc'[r] # "idle" => job'[r].team = job[r].team
  /\ \A t \in Teams \ {job[r].team} :
       progress'[t] = progress[t] /\ claims'[t] = claims[t] /\ tally'[t] = tally[t]
  /\ \A t \in Teams : t = job[r].team /\ t \notin disturbed => Leaves(r, t)

\* A handler that works for all teams.
Global(r) ==
  /\ OneMoves(r) /\ disturbed \subseteq disturbed'
  /\ job[r].op \in BulkOps
  /\ \A t \in Teams : t \notin disturbed' => Leaves(r, t)

\* What a team has earned depends on its own rows and claims only.
LEMMA Frame ==
  ASSUME NEW t \in Teams, progress'[t] = progress[t], claims'[t] = claims[t]
  PROVE Earned(t)' = Earned(t)
BY DEF Earned, Counted

LEMMA PhaseFrame ==
  ASSUME NEW t \in Teams, NEW q \in Slots, Phase(q, t),
         progress'[t] = progress[t], claims'[t] = claims[t], tally'[t] = tally[t],
         pc'[q] = pc[q], job'[q] = job[q]
  PROVE Phase(q, t)'
<1>1. Earned(t)' = Earned(t)
  BY Frame
<1>2. Counted(progress[t])' = Counted(progress[t]) /\ NothingCounted' = NothingCounted
  BY DEF Counted, NothingCounted
<1>3. Exact(t)' <=> Exact(t)
  BY <1>1 DEF Exact
<1> QED BY <1>1, <1>2, <1>3 DEF Phase

LEMMA CoherentFrame ==
  ASSUME NEW q \in Slots, Coherent(q), pc'[q] = pc[q], job'[q] = job[q]
  PROVE Coherent(q)'
BY DEF Coherent

\* A local step keeps every team's account.
LEMMA LocalStep ==
  ASSUME IInv, TypeOK', NEW r \in Slots, Local(r)
  PROVE IInv'
<1>1. ASSUME NEW q \in Slots PROVE Coherent(q)'
  BY <1>1, CoherentFrame DEF IInv, Local, OneMoves
<1>2. ASSUME NEW t \in Teams, t \notin disturbed' PROVE Good(t)'
  <2>1. t \notin disturbed /\ Good(t)
    BY <1>2 DEF Local, IInv, Good
  <2>2. CASE t = job[r].team
    <3>1. BusyOn(r, t) /\ \A q \in Slots \ {r} : ~BusyOn(q, t)
      BY <2>1, <2>2 DEF Local, OneMoves, BusyOn, Good
    <3>2. \A q \in Slots \ {r} : ~BusyOn(q, t)'
      BY <3>1 DEF Local, OneMoves, BusyOn
    <3>3. BusyOn(r, t)' <=> pc'[r] # "idle"
      BY <2>2 DEF Local, OneMoves, BusyOn
    <3>4. Leaves(r, t)
      BY <2>1, <2>2 DEF Local
    <3> QED BY <3>2, <3>3, <3>4 DEF Good, Idle, Leaves
  <2>3. CASE t # job[r].team
    <3>1. /\ progress'[t] = progress[t] /\ claims'[t] = claims[t] /\ tally'[t] = tally[t]
      BY <2>3 DEF Local
    <3>2. \A q \in Slots : BusyOn(q, t)' <=> BusyOn(q, t)
      BY <2>3 DEF Local, OneMoves, BusyOn
    <3>3. ~BusyOn(r, t)
      BY <2>3 DEF Local, OneMoves, BusyOn
    <3>4. Exact(t)' <=> Exact(t)
      BY <3>1, Frame DEF Exact
    <3>5. ASSUME NEW q \in Slots, BusyOn(q, t) PROVE Phase(q, t)'
      <4>1. q # r
        BY <3>3, <3>5
      <4>2. pc'[q] = pc[q] /\ job'[q] = job[q] /\ Phase(q, t)
        BY <2>1, <3>5, <4>1 DEF Local, OneMoves, Good
      <4> QED BY <3>1, <4>2, PhaseFrame
    <3> QED BY <2>1, <3>2, <3>4, <3>5 DEF Good, Idle
  <2> QED BY <2>2, <2>3
<1> QED BY <1>1, <1>2 DEF IInv, Good

\* So does a step of a handler that works for all teams.
LEMMA GlobalStep ==
  ASSUME IInv, TypeOK', NEW r \in Slots, Global(r)
  PROVE IInv'
<1>1. ASSUME NEW q \in Slots PROVE Coherent(q)'
  BY <1>1, CoherentFrame DEF IInv, Global, OneMoves
<1>2. ASSUME NEW t \in Teams, t \notin disturbed' PROVE Good(t)'
  <2>1. t \notin disturbed /\ Good(t)
    BY <1>2 DEF Global, IInv, Good
  <2>2. BusyOn(r, t) /\ \A q \in Slots \ {r} : ~BusyOn(q, t)
    BY <2>1 DEF Global, OneMoves, BusyOn, Good
  <2>3. \A q \in Slots \ {r} : ~BusyOn(q, t)'
    BY <2>2 DEF Global, OneMoves, BusyOn
  <2>4. BusyOn(r, t)' <=> pc'[r] # "idle"
    BY DEF Global, OneMoves, BusyOn
  <2>5. Leaves(r, t)
    BY <1>2 DEF Global
  <2> QED BY <2>3, <2>4, <2>5 DEF Good, Idle, Leaves
<1> QED BY <1>1, <1>2 DEF IInv, Good

-----------------------------------------------------------------------------
(* Handlers that work for one team.                                        *)

\* What a moving handler does to the slots.
LEMMA GoMoves ==
  ASSUME TypeOK, NEW r \in Slots, NEW next, NEW j, Go(r, next, j)
  PROVE /\ pc'[r] = next /\ job'[r] = j /\ disturbed' = disturbed
        /\ \A q \in Slots \ {r} : pc'[q] = pc[q] /\ job'[q] = job[q]
BY DEF TypeOK, Go

\* A handler serves its own team, and what it knows of it holds.
LEMMA Busy ==
  ASSUME IInv, NEW r \in Slots, pc[r] # "idle"
  PROVE /\ TypeOK /\ Coherent(r) /\ job[r].team \in Teams /\ job[r].station \in Stations
        /\ job[r].team \notin disturbed => Phase(r, job[r].team)
        /\ job[r].op \in BulkOps => \A t \in Teams : t \notin disturbed => Phase(r, t)
<1>1. TypeOK /\ Coherent(r)
  BY DEF IInv
<1>2. job[r].team \in Teams /\ job[r].station \in Stations
  BY <1>1, SeenType
<1>3. BusyOn(r, job[r].team) /\ (job[r].op \in BulkOps => \A t \in Teams : BusyOn(r, t))
  BY DEF BusyOn
<1> QED BY <1>1, <1>2, <1>3 DEF IInv

\* The rows and claims of the other teams stay as they are.
Apart(r) ==
  \A t \in Teams \ {job[r].team} :
    progress'[t] = progress[t] /\ claims'[t] = claims[t] /\ tally'[t] = tally[t]

LEMMA GoLocal ==
  ASSUME IInv, NEW r \in Slots, pc[r] # "idle", job[r].op \notin BulkOps, Apart(r),
         NEW next \in RowPCs \cup CodePCs \cup TotalPCs \cup {"clear", "log"}, NEW j,
         Go(r, next, j), j.op = job[r].op, j.team = job[r].team,
         NEW t \in Teams, t = job[r].team, t \notin disturbed => Phase(r, t)'
  PROVE Local(r)
<1>1. /\ pc'[r] = next /\ job'[r] = j /\ disturbed' = disturbed /\ next # "idle"
      /\ \A q \in Slots \ {r} : pc'[q] = pc[q] /\ job'[q] = job[q]
  BY GoMoves DEF IInv, RowPCs, CodePCs, TotalPCs
<1>2. Coherent(r)'
  BY <1>1 DEF Coherent, RowPCs, CodePCs, TotalPCs, BulkOps
<1> QED BY <1>1, <1>2 DEF Local, OneMoves, Leaves, Apart

LEMMA FinishLocal ==
  ASSUME IInv, NEW r \in Slots, pc[r] # "idle", job[r].op \notin BulkOps, Apart(r),
         Finish(r), NEW t \in Teams, t = job[r].team, t \notin disturbed => Exact(t)'
  PROVE Local(r)
<1>1. /\ pc'[r] = "idle" /\ disturbed' = disturbed
      /\ \A q \in Slots \ {r} : pc'[q] = pc[q] /\ job'[q] = job[q]
  BY GoMoves DEF IInv, Finish
<1>2. Coherent(r)'
  BY <1>1 DEF Coherent, RowPCs, CodePCs, TotalPCs
<1> QED BY <1>1, <1>2 DEF Local, OneMoves, Leaves, Apart

\* The accounts of the teams: their rows, their claims and their totals.
accounts == <<progress, claims, tally>>

LEMMA Still ==
  ASSUME UNCHANGED accounts, NEW r \in Slots, NEW t \in Teams
  PROVE /\ Apart(r) /\ progress'[t] = progress[t] /\ Earned(t)' = Earned(t)
        /\ Exact(t)' <=> Exact(t)
BY DEF accounts, Apart, Earned, Counted, Exact

\* A write to one row leaves the other teams apart.
LEMMA RowApart ==
  ASSUME TypeOK, NEW r \in Slots, NEW row, UNCHANGED <<claims, tally>>,
         job[r].team \in Teams, job[r].station \in Stations,
         progress' = [progress EXCEPT ![job[r].team][job[r].station] = row]
  PROVE /\ Apart(r)
        /\ progress'[job[r].team][job[r].station] = row
        /\ \A s \in Stations \ {job[r].station} :
              progress'[job[r].team][s] = progress[job[r].team][s]
BY DEF TypeOK, Apart

\* A row that is not done before and after does not change the account.
LEMMA OpenRow ==
  ASSUME NEW t \in Teams, NEW s \in Stations, UNCHANGED <<claims, tally>>,
         \A x \in Stations \ {s} : progress'[t][x] = progress[t][x],
         progress[t][s].status # "DONE", progress'[t][s].status # "DONE"
  PROVE Exact(t)' <=> Exact(t)
<1>1. Counted(progress[t])' = Counted(progress[t])
  BY DEF Counted
<1>2. Earned(t)' = Earned(t)
  BY <1>1 DEF Earned
<1> QED BY <1>2 DEF Exact

\* A handler that works on a row and goes on without touching any account.
LEMMA RowGoesOn ==
  ASSUME IInv, NEW r \in Slots, pc[r] \in RowPCs, NEW t \in Teams, t = job[r].team,
         NEW next \in RowPCs \ {"read"}, NEW k, k.op = job[r].op, k.team = t,
         t \notin disturbed =>
           /\ k.seen = progress[t][k.station]
           /\ next \in {"busy", "start", "photo", "scan", "upsert"} =>
                progress[t][k.station].status # "DONE",
         Go(r, next, k), UNCHANGED accounts
  PROVE Local(r)
<1>1. pc[r] # "idle" /\ job[r].op \notin BulkOps
  BY DEF RowPCs, IInv, Coherent
<1>2. Apart(r) /\ progress'[t] = progress[t] /\ (Exact(t)' <=> Exact(t))
  BY Still
<1>3. pc'[r] = next /\ job'[r] = k
  BY GoMoves DEF IInv
<1>4. t \notin disturbed => Exact(t)
  BY <1>1, Busy DEF Phase
<1>5. t \notin disturbed => Phase(r, t)'
  BY <1>2, <1>3, <1>4 DEF Phase, RowPCs, CodePCs, TotalPCs
<1>6. next \in RowPCs \cup CodePCs \cup TotalPCs \cup {"clear", "log"}
  OBVIOUS
<1> QED BY <1>1, <1>2, <1>5, <1>6, GoLocal

\* A handler that ends without touching any account.
LEMMA EndsQuietly ==
  ASSUME IInv, NEW r \in Slots, pc[r] \in RowPCs \cup CodePCs, Finish(r), UNCHANGED accounts
  PROVE Local(r)
<1>1. pc[r] # "idle" /\ job[r].op \notin BulkOps
  BY DEF RowPCs, CodePCs, IInv, Coherent
<1>2. PICK t \in Teams : t = job[r].team
  BY <1>1, Busy
<1>3. t \notin disturbed => Exact(t)
  BY <1>1, <1>2, Busy DEF Phase
<1>4. Apart(r) /\ (Exact(t)' <=> Exact(t))
  BY Still
<1> QED BY <1>1, <1>2, <1>3, <1>4, FinishLocal

LEMMA JudgeLocal ==
  ASSUME IInv, NEW r \in Slots, pc[r] \in RowPCs, NEW t \in Teams, t = job[r].team,
         NEW j \in Job, j.op = job[r].op, j.team = job[r].team,
         t \notin disturbed => j.seen = progress[t][j.station],
         Judge(r, j), UNCHANGED accounts
  PROVE Local(r)
<1>1. PICK next \in {"fail", "bonus", "finalize"}, k \in Job :
        /\ Go(r, next, k) /\ k.op = j.op /\ k.team = j.team /\ k.station = j.station
        /\ k.seen = j.seen
  <2>1. CASE Go(r, "fail", j)
    BY <2>1
  <2>2. ASSUME NEW a \in Awards[j.station],
               Go(r, IF j.station \in BonusStations THEN "bonus" ELSE "finalize",
                  [j EXCEPT !.award = a])
        PROVE \E next \in {"fail", "bonus", "finalize"}, k \in Job :
                /\ Go(r, next, k) /\ k.op = j.op /\ k.team = j.team /\ k.station = j.station
                /\ k.seen = j.seen
    <3> DEFINE k == [j EXCEPT !.award = a]
    <3>1. a \in Nat
      BY ConstantsAssumption DEF Job
    <3>2. k \in Job /\ k.op = j.op /\ k.team = j.team /\ k.station = j.station /\ k.seen = j.seen
      BY <3>1 DEF Job
    <3> QED BY <2>2, <3>2
  <2> QED BY <2>1, <2>2 DEF Judge
<1>2. next \in RowPCs \ {"read"} /\ next \notin {"busy", "start", "photo", "scan", "upsert"}
  BY DEF RowPCs
<1> QED BY <1>1, <1>2, RowGoesOn

\* A decision is saved: the handler goes on to log it, or its row was replaced.
LEMMA SaveLocal ==
  ASSUME IInv, NEW r \in Slots, pc[r] \in RowPCs \ {"read"},
         NEW status, NEW pts, NEW started, NEW next \in {"clear", "log"}, NEW outcome,
         Save(r, status, pts, started, next, outcome)
  PROVE Local(r)
<1> DEFINE j == job[r]
           new == [status |-> status, pts |-> pts, started |-> started,
                   id |-> IF progress[j.team][j.station].status = "none" THEN epoch
                          ELSE progress[j.team][j.station].id]
<1>1. pc[r] # "idle" /\ job[r].op \notin BulkOps
  BY DEF RowPCs, IInv, Coherent
<1>2. PICK t \in Teams : t = job[r].team
  BY <1>1, Busy
<1>3. CASE UNCHANGED progress /\ Finish(r)
  BY <1>3, EndsQuietly DEF Save, accounts
<1>4. CASE /\ progress' = [progress EXCEPT ![j.team][j.station] = new]
           /\ Go(r, next, [j EXCEPT !.outcome = outcome])
  <2>1. Apart(r)
    BY <1>1, <1>4, RowApart, Busy DEF Save, IInv
  <2>2. j \in Job
    BY SeenType DEF IInv
  <2> DEFINE k == [j EXCEPT !.outcome = outcome]
  <2>3. k.op = j.op /\ k.team = j.team
    BY <2>2 DEF Job
  <2>4. pc'[r] = next /\ job'[r] = k
    BY <1>4, GoMoves DEF IInv
  <2>5. Phase(r, t)'
    BY <2>4 DEF Phase, RowPCs, CodePCs, TotalPCs
  <2>6. next \in RowPCs \cup CodePCs \cup TotalPCs \cup {"clear", "log"}
    OBVIOUS
  <2> QED BY <1>1, <1>2, <1>4, <2>1, <2>3, <2>5, <2>6, GoLocal
<1> QED BY <1>3, <1>4 DEF Save

\* What a handler on a row knows: where it is, and that the row is as it saw it.
LEMMA OnRow ==
  ASSUME IInv, NEW r \in Slots, pc[r] \in RowPCs
  PROVE \E t \in Teams :
          /\ t = job[r].team /\ TypeOK /\ job[r] \in Job
          /\ Seen(r) \in Job /\ Seen(r).seen = progress[t][job[r].station]
          /\ Seen(r).op = job[r].op /\ Seen(r).team = t /\ Seen(r).station = job[r].station
          /\ t \notin disturbed => Exact(t) /\ Phase(r, t)
<1>1. pc[r] # "idle"
  BY DEF RowPCs
<1>2. PICK t \in Teams : t = job[r].team /\ TypeOK /\ (t \notin disturbed => Phase(r, t))
  BY <1>1, Busy
<1>3. t \notin disturbed => Exact(t)
  BY <1>2 DEF Phase
<1>4. job[r] \in Job /\ Seen(r) \in Job
  BY <1>2, SeenType
<1>5. /\ Seen(r).op = job[r].op /\ Seen(r).team = t /\ Seen(r).station = job[r].station
      /\ Seen(r).seen = progress[t][job[r].station]
  BY <1>2, <1>4 DEF Seen, Job
<1> QED BY <1>2, <1>3, <1>4, <1>5

LEMMA TaskLocal ==
  ASSUME IInv, NEW r \in Slots, Task(r)
  PROVE Local(r)
<1> DEFINE j == job[r]
<1>1. CASE ReadStart(r)
  <2>1. pc[r] \in RowPCs /\ UNCHANGED accounts
    BY <1>1 DEF ReadStart, At, RowPCs, store, accounts
  <2>2. PICK t \in Teams :
          /\ t = job[r].team /\ Seen(r).seen = progress[t][job[r].station]
          /\ Seen(r).op = job[r].op /\ Seen(r).team = t /\ Seen(r).station = job[r].station
    BY <2>1, OnRow
  <2>3. CASE Finish(r)
    BY <2>1, <2>3, EndsQuietly
  <2>4. CASE /\ ~Decided(Seen(r).seen)
             /\ Go(r, IF Seen(r).station \in SharedStations THEN "start" ELSE "busy", Seen(r))
    <3>1. PICK next \in {"start", "busy"} : Go(r, next, Seen(r))
      BY <2>4
    <3>2. next \in RowPCs \ {"read"}
      BY DEF RowPCs
    <3> QED BY <2>1, <2>2, <2>4, <3>1, <3>2, RowGoesOn DEF Decided
  <2> QED BY <1>1, <2>3, <2>4 DEF ReadStart
<1>2. CASE CheckBusy(r)
  <2>1. pc[r] \in RowPCs \ {"read"} /\ pc[r] = "busy" /\ UNCHANGED accounts
    BY <1>2 DEF CheckBusy, RowPCs, store, accounts
  <2>2. PICK t \in Teams : t = job[r].team /\ (t \notin disturbed => Phase(r, t))
    BY <2>1, OnRow
  <2>3. t \notin disturbed => /\ j.seen = progress[t][j.station]
                             /\ progress[t][j.station].status # "DONE"
    BY <2>1, <2>2 DEF Phase
  <2>4. CASE Finish(r)
    BY <2>1, <2>4, EndsQuietly
  <2>5. CASE Go(r, "start", j)
    BY <2>1, <2>2, <2>3, <2>5, RowGoesOn DEF RowPCs
  <2> QED BY <1>2, <2>4, <2>5 DEF CheckBusy
<1>3. CASE WriteStarted(r)
  <2> DEFINE row == progress[j.team][j.station]
             new == [status |-> "IN_PROGRESS", pts |-> row.pts, started |-> TRUE,
                     id |-> IF row.status = "none" THEN epoch ELSE row.id]
  <2>1. pc[r] \in RowPCs \ {"read"} /\ pc[r] = "start" /\ UNCHANGED <<claims, tally>>
    BY <1>3 DEF WriteStarted, Save, RowPCs
  <2>2. PICK t \in Teams : /\ t = job[r].team /\ j \in Job /\ TypeOK
                           /\ (t \notin disturbed => Exact(t) /\ Phase(r, t))
    BY <2>1, OnRow
  <2>3. t \notin disturbed => progress[t][j.station].status # "DONE"
    BY <2>1, <2>2 DEF Phase
  <2>4. CASE UNCHANGED progress /\ Finish(r)
    BY <2>1, <2>4, EndsQuietly DEF accounts
  <2>5. CASE progress' = [progress EXCEPT ![j.team][j.station] = new] /\ Finish(r)
    <3>1. j.station \in Stations
      BY <2>2 DEF Job
    <3>2. new.status # "DONE"
      OBVIOUS
    <3> HIDE DEF new
    <3>3. /\ Apart(r) /\ progress'[job[r].team][job[r].station] = new
          /\ \A s \in Stations \ {job[r].station} :
               progress'[job[r].team][s] = progress[job[r].team][s]
      BY <2>1, <2>2, <2>5, <3>1, RowApart
    <3>4. PICK s \in Stations : s = j.station
      BY <3>1
    <3>5. t \notin disturbed => Exact(t)'
      <4>1. /\ progress'[t][s].status # "DONE"
            /\ \A x \in Stations \ {s} : progress'[t][x] = progress[t][x]
        BY <2>2, <3>2, <3>3, <3>4
      <4> QED BY <2>1, <2>2, <2>3, <3>4, <4>1, OpenRow
    <3>6. pc[r] # "idle" /\ j.op \notin BulkOps
      BY <2>1 DEF RowPCs, IInv, Coherent
    <3> QED BY <2>2, <2>5, <3>3, <3>5, <3>6, FinishLocal
  <2> QED BY <1>3, <2>4, <2>5 DEF WriteStarted, Save
<1>4. CASE ReadComplete(r)
  <2>1. pc[r] \in RowPCs /\ UNCHANGED accounts
    BY <1>4 DEF ReadComplete, At, RowPCs, store, accounts
  <2>2. PICK t \in Teams :
          /\ t = job[r].team /\ Seen(r) \in Job /\ Seen(r).seen = progress[t][job[r].station]
          /\ Seen(r).op = job[r].op /\ Seen(r).team = t /\ Seen(r).station = job[r].station
    BY <2>1, OnRow
  <2>3. CASE Finish(r)
    BY <2>1, <2>3, EndsQuietly
  <2>4. CASE Judge(r, Seen(r))
    <3>1. PICK k \in Job : k = Seen(r)
      BY <2>2
    <3> QED BY <2>1, <2>2, <2>4, <3>1, JudgeLocal
  <2> QED BY <1>4, <2>3, <2>4 DEF ReadComplete
<1>5. CASE CheckBonus(r)
  <2>1. pc[r] \in RowPCs \ {"read"} /\ UNCHANGED accounts
    BY <1>5 DEF CheckBonus, RowPCs, store, accounts
  <2>2. PICK t \in Teams : /\ t = job[r].team /\ j \in Job /\ (t \notin disturbed => Phase(r, t))
    BY <2>1, OnRow
  <2>3. t \notin disturbed => j.seen = progress[t][j.station]
    BY <2>1, <2>2 DEF Phase
  <2>4. PICK n : Go(r, "finalize", [j EXCEPT !.award = n])
    BY <1>5 DEF CheckBonus
  <2> DEFINE k == [j EXCEPT !.award = n]
  <2>5. k.op = j.op /\ k.team = t /\ k.seen = j.seen /\ k.station = j.station
    BY <2>2 DEF Job
  <2> HIDE DEF k
  <2>6. Go(r, "finalize", k)
    BY <2>4 DEF k
  <2> QED BY <2>1, <2>2, <2>3, <2>5, <2>6, RowGoesOn DEF RowPCs
<1>6. CASE Finalize(r)
  BY <1>6, SaveLocal DEF Finalize, RowPCs
<1>7. CASE ReadFail(r)
  <2>1. pc[r] \in RowPCs /\ UNCHANGED accounts
    BY <1>7 DEF ReadFail, At, RowPCs, store, accounts
  <2>2. PICK t \in Teams :
          /\ t = job[r].team /\ Seen(r).seen = progress[t][job[r].station]
          /\ Seen(r).op = job[r].op /\ Seen(r).team = t /\ Seen(r).station = job[r].station
    BY <2>1, OnRow
  <2>3. CASE Finish(r)
    BY <2>1, <2>3, EndsQuietly
  <2>4. CASE Go(r, "fail", Seen(r))
    BY <2>1, <2>2, <2>4, RowGoesOn DEF RowPCs
  <2> QED BY <1>7, <2>3, <2>4 DEF ReadFail
<1>8. CASE MarkFailed(r)
  BY <1>8, SaveLocal DEF MarkFailed, RowPCs
<1>9. CASE ReadContext(r)
  <2>1. pc[r] \in RowPCs /\ UNCHANGED accounts
    BY <1>9 DEF ReadContext, RowPCs, store, accounts
  <2>2. PICK t \in Teams :
          /\ t = job[r].team /\ Seen(r).seen = progress[t][job[r].station]
          /\ Seen(r).op = job[r].op /\ Seen(r).team = t /\ Seen(r).station = job[r].station
    BY <2>1, OnRow
  <2>3. PICK next \in {"fail", "write"} : Go(r, next, Seen(r))
    BY <1>9 DEF ReadContext
  <2>4. next \in RowPCs \ {"read"}
    BY DEF RowPCs
  <2> QED BY <2>1, <2>2, <2>3, <2>4, RowGoesOn
<1>10. CASE AdminComplete(r)
  BY <1>10, SaveLocal DEF AdminComplete, At, RowPCs
<1>11. CASE AdminReset(r)
  BY <1>11, SaveLocal DEF AdminReset, At, RowPCs
<1>12. CASE ClearScans(r) \/ LogOutcome(r)
  <2>1. pc[r] \in {"clear", "log"} /\ UNCHANGED accounts
    BY <1>12 DEF ClearScans, LogOutcome, accounts
  <2>2. pc[r] # "idle" /\ j.op \notin BulkOps
    BY <2>1 DEF IInv, Coherent
  <2>3. PICK t \in Teams : t = j.team
    BY <2>2, Busy
  <2>4. PICK next \in {"log", "tasks"} : Go(r, next, j)
    BY <1>12 DEF ClearScans, LogOutcome
  <2>5. pc'[r] = next /\ job'[r] = j
    BY <2>4, GoMoves DEF IInv
  <2>6. Phase(r, t)'
    BY <2>3, <2>5 DEF Phase, RowPCs, CodePCs, TotalPCs
  <2>7. Apart(r) /\ next \in RowPCs \cup CodePCs \cup TotalPCs \cup {"clear", "log"}
    BY <2>1, <2>3, Still DEF TotalPCs
  <2> QED BY <2>2, <2>3, <2>4, <2>6, <2>7, GoLocal
<1> QED BY <1>1, <1>2, <1>3, <1>4, <1>5, <1>6, <1>7, <1>8, <1>9, <1>10, <1>11, <1>12 DEF Task

LEMMA SubmissionLocal ==
  ASSUME IInv, NEW r \in Slots, Submission(r)
  PROVE Local(r)
<1> DEFINE j == job[r]
<1>1. CASE ReadPhoto(r) \/ ReadScan(r)
  <2>1. pc[r] \in RowPCs /\ UNCHANGED accounts
    BY <1>1 DEF ReadPhoto, ReadScan, At, RowPCs, store, accounts
  <2>2. PICK t \in Teams :
          /\ t = job[r].team /\ Seen(r).seen = progress[t][job[r].station]
          /\ Seen(r).op = job[r].op /\ Seen(r).team = t /\ Seen(r).station = job[r].station
    BY <2>1, OnRow
  <2>3. CASE Finish(r)
    BY <2>1, <2>3, EndsQuietly
  <2>4. ASSUME NEW next \in {"photo", "scan"}, ~Decided(Seen(r).seen), Go(r, next, Seen(r))
        PROVE Local(r)
    <3>1. next \in RowPCs \ {"read"}
      BY DEF RowPCs
    <3> QED BY <2>1, <2>2, <2>4, <3>1, RowGoesOn DEF Decided
  <2> QED BY <1>1, <2>3, <2>4 DEF ReadPhoto, ReadScan
<1>2. CASE SavePhoto(r) \/ SaveScan(r)
  <2>1. pc[r] \in RowPCs \ {"read"} /\ pc[r] \in {"photo", "scan"} /\ UNCHANGED accounts
    BY <1>2 DEF SavePhoto, SaveScan, RowPCs, accounts
  <2>2. PICK t \in Teams : t = job[r].team /\ (t \notin disturbed => Phase(r, t))
    BY <2>1, OnRow
  <2>3. t \notin disturbed => /\ j.seen = progress[t][j.station]
                             /\ progress[t][j.station].status # "DONE"
    BY <2>1, <2>2 DEF Phase
  <2>4. Go(r, "upsert", j)
    BY <1>2 DEF SavePhoto, SaveScan
  <2> QED BY <2>1, <2>2, <2>3, <2>4, RowGoesOn DEF RowPCs
<1>3. CASE UpsertRow(r)
  <2> DEFINE row == Upserted(progress[j.team][j.station])
             k == [j EXCEPT !.seen = row]
  <2>1. /\ pc[r] \in RowPCs \ {"read"} /\ pc[r] = "upsert" /\ UNCHANGED <<claims, tally>>
        /\ progress' = [progress EXCEPT ![j.team][j.station] = row]
        /\ Finish(r) \/ Go(r, "count", k)
    BY <1>3 DEF UpsertRow, RowPCs
  <2>2. PICK t \in Teams : /\ t = job[r].team /\ j \in Job /\ TypeOK
                           /\ (t \notin disturbed => Exact(t) /\ Phase(r, t))
    BY <2>1, OnRow
  <2>3. t \notin disturbed => progress[t][j.station].status # "DONE"
    BY <2>1, <2>2 DEF Phase
  <2>4. pc[r] # "idle" /\ j.op \notin BulkOps
    BY <2>1 DEF RowPCs, IInv, Coherent
  <2>5. PICK s \in Stations : s = j.station
    BY <2>2 DEF Job
  <2>6. row.status # "DONE"
    BY <2>2, <2>5 DEF Upserted, TypeOK, Row
  <2>7. k.op = j.op /\ k.team = t /\ k.station = s /\ k.seen = row
    BY <2>2, <2>5 DEF Job
  <2> HIDE DEF row, k
  <2>8. /\ Apart(r) /\ progress'[job[r].team][job[r].station] = row
        /\ \A x \in Stations \ {job[r].station} :
             progress'[job[r].team][x] = progress[job[r].team][x]
    BY <2>1, <2>2, <2>5, RowApart
  <2>9. /\ progress'[t][s] = row
        /\ \A x \in Stations \ {s} : progress'[t][x] = progress[t][x]
    BY <2>2, <2>5, <2>8
  <2>10. t \notin disturbed => Exact(t)'
    BY <2>1, <2>2, <2>3, <2>5, <2>6, <2>9, OpenRow
  <2>11. CASE Finish(r)
    BY <2>2, <2>4, <2>8, <2>10, <2>11, FinishLocal
  <2>12. CASE Go(r, "count", k)
    <3>1. pc'[r] = "count" /\ job'[r] = k
      BY <2>12, GoMoves DEF IInv
    <3>2. t \notin disturbed => Phase(r, t)'
      BY <2>7, <2>9, <2>10, <3>1 DEF Phase, RowPCs, CodePCs, TotalPCs
    <3> QED BY <2>2, <2>4, <2>7, <2>8, <2>12, <3>2, GoLocal DEF RowPCs
  <2> QED BY <2>1, <2>11, <2>12
<1>4. CASE CountScans(r)
  <2>1. pc[r] \in RowPCs \ {"read"} /\ UNCHANGED accounts
    BY <1>4 DEF CountScans, RowPCs, store, accounts
  <2>2. PICK t \in Teams : t = job[r].team /\ j \in Job /\ (t \notin disturbed => Phase(r, t))
    BY <2>1, OnRow
  <2>3. t \notin disturbed => j.seen = progress[t][j.station]
    BY <2>1, <2>2 DEF Phase
  <2>4. CASE Finish(r)
    BY <2>1, <2>4, EndsQuietly
  <2>5. CASE Judge(r, j)
    BY <2>1, <2>2, <2>3, <2>5, JudgeLocal
  <2> QED BY <1>4, <2>4, <2>5 DEF CountScans
<1> QED BY <1>1, <1>2, <1>3, <1>4 DEF Submission

\* A handler that works on a code and goes on without touching any account.
LEMMA CodeGoesOn ==
  ASSUME IInv, NEW r \in Slots, pc[r] \in CodePCs, NEW next \in CodePCs,
         Go(r, next, job[r]), UNCHANGED accounts
  PROVE Local(r)
<1>1. pc[r] # "idle" /\ job[r].op \notin BulkOps
  BY DEF CodePCs, IInv, Coherent
<1>2. PICK t \in Teams : t = job[r].team /\ (t \notin disturbed => Phase(r, t))
  BY <1>1, Busy
<1>3. t \notin disturbed => Exact(t)
  BY <1>2 DEF Phase
<1>4. Apart(r) /\ (Exact(t)' <=> Exact(t))
  BY Still
<1>5. pc'[r] = next /\ job'[r] = job[r]
  BY GoMoves DEF IInv
<1>6. t \notin disturbed => Phase(r, t)'
  BY <1>3, <1>4, <1>5 DEF Phase, RowPCs, CodePCs, TotalPCs
<1> QED BY <1>1, <1>2, <1>4, <1>6, GoLocal

LEMMA ClaimLocal ==
  ASSUME IInv, NEW r \in Slots, Claim(r)
  PROVE Local(r)
<1> DEFINE j == job[r]
<1>1. CASE FindCode(r) \/ CheckFirstTeam(r)
  <2>1. pc[r] \in CodePCs /\ UNCHANGED accounts
    BY <1>1 DEF FindCode, CheckFirstTeam, CodePCs, store, accounts
  <2>2. CASE Finish(r)
    BY <2>1, <2>2, EndsQuietly
  <2>3. ASSUME NEW next \in {"first", "claim"}, Go(r, next, j) PROVE Local(r)
    BY <2>1, <2>3, CodeGoesOn DEF CodePCs
  <2> QED BY <1>1, <2>2, <2>3 DEF FindCode, CheckFirstTeam
<1>2. CASE CreateClaim(r)
  <2>1. pc[r] \in CodePCs /\ UNCHANGED <<progress, tally>>
    BY <1>2 DEF CreateClaim, CodePCs
  <2>2. CASE UNCHANGED claims /\ Finish(r)
    BY <2>1, <2>2, EndsQuietly DEF accounts
  <2>3. CASE claims' = [claims EXCEPT ![j.team] = @ \cup {j.code}] /\ Go(r, "tasks", j)
    <3>1. pc[r] # "idle" /\ j.op \notin BulkOps
      BY <2>1 DEF CodePCs, IInv, Coherent
    <3>2. PICK t \in Teams : t = j.team
      BY <3>1, Busy
    <3>3. Apart(r)
      BY <2>1, <2>3 DEF Apart, IInv, TypeOK
    <3>4. pc'[r] = "tasks" /\ job'[r] = j
      BY <2>3, GoMoves DEF IInv
    <3>5. Phase(r, t)'
      BY <3>2, <3>4 DEF Phase, RowPCs, CodePCs, TotalPCs
    <3> QED BY <2>3, <3>1, <3>2, <3>3, <3>5, GoLocal DEF TotalPCs
  <2> QED BY <1>2, <2>2, <2>3 DEF CreateClaim
<1> QED BY <1>1, <1>2 DEF Claim

-----------------------------------------------------------------------------
(* Recalculation, for one team or for one team after the other.            *)

\* A step of a handler that works for all teams is global.
LEMMA GoGlobal ==
  ASSUME IInv, NEW r \in Slots, pc[r] # "idle", job[r].op \in BulkOps,
         NEW next \in TotalPCs \cup {"resetAll", "clearAll", "zero", "reopen", "logAll"}, NEW j,
         Go(r, next, j), j.op = job[r].op,
         next \in TotalPCs \cup {"resetAll", "clearAll"} => job[r].op = "resetTasks",
         next \in {"zero", "reopen"} => job[r].op = "resetGame",
         \A t \in Teams : t \notin disturbed => Phase(r, t)'
  PROVE Global(r)
<1>1. /\ pc'[r] = next /\ job'[r] = j /\ disturbed' = disturbed /\ next # "idle"
      /\ \A q \in Slots \ {r} : pc'[q] = pc[q] /\ job'[q] = job[q]
  BY GoMoves DEF IInv, TotalPCs
<1>2. Coherent(r)'
  BY <1>1 DEF Coherent, RowPCs, CodePCs, TotalPCs, BulkOps
<1> QED BY <1>1, <1>2 DEF Global, OneMoves, Leaves

LEMMA FinishGlobal ==
  ASSUME IInv, NEW r \in Slots, pc[r] # "idle", job[r].op \in BulkOps,
         Finish(r), \A t \in Teams : t \notin disturbed => Exact(t)'
  PROVE Global(r)
<1>1. /\ pc'[r] = "idle" /\ disturbed' = disturbed
      /\ \A q \in Slots \ {r} : pc'[q] = pc[q] /\ job'[q] = job[q]
  BY GoMoves DEF IInv, Finish
<1>2. Coherent(r)'
  BY <1>1 DEF Coherent, RowPCs, CodePCs, TotalPCs
<1> QED BY <1>1, <1>2 DEF Global, OneMoves, Leaves

\* The total is gathered in two reads.
LEMMA Gathers ==
  ASSUME IInv, NEW r \in Slots, ReadTasks(r) \/ ReadClaims(r)
  PROVE Local(r) \/ Global(r)
<1> DEFINE j == job[r]
<1>1. /\ pc[r] \in {"tasks", "claims"} /\ pc[r] \in TotalPCs /\ pc[r] # "idle"
      /\ UNCHANGED accounts /\ j.op # "resetGame"
  BY DEF ReadTasks, ReadClaims, TotalPCs, store, accounts, IInv, Coherent
<1>2. PICK u \in Teams : u = j.team /\ j \in Job /\ TypeOK
  BY <1>1, Busy, SeenType
<1>3. PICK next, k :
        /\ next \in {"claims", "total"}
        /\ Go(r, next, k) /\ k.op = j.op /\ k.team = u /\ k.left = j.left
        /\ next = "claims" => k.sum.awards = Counted(progress[u])
        /\ next = "total" => pc[r] = "claims" /\ k.sum = [j.sum EXCEPT !.codes = claims[u]]
  <2>1. CASE ReadTasks(r)
    <3> DEFINE k == [j EXCEPT !.sum.awards = Counted(progress[u])]
    <3>1. k.op = j.op /\ k.team = u /\ k.left = j.left /\ k.sum.awards = Counted(progress[u])
      BY <1>2 DEF Job, Tally
    <3>2. Go(r, "claims", k)
      BY <1>2, <2>1 DEF ReadTasks
    <3> HIDE DEF k
    <3> QED BY <3>1, <3>2
  <2>2. CASE ReadClaims(r)
    <3> DEFINE k == [j EXCEPT !.sum.codes = claims[u]]
    <3>1. /\ k.op = j.op /\ k.team = u /\ k.left = j.left
          /\ k.sum = [j.sum EXCEPT !.codes = claims[u]]
      BY <1>2 DEF Job, Tally
    <3>2. Go(r, "total", k) /\ pc[r] = "claims"
      BY <1>2, <2>2 DEF ReadClaims
    <3> HIDE DEF k
    <3> QED BY <3>1, <3>2
  <2> QED BY <2>1, <2>2
<1>4. pc'[r] = next /\ job'[r] = k
  BY <1>3, GoMoves DEF IInv
<1>5. ASSUME NEW t \in Teams, t \notin disturbed, Phase(r, t) PROVE Phase(r, t)'
  <2>1. progress'[t] = progress[t] /\ Earned(t)' = Earned(t) /\ (Exact(t)' <=> Exact(t))
    BY <1>1, Still
  <2>2. Counted(progress[t])' = Counted(progress[t])
    BY <2>1 DEF Counted
  <2>3. t = u /\ next = "claims" => k.sum.awards = Counted(progress[t])
    BY <1>3
  <2>4. t = u /\ next = "total" => k.sum = Earned(t)
    <3>1. SUFFICES ASSUME t = u, next = "total" PROVE k.sum = Earned(t)
      OBVIOUS
    <3>2. j.sum.awards = Counted(progress[t]) /\ j.sum \in Tally
      BY <1>2, <1>3, <1>5, <3>1 DEF Phase, Job
    <3> QED BY <1>3, <3>1, <3>2 DEF Earned, Tally
  <2>5. t \notin k.left /\ t # k.team => Exact(t)
    BY <1>1, <1>2, <1>3, <1>5 DEF Phase
  <2> QED BY <1>3, <1>4, <2>1, <2>2, <2>3, <2>4, <2>5 DEF Phase, RowPCs, CodePCs, TotalPCs
<1>6. next \in TotalPCs
  BY <1>3 DEF TotalPCs
<1>7. CASE j.op \notin BulkOps
  <2>1. u \notin disturbed => Phase(r, u)'
    BY <1>1, <1>2, <1>5, Busy
  <2>2. Apart(r)
    BY <1>1, <1>2, Still
  <2> QED BY <1>1, <1>2, <1>3, <1>6, <1>7, <2>1, <2>2, GoLocal
<1>8. CASE j.op \in BulkOps
  <2>1. \A t \in Teams : t \notin disturbed => Phase(r, t)'
    BY <1>1, <1>5, <1>8, Busy
  <2>2. j.op = "resetTasks"
    BY <1>1, <1>8 DEF BulkOps
  <2>3. next \notin {"zero", "reopen"}
    BY <1>3
  <2> QED BY <1>1, <1>3, <1>6, <1>8, <2>1, <2>2, <2>3, GoGlobal
<1> QED BY <1>7, <1>8

\* The bulk reset moves on to a team that is left, or to its log entry.
LEMMA NextGlobal ==
  ASSUME IInv, NEW r \in Slots, pc[r] # "idle", job[r].op = "resetTasks",
         NEW j \in Job, j.op = "resetTasks", NextTeam(r, j),
         \A t \in Teams : t \notin disturbed /\ t \notin j.left => Exact(t)'
  PROVE Global(r)
<1>1. CASE j.left = {} /\ Go(r, "logAll", j)
  <2>1. pc'[r] = "logAll" /\ job'[r] = j
    BY <1>1, GoMoves DEF IInv
  <2>2. ASSUME NEW t \in Teams, t \notin disturbed PROVE Phase(r, t)'
    <3>1. Exact(t)'
      BY <1>1, <2>2
    <3> QED BY <2>1, <3>1 DEF Phase, RowPCs, CodePCs, TotalPCs
  <2> QED BY <1>1, <2>2, GoGlobal DEF BulkOps
<1>2. ASSUME NEW u \in j.left,
             Go(r, "tasks", [j EXCEPT !.team = u, !.left = @ \ {u}, !.sum = NoTally])
      PROVE Global(r)
  <2> DEFINE k == [j EXCEPT !.team = u, !.left = @ \ {u}, !.sum = NoTally]
  <2>1. k.op = j.op /\ k.team = u /\ k.left = j.left \ {u}
    BY DEF Job
  <2> HIDE DEF k
  <2>2. Go(r, "tasks", k)
    BY <1>2 DEF k
  <2>3. pc'[r] = "tasks" /\ job'[r] = k
    BY <2>2, GoMoves DEF IInv
  <2>4. ASSUME NEW t \in Teams, t \notin disturbed PROVE Phase(r, t)'
    <3>1. t \notin k.left /\ t # k.team => Exact(t)'
      BY <2>1, <2>4
    <3> QED BY <2>3, <3>1 DEF Phase, RowPCs, CodePCs, TotalPCs
  <2> QED BY <2>1, <2>2, <2>4, GoGlobal DEF BulkOps, TotalPCs
<1> QED BY <1>1, <1>2 DEF NextTeam

\* The total that is written is what the team has earned.
LEMMA Totals ==
  ASSUME IInv, NEW r \in Slots, WriteTotal(r)
  PROVE Local(r) \/ Global(r)
<1> DEFINE j == job[r]
<1>1. /\ pc[r] = "total" /\ pc[r] \in TotalPCs /\ j.op # "resetGame"
      /\ tally' = [tally EXCEPT ![j.team] = j.sum] /\ UNCHANGED <<progress, claims>>
  BY DEF WriteTotal, TotalPCs, IInv, Coherent
<1>2. PICK u \in Teams : u = j.team /\ j \in Job /\ TypeOK
  BY <1>1, Busy, SeenType
<1>3. \A t \in Teams : Earned(t)' = Earned(t)
  BY <1>1 DEF Earned, Counted
<1>4. tally'[u] = j.sum /\ \A t \in Teams \ {u} : tally'[t] = tally[t]
  BY <1>1, <1>2 DEF TypeOK
<1>5. Phase(r, u) => Exact(u)'
  BY <1>1, <1>2, <1>3, <1>4 DEF Phase, Exact
<1>6. CASE j.op \notin BulkOps
  <2>1. Finish(r)
    BY <1>6 DEF WriteTotal, BulkOps
  <2>2. Apart(r)
    BY <1>1, <1>2, <1>4 DEF Apart
  <2>3. u \notin disturbed => Exact(u)'
    BY <1>1, <1>2, <1>5, Busy
  <2> QED BY <1>1, <1>2, <1>6, <2>1, <2>2, <2>3, FinishLocal
<1>7. CASE j.op \in BulkOps
  <2>1. j.op = "resetTasks" /\ NextTeam(r, j)
    BY <1>1, <1>7 DEF BulkOps, WriteTotal
  <2>2. ASSUME NEW t \in Teams, t \notin disturbed, t \notin j.left PROVE Exact(t)'
    <3>1. Phase(r, t)
      BY <1>1, <1>7, <2>2, Busy
    <3>2. CASE t = u
      BY <1>5, <3>1, <3>2
    <3>3. CASE t # u
      <4>1. Exact(t)
        BY <1>1, <1>2, <2>2, <3>1, <3>3 DEF Phase
      <4> QED BY <1>3, <1>4, <3>3, <4>1 DEF Exact
    <3> QED BY <3>2, <3>3
  <2> QED BY <1>1, <1>2, <2>1, <2>2, NextGlobal
<1> QED BY <1>6, <1>7

-----------------------------------------------------------------------------
(* Handlers that work for all teams.                                       *)

LEMMA ResetGlobal ==
  ASSUME IInv, NEW r \in Slots, Reset(r)
  PROVE Global(r)
<1> DEFINE j == job[r]
<1>0. /\ TypeOK /\ pc[r] # "idle" /\ j \in Job /\ j.op \in BulkOps
      /\ \A t \in Teams : t \notin disturbed => Phase(r, t)
  <2>1. pc[r] \in {"find", "resetAll", "clearAll", "wipe", "zero", "reopen", "logAll"}
    BY DEF Reset, FindResettable, ResetRows, ClearFoundScans, Wipe, ZeroTotals, Reopen, LogReset
  <2>2. j.op \in BulkOps
    BY <2>1 DEF IInv, Coherent, BulkOps
  <2> QED BY <2>1, <2>2, Busy, SeenType
<1>1. CASE FindResettable(r)
  <2>1. pc[r] = "find" /\ UNCHANGED accounts /\ j.op = "resetTasks"
    BY <1>1 DEF FindResettable, store, accounts, IInv, Coherent
  <2>2. ASSUME NEW t \in Teams, t \notin disturbed PROVE Exact(t)'
    <3>1. Exact(t)
      BY <1>0, <2>1, <2>2 DEF Phase
    <3> QED BY <2>1, <3>1, Still
  <2>3. CASE Finish(r)
    BY <1>0, <2>2, <2>3, FinishGlobal
  <2>4. CASE Go(r, "resetAll", [j EXCEPT !.found = Resettable])
    <3> DEFINE k == [j EXCEPT !.found = Resettable]
    <3>1. k.op = j.op /\ k.found = Resettable
      BY <1>0 DEF Job
    <3> HIDE DEF k
    <3>2. Go(r, "resetAll", k)
      BY <2>4 DEF k
    <3>3. pc'[r] = "resetAll" /\ job'[r] = k
      BY <3>2, GoMoves DEF IInv
    <3>4. ASSUME NEW t \in Teams, t \notin disturbed PROVE Phase(r, t)'
      <4>1. \A s \in Stations : progress'[t][s].status = "DONE" => <<t, s>> \in k.found
        BY <2>1, <3>1 DEF Resettable, accounts
      <4> QED BY <2>2, <3>3, <3>4, <4>1 DEF Phase, RowPCs, CodePCs, TotalPCs
    <3> QED BY <1>0, <2>1, <3>1, <3>2, <3>4, GoGlobal
  <2> QED BY <1>1, <2>3, <2>4 DEF FindResettable
<1>2. CASE ResetRows(r)
  <2>1. pc[r] = "resetAll" /\ UNCHANGED <<claims, tally>> /\ j.op = "resetTasks" /\ Go(r, "clearAll", j)
    BY <1>2 DEF ResetRows, IInv, Coherent
  <2>2. pc'[r] = "clearAll" /\ job'[r] = j
    BY <2>1, GoMoves DEF IInv
  <2>3. ASSUME NEW t \in Teams, t \notin disturbed PROVE Phase(r, t)'
    <3>1. Exact(t) /\ \A s \in Stations : progress[t][s].status = "DONE" => <<t, s>> \in j.found
      BY <1>0, <2>1, <2>3 DEF Phase
    <3>2. ASSUME \A s \in Stations : <<t, s>> \notin j.found PROVE Exact(t)'
      <4>1. \A s \in Stations : /\ progress[t][s].status # "DONE"
                                /\ progress'[t][s].status # "DONE"
        <5>1. ASSUME NEW s \in Stations PROVE progress[t][s].status # "DONE"
          BY <3>1, <3>2
        <5>2. ASSUME NEW s \in Stations PROVE progress'[t][s].status # "DONE"
          <6>1. progress[t][s] \in Row
            BY <1>0 DEF TypeOK
          <6>2. progress'[t][s] =
                  IF progress[t][s].status \in {"DONE", "IN_PROGRESS"}
                  THEN [progress[t][s] EXCEPT !.status = "TODO", !.pts = 0, !.started = FALSE]
                  ELSE progress[t][s]
            BY <1>2 DEF ResetRows
          <6> QED BY <6>1, <6>2 DEF Row
        <5> QED BY <5>1, <5>2
      <4>2. Counted(progress[t])' = Counted(progress[t])
        BY <4>1 DEF Counted
      <4> QED BY <2>1, <3>1, <4>2 DEF Exact, Earned
    <3> QED BY <2>2, <3>2 DEF Phase, RowPCs, CodePCs, TotalPCs
  <2> QED BY <1>0, <2>1, <2>3, GoGlobal
<1>3. CASE ClearFoundScans(r)
  <2> DEFINE k == [j EXCEPT !.left = {p[1] : p \in j.found}]
  <2>1. pc[r] = "clearAll" /\ UNCHANGED accounts /\ j.op = "resetTasks" /\ NextTeam(r, k)
    BY <1>3 DEF ClearFoundScans, accounts, IInv, Coherent
  <2>2. {p[1] : p \in j.found} \in SUBSET Teams
    BY <1>0 DEF Job
  <2>3. k \in Job /\ k.op = j.op /\ k.left = {p[1] : p \in j.found}
    BY <1>0, <2>2 DEF Job
  <2>4. ASSUME NEW t \in Teams, t \notin disturbed, t \notin k.left PROVE Exact(t)'
    <3>1. \A s \in Stations : <<t, s>> \notin j.found
      BY <2>3, <2>4
    <3>2. Exact(t)
      BY <1>0, <2>1, <2>4, <3>1 DEF Phase
    <3> QED BY <2>1, <3>2, Still
  <2> HIDE DEF k
  <2>5. /\ NextTeam(r, k) /\ k \in Job /\ k.op = "resetTasks"
        /\ pc[r] # "idle" /\ job[r].op = "resetTasks"
    BY <1>0, <2>1, <2>3
  <2> QED BY <2>4, <2>5, NextGlobal
<1>4. CASE Wipe(r)
  <2>1. pc[r] = "wipe" /\ UNCHANGED <<claims, tally>> /\ j.op = "resetGame" /\ Go(r, "zero", j)
    BY <1>4 DEF Wipe, IInv, Coherent
  <2>2. pc'[r] = "zero" /\ job'[r] = j
    BY <2>1, GoMoves DEF IInv
  <2>3. ASSUME NEW t \in Teams, t \notin disturbed PROVE Phase(r, t)'
    <3>1. Counted(progress[t])' = NothingCounted'
      BY <1>4 DEF Wipe, Counted, NothingCounted, NoRow
    <3> QED BY <2>2, <3>1 DEF Phase, RowPCs, CodePCs, TotalPCs
  <2> QED BY <1>0, <2>1, <2>3, GoGlobal DEF TotalPCs
<1>5. CASE ZeroTotals(r)
  <2>1. /\ pc[r] = "zero" /\ UNCHANGED <<progress, claims, job>> /\ j.op = "resetGame"
        /\ pc' = [pc EXCEPT ![r] = "reopen"]
    BY <1>5 DEF ZeroTotals, IInv, Coherent
  <2>2. pc'[r] = "reopen" /\ job'[r] = j /\ \A q \in Slots \ {r} : pc'[q] = pc[q] /\ job'[q] = job[q]
    BY <1>0, <2>1 DEF TypeOK
  <2>3. ASSUME NEW t \in Teams, t \notin disturbed' PROVE Phase(r, t)'
    <3>1. t \notin disturbed /\ claims[t] = {} /\ tally'[t] = NoTally
      BY <1>5, <2>3 DEF ZeroTotals
    <3>2. Counted(progress[t]) = NothingCounted
      BY <1>0, <2>1, <3>1 DEF Phase
    <3>3. Earned(t)' = NoTally
      BY <2>1, <3>1, <3>2 DEF Earned, NoTally, Counted, NothingCounted
    <3>4. Exact(t)'
      BY <3>1, <3>3 DEF Exact
    <3> QED BY <2>2, <3>4 DEF Phase, RowPCs, CodePCs, TotalPCs
  <2>4. Coherent(r)'
    BY <2>1, <2>2 DEF Coherent, RowPCs, CodePCs, TotalPCs, BulkOps
  <2>5. disturbed \subseteq disturbed'
    BY <1>5 DEF ZeroTotals
  <2> QED BY <1>0, <2>2, <2>3, <2>4, <2>5 DEF Global, OneMoves, Leaves
<1>6. CASE Reopen(r)
  <2>1. pc[r] = "reopen" /\ UNCHANGED accounts /\ j.op = "resetGame" /\ Go(r, "logAll", j)
    BY <1>6 DEF Reopen, accounts, IInv, Coherent
  <2>2. pc'[r] = "logAll" /\ job'[r] = j
    BY <2>1, GoMoves DEF IInv
  <2>3. ASSUME NEW t \in Teams, t \notin disturbed PROVE Phase(r, t)'
    <3>1. Exact(t)
      BY <1>0, <2>1, <2>3 DEF Phase
    <3>2. Exact(t)'
      BY <2>1, <3>1, Still
    <3> QED BY <2>2, <3>2 DEF Phase, RowPCs, CodePCs, TotalPCs
  <2> QED BY <1>0, <2>1, <2>3, GoGlobal DEF TotalPCs
<1>7. CASE LogReset(r)
  <2>1. pc[r] = "logAll" /\ UNCHANGED accounts /\ Finish(r)
    BY <1>7 DEF LogReset, accounts
  <2>2. ASSUME NEW t \in Teams, t \notin disturbed PROVE Exact(t)'
    <3>1. Exact(t)
      BY <1>0, <2>1, <2>2 DEF Phase
    <3> QED BY <2>1, <3>1, Still
  <2> QED BY <1>0, <2>1, <2>2, FinishGlobal
<1> QED BY <1>1, <1>2, <1>3, <1>4, <1>5, <1>6, <1>7 DEF Reset

-----------------------------------------------------------------------------
(* Arrivals, steps outside any handler, and the theorem.                   *)

\* A request is accepted: the teams it is for, T, were idle or are disturbed now.
LEMMA AcceptStep ==
  ASSUME IInv, TypeOK', NEW r \in Slots, NEW first \in {"read", "code", "find", "wipe"},
         NEW j \in Job, NEW T \in SUBSET Teams, Accept(r, first, j, T),
         first \in {"read", "code"} => j.op \notin BulkOps /\ T = {j.team},
         first = "find" => j.op = "resetTasks" /\ T = Teams,
         first = "wipe" => j.op = "resetGame" /\ T = Teams
  PROVE IInv'
<1>1. /\ pc[r] = "idle" /\ pc'[r] = first /\ job'[r] = j /\ UNCHANGED accounts
      /\ \A q \in Slots \ {r} : pc'[q] = pc[q] /\ job'[q] = job[q]
      /\ disturbed' = disturbed \cup {t \in T : ~Idle(t)}
  BY DEF Accept, store, accounts, IInv, TypeOK
<1>2. Coherent(r)'
  BY <1>1 DEF Coherent, RowPCs, CodePCs, TotalPCs, BulkOps
<1>3. ASSUME NEW q \in Slots PROVE Coherent(q)'
  BY <1>1, <1>2, CoherentFrame DEF IInv
<1>4. ASSUME NEW t \in Teams, t \notin disturbed' PROVE Good(t)'
  <2>1. t \notin disturbed /\ Good(t)
    BY <1>1, <1>4 DEF IInv, Good
  <2>2. progress'[t] = progress[t] /\ claims'[t] = claims[t] /\ tally'[t] = tally[t]
    BY <1>1 DEF accounts
  <2>3. Exact(t)' <=> Exact(t)
    BY <1>1, Still
  <2>4. \A q \in Slots \ {r} : BusyOn(q, t)' <=> BusyOn(q, t)
    BY <1>1 DEF BusyOn
  <2>5. ASSUME NEW q \in Slots \ {r}, BusyOn(q, t) PROVE Phase(q, t)'
    BY <1>1, <2>1, <2>2, <2>5, PhaseFrame DEF Good
  <2>6. CASE t \in T
    <3>1. Idle(t) /\ Exact(t)
      BY <1>1, <1>4, <2>1, <2>6 DEF Good
    <3>2. \A q \in Slots \ {r} : ~BusyOn(q, t)'
      BY <2>4, <3>1 DEF Idle
    <3>3. Phase(r, t)'
      BY <1>1, <2>3, <3>1 DEF Phase, RowPCs, CodePCs, TotalPCs
    <3>4. BusyOn(r, t)'
      <4>1. first # "idle"
        OBVIOUS
      <4>2. j.op \in BulkOps \/ j.team = t
        BY <2>6 DEF BulkOps
      <4> QED BY <1>1, <4>1, <4>2 DEF BusyOn
    <3> QED BY <3>2, <3>3, <3>4 DEF Good, Idle
  <2>7. CASE t \notin T
    <3>1. j.op \notin BulkOps /\ j.team # t
      BY <2>7
    <3>2. ~BusyOn(r, t)' /\ ~BusyOn(r, t)
      BY <1>1, <3>1 DEF BusyOn
    <3> QED BY <2>1, <2>3, <2>4, <2>5, <3>2 DEF Good, Idle
  <2> QED BY <2>6, <2>7
<1> QED BY <1>3, <1>4 DEF IInv, Good

LEMMA ReceiveStep ==
  ASSUME IInv, TypeOK', NEW r \in Slots, Receive(r)
  PROVE IInv'
<1>1. ASSUME NEW op \in DeviceOps \cup AdminOps, NEW t \in Teams, NEW s \in Stations,
             ReceiveTask(r, op, t, s)
      PROVE IInv'
  <2> DEFINE j == [NoJob EXCEPT !.op = op, !.team = t, !.station = s]
  <2>1. j \in Job /\ j.op = op /\ j.team = t
    BY NoJobType DEF Job
  <2>2. op \notin BulkOps
    BY DEF DeviceOps, AdminOps, BulkOps
  <2>3. Accept(r, "read", j, {t})
    BY <1>1 DEF ReceiveTask
  <2> HIDE DEF j
  <2> QED BY <2>1, <2>2, <2>3, AcceptStep
<1>2. ASSUME NEW t \in Teams, NEW s \in Stations, NEW label \in Labels,
             ReceiveScan(r, t, s, label)
      PROVE IInv'
  <2> DEFINE j == [NoJob EXCEPT !.op = "scan", !.team = t, !.station = s, !.label = label]
  <2>1. j \in Job /\ j.op \notin BulkOps /\ j.team = t
    BY NoJobType DEF Job, DeviceOps, BulkOps
  <2>2. Accept(r, "read", j, {t})
    BY <1>2 DEF ReceiveScan
  <2> HIDE DEF j
  <2> QED BY <2>1, <2>2, AcceptStep
<1>3. ASSUME NEW t \in Teams, NEW c \in Codes, ReceiveCode(r, t, c)
      PROVE IInv'
  <2> DEFINE j == [NoJob EXCEPT !.op = "claim", !.team = t, !.code = c]
  <2>1. j \in Job /\ j.op \notin BulkOps /\ j.team = t
    BY NoJobType DEF Job, DeviceOps, BulkOps
  <2>2. Accept(r, "code", j, {t})
    BY <1>3 DEF ReceiveCode
  <2> HIDE DEF j
  <2> QED BY <2>1, <2>2, AcceptStep
<1>4. CASE ReceiveResetTasks(r)
  <2> DEFINE j == [NoJob EXCEPT !.op = "resetTasks"]
  <2>1. j \in Job /\ j.op = "resetTasks"
    BY NoJobType DEF Job, BulkOps
  <2>2. Accept(r, "find", j, Teams)
    BY <1>4 DEF ReceiveResetTasks
  <2> HIDE DEF j
  <2> QED BY <2>1, <2>2, AcceptStep
<1>5. CASE ReceiveResetGame(r)
  <2> DEFINE j == [NoJob EXCEPT !.op = "resetGame"]
  <2>1. j \in Job /\ j.op = "resetGame"
    BY NoJobType DEF Job, BulkOps
  <2>2. Accept(r, "wipe", j, Teams)
    BY <1>5 DEF ReceiveResetGame
  <2> HIDE DEF j
  <2> QED BY <2>1, <2>2, AcceptStep
<1> QED BY <1>1, <1>2, <1>3, <1>4, <1>5 DEF Receive

\* A step of no handler that leaves every undisturbed team alone.
LEMMA QuietStep ==
  ASSUME IInv, TypeOK', UNCHANGED <<pc, job>>, disturbed \subseteq disturbed',
         \A t \in Teams : t \notin disturbed' =>
           progress'[t] = progress[t] /\ claims'[t] = claims[t] /\ tally'[t] = tally[t]
  PROVE IInv'
<1>1. ASSUME NEW q \in Slots PROVE Coherent(q)'
  BY CoherentFrame DEF IInv
<1>2. ASSUME NEW t \in Teams, t \notin disturbed' PROVE Good(t)'
  <2>1. t \notin disturbed /\ Good(t)
    BY <1>2 DEF IInv, Good
  <2>2. progress'[t] = progress[t] /\ claims'[t] = claims[t] /\ tally'[t] = tally[t]
    BY <1>2
  <2>3. \A q \in Slots : BusyOn(q, t)' <=> BusyOn(q, t)
    BY DEF BusyOn
  <2>4. Exact(t)' <=> Exact(t)
    BY <2>2, Frame DEF Exact
  <2>5. ASSUME NEW q \in Slots, BusyOn(q, t) PROVE Phase(q, t)'
    BY <2>1, <2>2, <2>5, PhaseFrame DEF Good
  <2> QED BY <2>1, <2>3, <2>4, <2>5 DEF Good, Idle
<1> QED BY <1>1, <1>2 DEF IInv, Good

LEMMA CrashStep ==
  ASSUME IInv, TypeOK', Crash
  PROVE IInv'
<1>1. /\ \A q \in Slots : pc'[q] = "idle" /\ job'[q] = NoJob
      /\ disturbed' = disturbed \cup {t \in Teams : ~Idle(t)} /\ UNCHANGED accounts
  BY DEF Crash, store, accounts
<1>2. ASSUME NEW q \in Slots PROVE Coherent(q)'
  BY <1>1 DEF Coherent, RowPCs, CodePCs, TotalPCs
<1>3. ASSUME NEW t \in Teams, t \notin disturbed' PROVE Good(t)'
  <2>1. Exact(t)
    BY <1>1, <1>3 DEF IInv
  <2>2. progress'[t] = progress[t] /\ claims'[t] = claims[t] /\ tally'[t] = tally[t]
    BY <1>1 DEF accounts
  <2>3. Exact(t)'
    BY <2>1, <2>2, Frame DEF Exact
  <2>4. \A q \in Slots : ~BusyOn(q, t)'
    BY <1>1 DEF BusyOn
  <2> QED BY <2>3, <2>4 DEF Good, Idle
<1> QED BY <1>2, <1>3 DEF IInv, Good

LEMMA InitIInv == Init => IInv
<1> SUFFICES ASSUME Init PROVE IInv
  OBVIOUS
<1>1. TypeOK
  BY InitType
<1>2. \A r \in Slots : pc[r] = "idle"
  BY DEF Init
<1>3. \A r \in Slots : Coherent(r)
  BY <1>2 DEF Coherent, RowPCs, CodePCs, TotalPCs
<1>4. ASSUME NEW t \in Teams PROVE Exact(t)
  <2>1. Earned(t) = NoTally
    BY DEF Init, Earned, NoTally, Counted, NothingCounted, NoRow
  <2> QED BY <2>1 DEF Init, Exact
<1>5. \A r \in Slots, t \in Teams : ~BusyOn(r, t)
  BY <1>2 DEF BusyOn
<1> QED BY <1>1, <1>3, <1>4, <1>5 DEF IInv

LEMMA IInvStep == IInv /\ [Next]_vars => IInv'
<1> SUFFICES ASSUME IInv, [Next]_vars PROVE IInv'
  OBVIOUS
<1>1. TypeOK'
  BY TypeStep DEF IInv
<1>2. ASSUME NEW r \in Slots, Receive(r) PROVE IInv'
  BY <1>1, <1>2, ReceiveStep
<1>3. ASSUME NEW r \in Slots, Serve(r) PROVE IInv'
  <2>1. Local(r) \/ Global(r)
    BY <1>3, TaskLocal, SubmissionLocal, ClaimLocal, Gathers, Totals, ResetGlobal
       DEF Serve, Recalculate
  <2> QED BY <1>1, <2>1, LocalStep, GlobalStep
<1>4. CASE FinishGame
  BY <1>1, <1>4, QuietStep DEF FinishGame
<1>5. ASSUME NEW c \in Codes, DeleteCode(c) PROVE IInv'
  <2>1. ASSUME NEW t \in Teams, t \notin disturbed' PROVE claims'[t] = claims[t]
    <3>1. claims'[t] = claims[t] \ {c} /\ c \notin claims[t]
      BY <1>5, <2>1 DEF DeleteCode
    <3> QED BY <3>1
  <2> QED BY <1>1, <1>5, <2>1, QuietStep DEF DeleteCode
<1>6. CASE Crash
  BY <1>1, <1>6, CrashStep
<1>7. CASE UNCHANGED vars
  BY <1>1, <1>7, QuietStep DEF vars, store
<1> QED BY <1>2, <1>3, <1>4, <1>5, <1>6, <1>7 DEF Next, Rest

LEMMA IInvTotals == IInv => TotalsExplained
BY DEF IInv, TotalsExplained, Undisturbed, Exact

\* Whatever the handlers of other teams do in between, the stored total of a team
\* counts exactly its done rows and its claims, unless two handlers of this very
\* team overlapped, one of them was cut off, or a code with claims was deleted.
THEOREM TotalsCorrect == Spec => []TotalsExplained
BY InitIInv, IInvStep, IInvTotals, PTL DEF Spec

-----------------------------------------------------------------------------
(* Nothing stuck. Rows become IN_PROGRESS in two ways only: a start, never *)
(* at a photo station, starts the timer; a submission has saved its photo  *)
(* or its scan before the row. This needs no handler to be alone.          *)

\* Where a handler of a device may be, and what it has done before.
Prepared(r) ==
  LET j == job[r]
  IN /\ j.op = "start" => j.station \notin PhotoStations
     /\ j.op = "photo" => j.station \in PhotoStations
     /\ j.op = "scan" => j.station \in QrStations
     /\ pc[r] \in {"busy", "start"} => j.op = "start"
     /\ pc[r] = "photo" => j.op = "photo"
     /\ pc[r] = "scan" => j.op = "scan"
     /\ pc[r] = "upsert" => j.op \in {"photo", "scan"}
     /\ pc[r] = "upsert" /\ j.op = "photo" => j.station \in photos[j.team]

\* A row in progress is waited for by somebody: its photo is there, or its timer runs.
Awaited(t, s) ==
  progress[t][s].status = "IN_PROGRESS" =>
    /\ s \in PhotoStations => s \in photos[t]
    /\ s \notin PhotoStations \cup QrStations => progress[t][s].started

StuckInv ==
  /\ TypeOK
  /\ \A r \in Slots : Prepared(r)
  /\ \A t \in Teams, s \in Stations : Awaited(t, s)

LEMMA StuckInvImplies == StuckInv => NothingStuck
BY ConstantsAssumption
   DEF StuckInv, Awaited, NothingStuck, PhotosReviewable, TimersRun, TypeOK

LEMMA StuckInit == Init => StuckInv
<1> SUFFICES ASSUME Init PROVE StuckInv
  OBVIOUS
<1>1. \A r \in Slots : pc[r] = "idle" /\ job[r].op = "none"
  BY DEF Init, NoJob
<1>2. \A r \in Slots : Prepared(r)
  BY <1>1 DEF Prepared
<1>3. \A t \in Teams, s \in Stations : Awaited(t, s)
  BY DEF Init, Awaited, NoRow
<1> QED BY <1>2, <1>3, InitType DEF StuckInv

\* The photos a handler relies on stay.
LEMMA PreparedFrame ==
  ASSUME NEW q \in Slots, Prepared(q), pc'[q] = pc[q], job'[q] = job[q],
         \A t \in Teams : photos[t] \subseteq photos'[t], job[q].team \in Teams
  PROVE Prepared(q)'
BY DEF Prepared

\* A step that moves only the handler in slot r, and writes its row at most.
LEMMA StuckStep ==
  ASSUME StuckInv, TypeOK', NEW r \in Slots,
         \A q \in Slots \ {r} : pc'[q] = pc[q] /\ job'[q] = job[q],
         \A t \in Teams : photos[t] \subseteq photos'[t],
         Prepared(r)',
         \A t \in Teams, s \in Stations : progress'[t][s] = progress[t][s] \/ Awaited(t, s)'
  PROVE StuckInv'
<1>1. \A q \in Slots : job[q].team \in Teams
  BY SeenType DEF StuckInv
<1>2. ASSUME NEW q \in Slots PROVE Prepared(q)'
  BY <1>1, PreparedFrame DEF StuckInv
<1>3. ASSUME NEW t \in Teams, NEW s \in Stations PROVE Awaited(t, s)'
  <2>1. CASE progress'[t][s] = progress[t][s]
    BY <2>1 DEF StuckInv, Awaited
  <2> QED BY <2>1
<1> QED BY <1>2, <1>3 DEF StuckInv

\* A handler that goes on without touching rows or photos.
LEMMA StuckGo ==
  ASSUME StuckInv, TypeOK', NEW r \in Slots, NEW next, NEW j, Go(r, next, j),
         UNCHANGED progress, \A t \in Teams : photos[t] \subseteq photos'[t],
         next # "idle" =>
           /\ j.op = job[r].op /\ j.station = job[r].station
           /\ next \in {"busy", "start"} => j.op = "start"
           /\ next = "photo" => j.op = "photo"
           /\ next = "scan" => j.op = "scan"
           /\ next = "upsert" => j.op \in {"photo", "scan"}
           /\ next = "upsert" /\ j.op = "photo" => j.station \in photos'[j.team],
         next = "idle" => j.op = "none"
  PROVE StuckInv'
<1>1. /\ pc'[r] = next /\ job'[r] = j
      /\ \A q \in Slots \ {r} : pc'[q] = pc[q] /\ job'[q] = job[q]
  BY GoMoves DEF StuckInv
<1>2. Prepared(r)
  BY DEF StuckInv
<1>3. Prepared(r)'
  BY <1>1, <1>2 DEF Prepared
<1> QED BY <1>1, <1>3, StuckStep

LEMMA StuckFinish ==
  ASSUME StuckInv, TypeOK', NEW r \in Slots, Finish(r),
         UNCHANGED progress, \A t \in Teams : photos[t] \subseteq photos'[t]
  PROVE StuckInv'
BY StuckGo DEF Finish, NoJob

\* Deciding, resetting or starting a task.
LEMMA StuckSave ==
  ASSUME StuckInv, TypeOK', NEW r \in Slots, NEW status \in {"IN_PROGRESS", "TODO", "DONE"},
         NEW pts, NEW started, NEW next \in {"idle", "clear", "log"}, NEW outcome,
         Save(r, status, pts, started, next, outcome),
         status = "IN_PROGRESS" => started = TRUE /\ job[r].station \notin PhotoStations
  PROVE StuckInv'
<1> DEFINE j == job[r]
           new == [status |-> status, pts |-> pts, started |-> started,
                   id |-> IF progress[j.team][j.station].status = "none" THEN epoch
                          ELSE progress[j.team][j.station].id]
<1>1. /\ j \in Job /\ j.team \in Teams /\ j.station \in Stations
      /\ progress \in [Teams -> [Stations -> Row]]
  BY SeenType DEF StuckInv, TypeOK
<1>2. CASE UNCHANGED progress /\ Finish(r)
  BY <1>2, StuckFinish DEF Save
<1>3. CASE /\ progress' = [progress EXCEPT ![j.team][j.station] = new]
           /\ IF next = "idle" THEN Finish(r) ELSE Go(r, next, [j EXCEPT !.outcome = outcome])
  <2>1. new.status = status /\ new.started = started
    OBVIOUS
  <2> HIDE DEF new
  <2>2. \A t \in Teams, s \in Stations :
           progress'[t][s] = IF t = j.team /\ s = j.station THEN new ELSE progress[t][s]
    BY <1>1, <1>3
  <2>3. ASSUME NEW t \in Teams, NEW s \in Stations
        PROVE progress'[t][s] = progress[t][s] \/ Awaited(t, s)'
    BY <2>1, <2>2 DEF Awaited
  <2>4. PICK k : /\ Go(r, next, k)
                 /\ next = "idle" => k.op = "none"
                 /\ next # "idle" => k.op = j.op /\ k.station = j.station
    BY <1>1, <1>3 DEF Finish, NoJob, Job
  <2>5. /\ pc'[r] = next /\ job'[r] = k
        /\ \A q \in Slots \ {r} : pc'[q] = pc[q] /\ job'[q] = job[q]
    BY <2>4, GoMoves DEF StuckInv
  <2>6. Prepared(r)'
    BY <2>4, <2>5 DEF Prepared, StuckInv
  <2>7. \A t \in Teams : photos[t] \subseteq photos'[t]
    BY DEF Save
  <2> QED BY <2>3, <2>5, <2>6, <2>7, StuckStep
<1> QED BY <1>2, <1>3 DEF Save

LEMMA StuckJudge ==
  ASSUME StuckInv, TypeOK', NEW r \in Slots, NEW j \in Job, Judge(r, j), UNCHANGED store,
         j.op = job[r].op, j.station = job[r].station
  PROVE StuckInv'
<1>1. \A a : [j EXCEPT !.award = a].op = j.op /\ [j EXCEPT !.award = a].station = j.station
  BY DEF Job
<1>2. UNCHANGED progress /\ \A t \in Teams : photos[t] \subseteq photos'[t]
  BY DEF store
<1>3. CASE Go(r, "fail", j)
  BY <1>2, <1>3, StuckGo
<1>4. ASSUME NEW a, NEW next \in {"bonus", "finalize"}, Go(r, next, [j EXCEPT !.award = a])
      PROVE StuckInv'
  BY <1>1, <1>2, <1>4, StuckGo
<1> QED BY <1>3, <1>4 DEF Judge

\* What a handler holds once it has read its row.
LEMMA SeenFields ==
  ASSUME TypeOK, NEW r \in Slots
  PROVE /\ Seen(r) \in Job /\ Seen(r).op = job[r].op
        /\ Seen(r).team = job[r].team /\ Seen(r).station = job[r].station
BY SeenType DEF Seen, Job

LEMMA StuckTask ==
  ASSUME StuckInv, TypeOK', NEW r \in Slots, Task(r)
  PROVE StuckInv'
<1> DEFINE j == job[r]
<1>1. Seen(r) \in Job /\ Seen(r).op = j.op /\ Seen(r).station = j.station /\ j \in Job
  BY SeenFields, SeenType DEF StuckInv
<1>2. Prepared(r)
  BY DEF StuckInv
<1>3. UNCHANGED store => UNCHANGED progress /\ \A t \in Teams : photos[t] \subseteq photos'[t]
  BY DEF store
<1>4. CASE ReadStart(r)
  BY <1>1, <1>3, <1>4, StuckGo, StuckFinish DEF ReadStart, At
<1>5. CASE CheckBusy(r)
  BY <1>1, <1>2, <1>3, <1>5, StuckGo, StuckFinish DEF CheckBusy, Prepared
<1>6. CASE WriteStarted(r)
  BY <1>2, <1>6, StuckSave DEF WriteStarted, Prepared
<1>7. CASE ReadComplete(r)
  BY <1>1, <1>3, <1>7, StuckJudge, StuckFinish DEF ReadComplete
<1>8. CASE CheckBonus(r)
  <2>1. \A a : [j EXCEPT !.award = a].op = j.op /\ [j EXCEPT !.award = a].station = j.station
    BY <1>1 DEF Job
  <2>2. PICK k : Go(r, "finalize", k) /\ k.op = j.op /\ k.station = j.station
    BY <1>8, <2>1 DEF CheckBonus
  <2> QED BY <1>3, <1>8, <2>2, StuckGo DEF CheckBonus
<1>9. CASE Finalize(r)
  BY <1>9, StuckSave DEF Finalize
<1>10. CASE ReadFail(r)
  BY <1>1, <1>3, <1>10, StuckGo, StuckFinish DEF ReadFail
<1>11. CASE MarkFailed(r)
  BY <1>11, StuckSave DEF MarkFailed
<1>12. CASE ReadContext(r)
  <2>1. PICK next \in {"fail", "write"} : Go(r, next, Seen(r))
    BY <1>12 DEF ReadContext
  <2> QED BY <1>1, <1>3, <1>12, <2>1, StuckGo DEF ReadContext
<1>13. CASE AdminComplete(r)
  BY <1>13, StuckSave DEF AdminComplete
<1>14. CASE AdminReset(r)
  BY <1>14, StuckSave DEF AdminReset
<1>15. CASE ClearScans(r) \/ LogOutcome(r)
  <2>1. PICK next \in {"log", "tasks"} : Go(r, next, j)
    BY <1>15 DEF ClearScans, LogOutcome
  <2>2. UNCHANGED progress /\ \A t \in Teams : photos[t] \subseteq photos'[t]
    BY <1>15 DEF ClearScans, LogOutcome
  <2> QED BY <2>1, <2>2, StuckGo
<1> QED BY <1>4, <1>5, <1>6, <1>7, <1>8, <1>9, <1>10, <1>11, <1>12, <1>13, <1>14, <1>15 DEF Task

LEMMA StuckSubmission ==
  ASSUME StuckInv, TypeOK', NEW r \in Slots, Submission(r)
  PROVE StuckInv'
<1> DEFINE j == job[r]
<1>1. /\ Seen(r) \in Job /\ Seen(r).op = j.op /\ Seen(r).station = j.station
      /\ j \in Job /\ j.team \in Teams /\ j.station \in Stations /\ TypeOK
  BY SeenFields, SeenType DEF StuckInv
<1>2. Prepared(r)
  BY DEF StuckInv
<1>3. UNCHANGED store => UNCHANGED progress /\ \A t \in Teams : photos[t] \subseteq photos'[t]
  BY DEF store
<1>4. CASE ReadPhoto(r)
  BY <1>1, <1>3, <1>4, StuckGo, StuckFinish DEF ReadPhoto, At
<1>5. CASE SavePhoto(r)
  <2>1. /\ \A t \in Teams : photos[t] \subseteq photos'[t]
        /\ j.station \in photos'[j.team]
    BY <1>1, <1>5 DEF SavePhoto, TypeOK
  <2>2. Go(r, "upsert", j) /\ UNCHANGED progress /\ j.op = "photo"
    BY <1>2, <1>5 DEF SavePhoto, Prepared
  <2> QED BY <2>1, <2>2, StuckGo
<1>6. CASE ReadScan(r)
  BY <1>1, <1>3, <1>6, StuckGo, StuckFinish DEF ReadScan, At
<1>7. CASE SaveScan(r)
  <2>1. /\ \A t \in Teams : photos[t] \subseteq photos'[t]
        /\ Go(r, "upsert", j) /\ UNCHANGED progress /\ j.op = "scan"
    BY <1>2, <1>7 DEF SaveScan, Prepared
  <2> QED BY <2>1, StuckGo
<1>8. CASE UpsertRow(r)
  <2> DEFINE row == Upserted(progress[j.team][j.station])
             k == [j EXCEPT !.seen = row]
  <2>1. /\ progress' = [progress EXCEPT ![j.team][j.station] = row] /\ UNCHANGED photos
        /\ IF j.op = "photo" THEN Finish(r) ELSE Go(r, "count", k)
    BY <1>8 DEF UpsertRow
  <2>2. k.op = j.op /\ k.station = j.station
    BY <1>1 DEF Job
  <2> HIDE DEF row, k
  <2>3. \A t \in Teams, s \in Stations :
           progress'[t][s] = IF t = j.team /\ s = j.station THEN row ELSE progress[t][s]
    BY <1>1, <2>1 DEF TypeOK
  <2>4. \/ j.station \in PhotoStations /\ j.station \in photos[j.team]
        \/ j.station \in QrStations
    BY <1>2, <1>8 DEF Prepared, UpsertRow
  <2>5. ASSUME NEW t \in Teams, NEW s \in Stations
        PROVE progress'[t][s] = progress[t][s] \/ Awaited(t, s)'
    BY <2>1, <2>3, <2>4, ConstantsAssumption DEF Awaited
  <2>6. PICK next, h : /\ Go(r, next, h) /\ next \in {"idle", "count"}
                       /\ next = "idle" => h.op = "none"
                       /\ next # "idle" => h.op = j.op /\ h.station = j.station
    BY <2>1, <2>2 DEF Finish, NoJob
  <2>7. /\ pc'[r] = next /\ job'[r] = h
        /\ \A q \in Slots \ {r} : pc'[q] = pc[q] /\ job'[q] = job[q]
    BY <1>1, <2>6, GoMoves
  <2>8. Prepared(r)'
    BY <1>2, <2>6, <2>7 DEF Prepared
  <2> QED BY <2>1, <2>5, <2>7, <2>8, StuckStep
<1>9. CASE CountScans(r)
  BY <1>1, <1>3, <1>9, StuckJudge, StuckFinish DEF CountScans
<1> QED BY <1>4, <1>5, <1>6, <1>7, <1>8, <1>9 DEF Submission

\* The bulk reset goes on to the next team or to its log entry.
LEMMA NextTeamGo ==
  ASSUME NEW r \in Slots, NEW j \in Job, NextTeam(r, j)
  PROVE \E next \in {"tasks", "logAll"} : \E k : Go(r, next, k) /\ k.op = j.op /\ k.station = j.station
<1>1. CASE Go(r, "logAll", j)
  BY <1>1
<1>2. ASSUME NEW t \in j.left,
             Go(r, "tasks", [j EXCEPT !.team = t, !.left = @ \ {t}, !.sum = NoTally])
      PROVE \E next \in {"tasks", "logAll"} : \E k :
              Go(r, next, k) /\ k.op = j.op /\ k.station = j.station
  <2> DEFINE k == [j EXCEPT !.team = t, !.left = @ \ {t}, !.sum = NoTally]
  <2>1. k.op = j.op /\ k.station = j.station
    BY DEF Job
  <2> HIDE DEF k
  <2> QED BY <1>2, <2>1 DEF k
<1> QED BY <1>1, <1>2 DEF NextTeam

\* Steps that touch neither rows nor photos.
LEMMA StuckRest ==
  ASSUME StuckInv, TypeOK', NEW r \in Slots, Claim(r) \/ Recalculate(r)
  PROVE StuckInv'
<1> DEFINE j == job[r]
<1>1. UNCHANGED <<progress, photos>>
  BY DEF Claim, FindCode, CheckFirstTeam, CreateClaim, Recalculate, ReadTasks, ReadClaims,
         WriteTotal, store
<1>2. j \in Job
  BY SeenType DEF StuckInv
<1>3. Finish(r) \/ \E next \in {"first", "claim", "tasks", "claims", "total", "logAll"} : \E k :
                      Go(r, next, k) /\ (k.op = j.op /\ k.station = j.station)
  <2>1. CASE Claim(r)
    BY <2>1 DEF Claim, FindCode, CheckFirstTeam, CreateClaim
  <2>2. CASE ReadTasks(r)
    BY <1>2, <2>2 DEF ReadTasks, Job
  <2>3. CASE ReadClaims(r)
    BY <1>2, <2>3 DEF ReadClaims, Job
  <2>4. CASE WriteTotal(r)
    BY <1>2, <2>4, NextTeamGo DEF WriteTotal
  <2> QED BY <2>1, <2>2, <2>3, <2>4 DEF Recalculate
<1> QED BY <1>1, <1>3, StuckGo, StuckFinish

LEMMA StuckReset ==
  ASSUME StuckInv, TypeOK', NEW r \in Slots, Reset(r)
  PROVE StuckInv'
<1> DEFINE j == job[r]
<1>1. UNCHANGED photos /\ j \in Job /\ TypeOK /\ Prepared(r)
  BY SeenType DEF StuckInv, Reset, FindResettable, ResetRows, ClearFoundScans, Wipe, ZeroTotals, Reopen,
         LogReset, store
<1>2. ASSUME NEW t \in Teams, NEW s \in Stations
      PROVE progress'[t][s] = progress[t][s] \/ progress'[t][s].status # "IN_PROGRESS"
  <2>1. CASE UNCHANGED progress
    BY <2>1
  <2>2. CASE ResetRows(r)
    <3>1. progress[t][s] \in Row
      BY <1>1 DEF TypeOK
    <3>2. progress'[t][s] =
            IF progress[t][s].status \in {"DONE", "IN_PROGRESS"}
            THEN [progress[t][s] EXCEPT !.status = "TODO", !.pts = 0, !.started = FALSE]
            ELSE progress[t][s]
      BY <2>2 DEF ResetRows
    <3>3. [progress[t][s] EXCEPT !.status = "TODO", !.pts = 0, !.started = FALSE].status = "TODO"
      BY <3>1 DEF Row
    <3> QED BY <3>2, <3>3
  <2>3. CASE Wipe(r)
    BY <2>3 DEF Wipe, NoRow
  <2> QED BY <2>1, <2>2, <2>3
       DEF Reset, FindResettable, ClearFoundScans, ZeroTotals, Reopen, LogReset, store
<1>3. \A t \in Teams, s \in Stations : progress'[t][s] = progress[t][s] \/ Awaited(t, s)'
  BY <1>2 DEF Awaited
<1>4. \/ Finish(r)
      \/ \E next \in {"resetAll", "clearAll", "tasks", "zero", "logAll"} : \E k :
           Go(r, next, k) /\ (k.op = j.op /\ k.station = j.station)
      \/ pc' = [pc EXCEPT ![r] = "reopen"] /\ UNCHANGED job
  <2>1. CASE FindResettable(r)
    <3>1. [j EXCEPT !.found = Resettable].op = j.op /\ [j EXCEPT !.found = Resettable].station = j.station
      BY <1>1 DEF Job
    <3> QED BY <2>1, <3>1 DEF FindResettable
  <2>2. CASE ClearFoundScans(r)
    <3> DEFINE h == [j EXCEPT !.left = {p[1] : p \in j.found}]
    <3>1. {p[1] : p \in j.found} \in SUBSET Teams
      BY <1>1 DEF Job
    <3>2. h \in Job /\ h.op = j.op /\ h.station = j.station
      BY <1>1, <3>1 DEF Job
    <3>3. NextTeam(r, h)
      BY <2>2 DEF ClearFoundScans
    <3> HIDE DEF h
    <3> QED BY <3>2, <3>3, NextTeamGo
  <2> QED BY <2>1, <2>2 DEF Reset, ResetRows, Wipe, ZeroTotals, Reopen, LogReset
<1>5. /\ \A q \in Slots \ {r} : pc'[q] = pc[q] /\ job'[q] = job[q]
      /\ Prepared(r)'
  <2>1. CASE Finish(r)
    BY <1>1, <2>1, GoMoves DEF Finish, NoJob, Prepared
  <2>2. CASE pc' = [pc EXCEPT ![r] = "reopen"] /\ UNCHANGED job
    BY <1>1, <2>2 DEF TypeOK, Prepared
  <2>3. ASSUME NEW next \in {"resetAll", "clearAll", "tasks", "zero", "logAll"}, NEW k,
               Go(r, next, k), k.op = j.op, k.station = j.station
        PROVE /\ \A q \in Slots \ {r} : pc'[q] = pc[q] /\ job'[q] = job[q]
              /\ Prepared(r)'
    <3>1. /\ pc'[r] = next /\ job'[r] = k
          /\ \A q \in Slots \ {r} : pc'[q] = pc[q] /\ job'[q] = job[q]
      BY <1>1, <2>3, GoMoves
    <3> QED BY <1>1, <2>3, <3>1 DEF Prepared
  <2> QED BY <1>4, <2>1, <2>2, <2>3
<1> QED BY <1>1, <1>3, <1>5, StuckStep

LEMMA StuckReceive ==
  ASSUME StuckInv, TypeOK', NEW r \in Slots, Receive(r)
  PROVE StuckInv'
<1>1. ASSUME NEW first \in {"read", "code", "find", "wipe"}, NEW j \in Job, NEW T, Accept(r, first, j, T),
             /\ j.op = "start" => j.station \notin PhotoStations
             /\ j.op = "photo" => j.station \in PhotoStations
             /\ j.op = "scan" => j.station \in QrStations
      PROVE StuckInv'
  <2>1. /\ pc'[r] = first /\ job'[r] = j /\ UNCHANGED <<progress, photos>>
        /\ \A q \in Slots \ {r} : pc'[q] = pc[q] /\ job'[q] = job[q]
    BY <1>1 DEF Accept, StuckInv, TypeOK, store
  <2>2. Prepared(r)'
    BY <1>1, <2>1 DEF Prepared
  <2> QED BY <2>1, <2>2, StuckStep
<1>2. ASSUME NEW op \in DeviceOps \cup AdminOps, NEW t \in Teams, NEW s \in Stations,
             ReceiveTask(r, op, t, s)
      PROVE StuckInv'
  <2> DEFINE j == [NoJob EXCEPT !.op = op, !.team = t, !.station = s]
  <2>1. j \in Job /\ j.op = op /\ j.station = s
    BY NoJobType DEF Job
  <2>2. /\ op = "start" => s \notin PhotoStations
        /\ op = "photo" => s \in PhotoStations
        /\ op # "scan"
    BY <1>2 DEF ReceiveTask, Accepts, AdminOps
  <2>3. Accept(r, "read", j, {t})
    BY <1>2 DEF ReceiveTask
  <2> HIDE DEF j
  <2> QED BY <1>1, <2>1, <2>2, <2>3
<1>3. ASSUME NEW t \in Teams, NEW s \in Stations, NEW label \in Labels,
             ReceiveScan(r, t, s, label)
      PROVE StuckInv'
  <2> DEFINE j == [NoJob EXCEPT !.op = "scan", !.team = t, !.station = s, !.label = label]
  <2>1. j \in Job /\ j.op = "scan" /\ j.station = s
    BY NoJobType DEF Job, DeviceOps
  <2>2. Accept(r, "read", j, {t}) /\ s \in QrStations
    BY <1>3 DEF ReceiveScan
  <2> HIDE DEF j
  <2> QED BY <1>1, <2>1, <2>2
<1>4. ASSUME NEW t \in Teams, NEW c \in Codes, ReceiveCode(r, t, c)
      PROVE StuckInv'
  <2> DEFINE j == [NoJob EXCEPT !.op = "claim", !.team = t, !.code = c]
  <2>1. j \in Job /\ j.op = "claim"
    BY NoJobType DEF Job, DeviceOps
  <2>2. Accept(r, "code", j, {t})
    BY <1>4 DEF ReceiveCode
  <2> HIDE DEF j
  <2> QED BY <1>1, <2>1, <2>2
<1>5. ASSUME NEW op \in BulkOps
      PROVE [NoJob EXCEPT !.op = op] \in Job /\ [NoJob EXCEPT !.op = op].op = op
  BY NoJobType DEF Job
<1>6. CASE ReceiveResetTasks(r) \/ ReceiveResetGame(r)
  <2>1. PICK first \in {"find", "wipe"}, op \in BulkOps :
          Accept(r, first, [NoJob EXCEPT !.op = op], Teams)
    BY <1>6 DEF ReceiveResetTasks, ReceiveResetGame, BulkOps
  <2>2. op \notin {"start", "photo", "scan"}
    BY DEF BulkOps
  <2> QED BY <1>1, <1>5, <2>1, <2>2
<1> QED BY <1>2, <1>3, <1>4, <1>6 DEF Receive

LEMMA StuckNext == StuckInv /\ [Next]_vars => StuckInv'
<1> SUFFICES ASSUME StuckInv, [Next]_vars PROVE StuckInv'
  OBVIOUS
<1>1. TypeOK'
  BY TypeStep DEF StuckInv
<1>2. ASSUME NEW r \in Slots, Receive(r) \/ Serve(r) PROVE StuckInv'
  BY <1>1, <1>2, StuckReceive, StuckTask, StuckSubmission, StuckRest, StuckReset DEF Serve
<1>3. CASE FinishGame \/ (\E c \in Codes : DeleteCode(c)) \/ UNCHANGED vars
  <2>1. UNCHANGED <<progress, photos, pc, job>>
    BY <1>3 DEF FinishGame, DeleteCode, vars, store
  <2>2. \A q \in Slots : Prepared(q)' <=> Prepared(q)
    BY <2>1 DEF Prepared
  <2>3. \A t \in Teams, s \in Stations : Awaited(t, s)' <=> Awaited(t, s)
    BY <2>1 DEF Awaited
  <2> QED BY <1>1, <2>2, <2>3 DEF StuckInv
<1>4. CASE Crash
  <2>1. \A q \in Slots : pc'[q] = "idle" /\ job'[q] = NoJob
    BY <1>4 DEF Crash
  <2>2. \A q \in Slots : Prepared(q)'
    BY <2>1 DEF Prepared, NoJob
  <2>3. \A t \in Teams, s \in Stations : Awaited(t, s)' <=> Awaited(t, s)
    BY <1>4 DEF Crash, store, Awaited
  <2> QED BY <1>1, <2>2, <2>3 DEF StuckInv
<1> QED BY <1>2, <1>3, <1>4 DEF Next, Rest

\* A photo task in progress has a photo for the admin to review, and a task that a
\* device started has its timer running, whatever handlers overlap, whatever is reset
\* and wherever the server is cut off.
THEOREM NobodyStuck == Spec => []NothingStuck
BY StuckInit, StuckNext, StuckInvImplies, PTL DEF Spec

-----------------------------------------------------------------------------
(* Rows, outcome events and scans. They are written by separate statements *)
(* of one handler: what they say of each other in between is the Story of  *)
(* that handler.                                                           *)

Explained(t, s) ==
  /\ (progress[t][s].status = "DONE") <=> (latest[t][s] \in {"completed", "failed"})
  /\ latest[t][s] = "failed" => progress[t][s].pts = 0

ScanFits(t, s) ==
  /\ scans[t][s] # {} => progress[t][s].status \in {"IN_PROGRESS", "DONE"}
  /\ scans[t][s] = Labels => progress[t][s].status = "DONE"

Fits(t) == \A s \in Stations : Explained(t, s) /\ ScanFits(t, s)

\* Nothing is decided and nothing scanned, as a reset leaves a team.
Fresh(t) == \A s \in Stations : progress[t][s].status # "DONE" /\ scans[t][s] = {}

\* Where a handler on a row has not touched it, and where its scan may be ahead of it.
BeforePCs == {"read", "busy", "start", "photo", "scan"}
AheadPCs  == {"upsert", "count", "bonus", "finalize", "fail", "write"}

\* What holds of team t while the handler in slot r, alone, is busy with it.
Story(r, t) ==
  LET j == job[r]
      own == progress[t][j.station]
      others == Stations \ {j.station}
  IN /\ pc[r] \in BeforePCs \cup CodePCs \cup {"find", "resetAll", "wipe"} => Fits(t)
     /\ pc[r] \in TotalPCs => IF j.op \in BulkOps THEN Fresh(t) ELSE Fits(t)
     /\ pc[r] \in AheadPCs =>
          (\A s \in Stations : Explained(t, s)) /\ (\A s \in others : ScanFits(t, s))
     /\ pc[r] = "count" => own.status = "IN_PROGRESS"
     /\ pc[r] = "clear" =>
          /\ own.status = "TODO" /\ j.outcome = "reset"
          /\ \A s \in others : Explained(t, s) /\ ScanFits(t, s)
     /\ pc[r] = "log" =>
          /\ (own.status = "DONE") <=> (j.outcome \in {"completed", "failed"})
          /\ j.outcome = "failed" => own.pts = 0
          /\ \A s \in others : Explained(t, s)
          /\ \A s \in Stations : ScanFits(t, s)
     /\ pc[r] = "resetAll" =>
          \A s \in Stations : progress[t][s].status \in {"DONE", "IN_PROGRESS"} => <<t, s>> \in j.found
     /\ pc[r] = "clearAll" =>
          \A s \in Stations : /\ progress[t][s].status # "DONE"
                              /\ scans[t][s] # {} => <<t, s>> \in j.found
     /\ pc[r] \in {"zero", "reopen", "logAll"} => Fresh(t)

Told(t) ==
  /\ Idle(t) => Fits(t)
  /\ \A r \in Slots : BusyOn(r, t) => Story(r, t)

StoryInv ==
  /\ IInv /\ StuckInv
  /\ \A t \in Teams, s \in Stations \ QrStations : scans[t][s] = {}
  /\ \A t \in Teams : t \notin disturbed => Told(t)

\* What a story is about.
ledger == <<progress, latest, scans>>
SameFor(t) == progress'[t] = progress[t] /\ latest'[t] = latest[t] /\ scans'[t] = scans[t]

LEMMA FitsFrame ==
  ASSUME NEW t \in Teams, SameFor(t)
  PROVE /\ Fits(t)' <=> Fits(t)
        /\ Fresh(t)' <=> Fresh(t)
        /\ \A s \in Stations : /\ Explained(t, s)' <=> Explained(t, s)
                               /\ ScanFits(t, s)' <=> ScanFits(t, s)
BY DEF SameFor, Fits, Fresh, Explained, ScanFits

LEMMA StoryFrame ==
  ASSUME NEW t \in Teams, NEW q \in Slots, Story(q, t), SameFor(t),
         pc'[q] = pc[q], job'[q] = job[q]
  PROVE Story(q, t)'
<1>1. /\ Fits(t)' <=> Fits(t)
      /\ Fresh(t)' <=> Fresh(t)
      /\ \A s \in Stations : /\ Explained(t, s)' <=> Explained(t, s)
                             /\ ScanFits(t, s)' <=> ScanFits(t, s)
  BY FitsFrame
<1> QED BY <1>1 DEF Story, SameFor

\* What the handler in slot r leaves behind for team t.
Tells(r, t) ==
  /\ pc'[r] = "idle" => Fits(t)'
  /\ pc'[r] # "idle" => Story(r, t)'

\* Only hunts are scanned.
HuntsOnly == \A t \in Teams, s \in Stations \ QrStations : scans[t][s] = {}

LEMMA LocalStory ==
  ASSUME StoryInv, IInv', StuckInv', HuntsOnly', NEW r \in Slots, Local(r),
         \A t \in Teams \ {job[r].team} : SameFor(t),
         \A t \in Teams : t = job[r].team /\ t \notin disturbed => Tells(r, t)
  PROVE StoryInv'
<1>1. ASSUME NEW t \in Teams, t \notin disturbed' PROVE Told(t)'
  <2>1. t \notin disturbed /\ Told(t) /\ Good(t)
    BY <1>1 DEF Local, StoryInv, IInv, Good
  <2>2. CASE t = job[r].team
    <3>1. BusyOn(r, t) /\ \A q \in Slots \ {r} : ~BusyOn(q, t)
      BY <2>1, <2>2 DEF Local, OneMoves, BusyOn, Good
    <3>2. \A q \in Slots \ {r} : ~BusyOn(q, t)'
      BY <3>1 DEF Local, OneMoves, BusyOn
    <3>3. BusyOn(r, t)' <=> pc'[r] # "idle"
      BY <2>2 DEF Local, OneMoves, BusyOn
    <3>4. Tells(r, t)
      BY <2>1, <2>2
    <3> QED BY <3>2, <3>3, <3>4 DEF Told, Idle, Tells
  <2>3. CASE t # job[r].team
    <3>1. SameFor(t)
      BY <2>3
    <3>2. \A q \in Slots : BusyOn(q, t)' <=> BusyOn(q, t)
      BY <2>3 DEF Local, OneMoves, BusyOn
    <3>3. ~BusyOn(r, t)
      BY <2>3 DEF Local, OneMoves, BusyOn
    <3>4. Fits(t)' <=> Fits(t)
      BY <3>1, FitsFrame
    <3>5. ASSUME NEW q \in Slots, BusyOn(q, t) PROVE Story(q, t)'
      <4>1. q # r
        BY <3>3, <3>5
      <4>2. pc'[q] = pc[q] /\ job'[q] = job[q] /\ Story(q, t)
        BY <2>1, <3>5, <4>1 DEF Local, OneMoves, Told
      <4> QED BY <3>1, <4>2, StoryFrame
    <3> QED BY <2>1, <3>2, <3>4, <3>5 DEF Told, Idle
  <2> QED BY <2>2, <2>3
<1> QED BY <1>1 DEF StoryInv, HuntsOnly

LEMMA GlobalStory ==
  ASSUME StoryInv, IInv', StuckInv', HuntsOnly', NEW r \in Slots, Global(r),
         \A t \in Teams : t \notin disturbed' => Tells(r, t)
  PROVE StoryInv'
<1>1. ASSUME NEW t \in Teams, t \notin disturbed' PROVE Told(t)'
  <2>1. t \notin disturbed /\ Good(t)
    BY <1>1 DEF Global, StoryInv, IInv, Good
  <2>2. BusyOn(r, t) /\ \A q \in Slots \ {r} : ~BusyOn(q, t)
    BY <2>1 DEF Global, OneMoves, BusyOn, Good
  <2>3. \A q \in Slots \ {r} : ~BusyOn(q, t)'
    BY <2>2 DEF Global, OneMoves, BusyOn
  <2>4. BusyOn(r, t)' <=> pc'[r] # "idle"
    BY DEF Global, OneMoves, BusyOn
  <2>5. Tells(r, t)
    BY <1>1
  <2> QED BY <2>3, <2>4, <2>5 DEF Told, Idle, Tells
<1> QED BY <1>1 DEF StoryInv, HuntsOnly

\* What a handler that is busy knows.
LEMMA StoryKnown ==
  ASSUME StoryInv, NEW r \in Slots, pc[r] # "idle"
  PROVE /\ TypeOK /\ Coherent(r) /\ Prepared(r) /\ HuntsOnly
        /\ job[r] \in Job /\ job[r].team \in Teams /\ job[r].station \in Stations
        /\ job[r].team \notin disturbed => Phase(r, job[r].team) /\ Story(r, job[r].team)
        /\ job[r].op \in BulkOps =>
             \A t \in Teams : t \notin disturbed => Phase(r, t) /\ Story(r, t)
<1>1. IInv /\ StuckInv /\ HuntsOnly
  BY DEF StoryInv, HuntsOnly
<1>2. TypeOK /\ Coherent(r) /\ Prepared(r)
  BY <1>1 DEF IInv, StuckInv
<1>3. job[r] \in Job /\ job[r].team \in Teams /\ job[r].station \in Stations
  BY <1>2, SeenType
<1>4. BusyOn(r, job[r].team) /\ (job[r].op \in BulkOps => \A t \in Teams : BusyOn(r, t))
  BY DEF BusyOn
<1>5. /\ job[r].team \notin disturbed => Story(r, job[r].team)
      /\ job[r].op \in BulkOps => \A t \in Teams : t \notin disturbed => Story(r, t)
  BY <1>3, <1>4 DEF StoryInv, Told
<1> QED BY <1>1, <1>2, <1>3, <1>5, Busy

\* Going on where rows, events and scans agree.
LEMMA GoFits ==
  ASSUME TypeOK, NEW r \in Slots, NEW t \in Teams, Fits(t)', NEW k,
         NEW next \in BeforePCs \cup CodePCs \cup TotalPCs \cup (AheadPCs \ {"count"}),
         Go(r, next, k),
         next \in TotalPCs => k.op \notin BulkOps
  PROVE Tells(r, t)
<1>1. pc'[r] = next /\ job'[r] = k
  BY GoMoves
<1>2. next # "idle"
  BY DEF BeforePCs, CodePCs, TotalPCs, AheadPCs
<1>3. \A s \in Stations : Explained(t, s)' /\ ScanFits(t, s)'
  BY DEF Fits
<1>4. Story(r, t)'
  BY <1>1, <1>3 DEF Story, BeforePCs, CodePCs, TotalPCs, AheadPCs
<1> QED BY <1>1, <1>2, <1>4 DEF Tells

LEMMA FinishFits ==
  ASSUME TypeOK, NEW r \in Slots, NEW t \in Teams, Finish(r), Fits(t)'
  PROVE Tells(r, t)
BY GoMoves DEF Finish, Tells

\* Going on where the scan of the own row may be ahead of the row.
LEMMA GoAhead ==
  ASSUME TypeOK, NEW r \in Slots, NEW t \in Teams, NEW k, NEW next \in AheadPCs,
         Go(r, next, k), SameFor(t), k.station = job[r].station,
         pc[r] \in AheadPCs, Story(r, t),
         next = "count" => progress[t][k.station].status = "IN_PROGRESS"
  PROVE Tells(r, t)
<1>1. pc'[r] = next /\ job'[r] = k /\ next # "idle"
  BY GoMoves DEF AheadPCs
<1>2. /\ \A s \in Stations : Explained(t, s)'
      /\ \A s \in Stations \ {k.station} : ScanFits(t, s)'
  BY FitsFrame DEF Story
<1>3. Story(r, t)'
  BY <1>1, <1>2 DEF Story, BeforePCs, CodePCs, TotalPCs, AheadPCs, SameFor
<1> QED BY <1>1, <1>3 DEF Tells

\* A write to one row, seen from its team.
LEMMA OwnRow ==
  ASSUME TypeOK, NEW t \in Teams, NEW s \in Stations, NEW row,
         progress' = [progress EXCEPT ![t][s] = row]
  PROVE /\ progress'[t][s] = row
        /\ \A x \in Stations \ {s} : progress'[t][x] = progress[t][x]
BY DEF TypeOK

LEMMA SaveTells ==
  ASSUME StoryInv, NEW r \in Slots, pc[r] \in AheadPCs,
         NEW t \in Teams, t = job[r].team, t \notin disturbed,
         NEW status, NEW pts, NEW started, NEW next, NEW outcome \in Outcomes,
         Save(r, status, pts, started, next, outcome),
         \/ status = "DONE" /\ next = "log" /\ outcome = "completed"
         \/ status = "DONE" /\ next = "log" /\ outcome = "failed" /\ pts = 0
         \/ status = "TODO" /\ next = "clear" /\ outcome = "reset"
  PROVE Tells(r, t)
<1> DEFINE j == job[r]
           new == [status |-> status, pts |-> pts, started |-> started,
                   id |-> IF progress[j.team][j.station].status = "none" THEN epoch
                          ELSE progress[j.team][j.station].id]
           k == [j EXCEPT !.outcome = outcome]
<1>1. /\ pc[r] # "idle" /\ pc[r] \in RowPCs \ {"read"}
      /\ pc[r] \notin BeforePCs \cup CodePCs \cup TotalPCs
  BY DEF AheadPCs, RowPCs, BeforePCs, CodePCs, TotalPCs
<1>2. /\ TypeOK /\ j \in Job /\ j.station \in Stations /\ Phase(r, t) /\ Story(r, t)
  BY <1>1, StoryKnown
<1>3. PICK own \in Stations : own = j.station
  BY <1>2
<1>4. progress[t][own].id = j.seen.id
  BY <1>1, <1>2, <1>3 DEF Phase
<1>5. progress' = [progress EXCEPT ![t][own] = new] /\ Go(r, next, k)
  BY <1>3, <1>4 DEF Save
<1>6. new.status = status /\ new.pts = pts /\ k.station = own /\ k.outcome = outcome
  BY <1>2, <1>3 DEF Job
<1> HIDE DEF new, k
<1>7. /\ progress'[t][own] = new
      /\ \A s \in Stations \ {own} : progress'[t][s] = progress[t][s]
  BY <1>2, <1>5, OwnRow
<1>8. UNCHANGED <<latest, scans>>
  BY DEF Save
<1>9. \A s \in Stations \ {own} : Explained(t, s)' /\ ScanFits(t, s)'
  <2>1. \A s \in Stations \ {own} : Explained(t, s) /\ ScanFits(t, s)
    BY <1>2, <1>3 DEF Story
  <2> QED BY <1>7, <1>8, <2>1 DEF Explained, ScanFits
<1>10. pc'[r] = next /\ job'[r] = k
  BY <1>2, <1>5, GoMoves
<1>11. status = "DONE" => ScanFits(t, own)'
  BY <1>6, <1>7 DEF ScanFits
<1>12. Story(r, t)'
  <2>1. CASE next = "log"
    <3>1. \A s \in Stations : ScanFits(t, s)'
      BY <1>9, <1>11, <2>1
    <3> QED BY <1>6, <1>7, <1>9, <1>10, <2>1, <3>1
            DEF Story, BeforePCs, AheadPCs, CodePCs, TotalPCs
  <2>2. CASE next = "clear"
    BY <1>6, <1>7, <1>9, <1>10, <2>2 DEF Story, BeforePCs, AheadPCs, CodePCs, TotalPCs
  <2> QED BY <2>1, <2>2
<1> QED BY <1>10, <1>12 DEF Tells

LEMMA JudgeTells ==
  ASSUME StoryInv, NEW r \in Slots, NEW t \in Teams, NEW j \in Job, Judge(r, j),
         SameFor(t), j.station = job[r].station,
         Fits(t) \/ (pc[r] \in AheadPCs /\ Story(r, t))
  PROVE Tells(r, t)
<1>1. \A a : [j EXCEPT !.award = a].station = j.station
  BY DEF Job
<1>2. PICK next, k : next \in {"fail", "bonus", "finalize"} /\ Go(r, next, k) /\ k.station = j.station
  BY <1>1 DEF Judge
<1>3. TypeOK /\ next \in AheadPCs \ {"count"} /\ next \notin TotalPCs
  BY <1>2 DEF StoryInv, IInv, AheadPCs, TotalPCs
<1>4. CASE Fits(t)
  <2>1. Fits(t)'
    BY <1>4, FitsFrame
  <2> QED BY <1>2, <1>3, <2>1, GoFits
<1>5. CASE pc[r] \in AheadPCs /\ Story(r, t)
  BY <1>2, <1>3, <1>5, GoAhead
<1> QED BY <1>4, <1>5

LEMMA TaskTells ==
  ASSUME StoryInv, NEW r \in Slots, Task(r), NEW t \in Teams, t = job[r].team, t \notin disturbed
  PROVE Tells(r, t)
<1> DEFINE j == job[r]
<1>0. pc[r] # "idle"
  BY DEF Task, ReadStart, CheckBusy, WriteStarted, ReadComplete, CheckBonus, Finalize, ReadFail,
         MarkFailed, ReadContext, AdminComplete, AdminReset, ClearScans, LogOutcome, At
<1>1. /\ TypeOK /\ j \in Job /\ j.station \in Stations /\ Phase(r, t) /\ Story(r, t)
      /\ Seen(r) \in Job /\ Seen(r).station = j.station
  BY <1>0, StoryKnown, SeenFields
<1>2. pc[r] \in BeforePCs => Fits(t)
  BY <1>1 DEF Story
<1>3. UNCHANGED store => SameFor(t) /\ (Fits(t)' <=> Fits(t))
  BY FitsFrame DEF store, SameFor
<1>4. CASE ReadStart(r)
  BY <1>1, <1>2, <1>3, <1>4, GoFits, FinishFits DEF ReadStart, At, BeforePCs, TotalPCs
<1>5. CASE CheckBusy(r)
  BY <1>1, <1>2, <1>3, <1>5, GoFits, FinishFits DEF CheckBusy, BeforePCs, TotalPCs
<1>6. CASE WriteStarted(r)
  <2> DEFINE row == progress[j.team][j.station]
             new == [status |-> "IN_PROGRESS", pts |-> row.pts, started |-> TRUE,
                     id |-> IF row.status = "none" THEN epoch ELSE row.id]
  <2>1. pc[r] = "start" /\ UNCHANGED <<latest, scans>> /\ Fits(t)
    BY <1>2, <1>6 DEF WriteStarted, Save, BeforePCs
  <2>2. row.id = j.seen.id /\ row.status # "DONE"
    BY <1>1, <2>1 DEF Phase, RowPCs
  <2>3. PICK own \in Stations : own = j.station
    BY <1>1
  <2>4. progress' = [progress EXCEPT ![t][own] = new] /\ Finish(r)
    BY <1>6, <2>2, <2>3 DEF WriteStarted, Save
  <2>5. new.status = "IN_PROGRESS"
    OBVIOUS
  <2> HIDE DEF new
  <2>6. /\ progress'[t][own] = new
        /\ \A s \in Stations \ {own} : progress'[t][s] = progress[t][s]
    BY <1>1, <2>4, OwnRow
  <2>7. ASSUME NEW s \in Stations PROVE Explained(t, s)' /\ ScanFits(t, s)'
    <3>1. Explained(t, s) /\ ScanFits(t, s)
      BY <2>1 DEF Fits
    <3> QED BY <2>1, <2>2, <2>3, <2>5, <2>6, <3>1 DEF Explained, ScanFits
  <2> QED BY <1>1, <2>4, <2>7, FinishFits DEF Fits
<1>7. CASE ReadComplete(r)
  BY <1>1, <1>2, <1>3, <1>7, JudgeTells, FinishFits DEF ReadComplete, At, BeforePCs
<1>8. CASE CheckBonus(r)
  <2>1. \A a : [j EXCEPT !.award = a].station = j.station
    BY <1>1 DEF Job
  <2>2. PICK k : Go(r, "finalize", k) /\ k.station = j.station
    BY <1>8, <2>1 DEF CheckBonus
  <2> QED BY <1>1, <1>3, <1>8, <2>2, GoAhead DEF CheckBonus, AheadPCs
<1>9. CASE Finalize(r)
  BY <1>9, SaveTells DEF Finalize, AheadPCs, Outcomes
<1>10. CASE ReadFail(r)
  BY <1>1, <1>2, <1>3, <1>10, GoFits, FinishFits DEF ReadFail, At, BeforePCs, AheadPCs, TotalPCs
<1>11. CASE MarkFailed(r)
  BY <1>11, SaveTells DEF MarkFailed, AheadPCs, Outcomes
<1>12. CASE ReadContext(r)
  <2>1. PICK next \in {"fail", "write"} : Go(r, next, Seen(r))
    BY <1>12 DEF ReadContext
  <2> QED BY <1>1, <1>2, <1>3, <1>12, <2>1, GoFits DEF ReadContext, BeforePCs, AheadPCs, TotalPCs
<1>13. CASE AdminComplete(r)
  BY <1>13, SaveTells DEF AdminComplete, At, AheadPCs, Outcomes
<1>14. CASE AdminReset(r)
  BY <1>14, SaveTells DEF AdminReset, At, AheadPCs, Outcomes
<1>15. CASE ClearScans(r)
  <2>1. PICK own \in Stations : own = j.station
    BY <1>1
  <2>2. /\ pc[r] = "clear" /\ UNCHANGED <<progress, latest>> /\ Go(r, "log", j)
        /\ scans'[t][own] = {}
        /\ \A s \in Stations \ {own} : scans'[t][s] = scans[t][s]
    BY <1>1, <1>15, <2>1 DEF ClearScans, TypeOK
  <2>3. /\ progress[t][own].status = "TODO" /\ j.outcome = "reset"
        /\ \A s \in Stations \ {own} : Explained(t, s) /\ ScanFits(t, s)
    BY <1>1, <2>1, <2>2 DEF Story
  <2>4. \A s \in Stations \ {own} : Explained(t, s)' /\ ScanFits(t, s)'
    BY <2>2, <2>3 DEF Explained, ScanFits
  <2>5. ScanFits(t, own)'
    BY <2>2, ConstantsAssumption DEF ScanFits
  <2>6. pc'[r] = "log" /\ job'[r] = j
    BY <1>1, <2>2, GoMoves
  <2>7. Story(r, t)'
    BY <2>1, <2>2, <2>3, <2>4, <2>5, <2>6 DEF Story, BeforePCs, AheadPCs, CodePCs, TotalPCs
  <2> QED BY <2>6, <2>7 DEF Tells
<1>16. CASE LogOutcome(r)
  <2>1. PICK own \in Stations : own = j.station
    BY <1>1
  <2>2. /\ pc[r] = "log" /\ UNCHANGED <<progress, scans>> /\ Go(r, "tasks", j)
        /\ latest'[t][own] = j.outcome
        /\ \A s \in Stations \ {own} : latest'[t][s] = latest[t][s]
    BY <1>1, <1>16, <2>1 DEF LogOutcome, TypeOK
  <2>3. /\ (progress[t][own].status = "DONE") <=> (j.outcome \in {"completed", "failed"})
        /\ j.outcome = "failed" => progress[t][own].pts = 0
        /\ \A s \in Stations \ {own} : Explained(t, s)
        /\ \A s \in Stations : ScanFits(t, s)
    BY <1>1, <2>1, <2>2 DEF Story
  <2>4. \A s \in Stations \ {own} : Explained(t, s)'
    BY <2>2, <2>3 DEF Explained
  <2>5. Explained(t, own)'
    BY <2>2, <2>3 DEF Explained
  <2>6. \A s \in Stations : ScanFits(t, s)'
    BY <2>2, <2>3 DEF ScanFits
  <2>7. Fits(t)'
    BY <2>4, <2>5, <2>6 DEF Fits
  <2>8. j.op \notin BulkOps
    BY <1>0, <2>2, StoryKnown DEF Coherent
  <2> QED BY <1>1, <2>2, <2>7, <2>8, GoFits DEF TotalPCs
<1> QED BY <1>4, <1>5, <1>6, <1>7, <1>8, <1>9, <1>10, <1>11, <1>12, <1>13, <1>14, <1>15, <1>16 DEF Task

LEMMA SubmissionTells ==
  ASSUME StoryInv, NEW r \in Slots, Submission(r), NEW t \in Teams, t = job[r].team, t \notin disturbed
  PROVE Tells(r, t)
<1> DEFINE j == job[r]
<1>0. pc[r] # "idle"
  BY DEF Submission, ReadPhoto, SavePhoto, ReadScan, SaveScan, UpsertRow, CountScans, At
<1>1. /\ TypeOK /\ j \in Job /\ j.station \in Stations /\ Phase(r, t) /\ Story(r, t)
      /\ Seen(r) \in Job /\ Seen(r).station = j.station /\ Prepared(r) /\ HuntsOnly
  BY <1>0, StoryKnown, SeenFields
<1>2. pc[r] \in BeforePCs => Fits(t)
  BY <1>1 DEF Story
<1>3. UNCHANGED ledger => SameFor(t) /\ (Fits(t)' <=> Fits(t))
  BY FitsFrame DEF ledger, SameFor
<1>4. UNCHANGED store => UNCHANGED ledger
  BY DEF store, ledger
<1>5. CASE ReadPhoto(r) \/ ReadScan(r)
  <2>1. PICK next \in {"photo", "scan"} : Finish(r) \/ Go(r, next, Seen(r))
    BY <1>5 DEF ReadPhoto, ReadScan
  <2>2. Fits(t)'
    BY <1>2, <1>3, <1>4, <1>5 DEF ReadPhoto, ReadScan, At, BeforePCs
  <2> QED BY <1>1, <2>1, <2>2, GoFits, FinishFits DEF BeforePCs, TotalPCs
<1>6. CASE SavePhoto(r)
  <2>1. Fits(t)' /\ Go(r, "upsert", j)
    BY <1>2, <1>3, <1>6 DEF SavePhoto, BeforePCs, ledger
  <2> QED BY <1>1, <2>1, GoFits DEF AheadPCs, TotalPCs
<1>7. CASE SaveScan(r)
  <2>1. /\ pc[r] = "scan" /\ UNCHANGED <<progress, latest>> /\ Go(r, "upsert", j)
        /\ \A s \in Stations \ {j.station} : scans'[t][s] = scans[t][s]
    BY <1>1, <1>7 DEF SaveScan, TypeOK
  <2>2. \A s \in Stations : Explained(t, s) /\ ScanFits(t, s)
    BY <1>2, <2>1 DEF BeforePCs, Fits
  <2>3. /\ \A s \in Stations : Explained(t, s)'
        /\ \A s \in Stations \ {j.station} : ScanFits(t, s)'
    BY <2>1, <2>2 DEF Explained, ScanFits
  <2>4. pc'[r] = "upsert" /\ job'[r] = j
    BY <1>1, <2>1, GoMoves
  <2>5. Story(r, t)'
    BY <2>3, <2>4 DEF Story, BeforePCs, AheadPCs, CodePCs, TotalPCs
  <2> QED BY <2>4, <2>5 DEF Tells
<1>8. CASE UpsertRow(r)
  <2> DEFINE row == Upserted(progress[j.team][j.station])
             k == [j EXCEPT !.seen = row]
  <2>1. /\ pc[r] = "upsert" /\ UNCHANGED <<latest, scans>>
        /\ progress' = [progress EXCEPT ![j.team][j.station] = row]
        /\ IF j.op = "photo" THEN Finish(r) ELSE Go(r, "count", k)
    BY <1>8 DEF UpsertRow
  <2>2. k.station = j.station /\ row.status = "IN_PROGRESS"
    BY <1>1 DEF Job, Upserted, TypeOK, Row
  <2> HIDE DEF row, k
  <2>3. PICK own \in Stations : own = j.station
    BY <1>1
  <2>4. /\ progress'[t][own] = row
        /\ \A s \in Stations \ {own} : progress'[t][s] = progress[t][s]
    <3>1. progress' = [progress EXCEPT ![t][own] = row]
      BY <2>1, <2>3
    <3> QED BY <1>1, <3>1, OwnRow
  <2>5. /\ progress[t][own].status # "DONE"
        /\ \A s \in Stations : Explained(t, s)
        /\ \A s \in Stations \ {own} : ScanFits(t, s)
    BY <1>1, <2>1, <2>3 DEF Phase, Story, AheadPCs
  <2>6. \A s \in Stations : Explained(t, s)'
    BY <2>1, <2>2, <2>4, <2>5 DEF Explained
  <2>7. \A s \in Stations \ {own} : ScanFits(t, s)'
    BY <2>1, <2>4, <2>5 DEF ScanFits
  <2>8. CASE j.op = "photo"
    <3>1. own \notin QrStations
      BY <1>1, <2>3, <2>8, ConstantsAssumption DEF Prepared
    <3>2. scans[t][own] = {}
      BY <1>1, <3>1 DEF HuntsOnly
    <3>3. ScanFits(t, own)'
      BY <2>1, <3>2, ConstantsAssumption DEF ScanFits
    <3>4. Fits(t)'
      BY <2>6, <2>7, <3>3 DEF Fits
    <3> QED BY <1>1, <2>1, <2>8, <3>4, FinishFits
  <2>9. CASE j.op # "photo"
    <3>1. pc'[r] = "count" /\ job'[r] = k
      BY <1>1, <2>1, <2>9, GoMoves
    <3>2. Story(r, t)'
      BY <2>2, <2>3, <2>4, <2>6, <2>7, <3>1 DEF Story, BeforePCs, AheadPCs, CodePCs, TotalPCs
    <3> QED BY <3>1, <3>2 DEF Tells
  <2> QED BY <2>8, <2>9
<1>9. CASE CountScans(r)
  <2>1. pc[r] = "count" /\ pc[r] \in AheadPCs /\ SameFor(t)
    BY <1>3, <1>4, <1>9 DEF CountScans, AheadPCs
  <2>2. CASE Judge(r, j)
    BY <1>1, <2>1, <2>2, JudgeTells
  <2>3. CASE scans[j.team][j.station] # Labels /\ Finish(r)
    <3>1. ScanFits(t, j.station)
      BY <1>1, <2>1, <2>3 DEF Story, ScanFits
    <3>2. Fits(t)
      BY <1>1, <2>1, <3>1 DEF Story, Fits
    <3> QED BY <1>1, <2>1, <2>3, <3>2, FitsFrame, FinishFits
  <2> QED BY <1>9, <2>2, <2>3 DEF CountScans
<1> QED BY <1>5, <1>6, <1>7, <1>8, <1>9 DEF Submission

LEMMA ClaimTells ==
  ASSUME StoryInv, NEW r \in Slots, Claim(r), NEW t \in Teams, t = job[r].team, t \notin disturbed
  PROVE Tells(r, t)
<1>1. pc[r] # "idle" /\ pc[r] \in CodePCs
  BY DEF Claim, FindCode, CheckFirstTeam, CreateClaim, CodePCs
<1>2. TypeOK /\ Coherent(r) /\ Story(r, t)
  BY <1>1, StoryKnown
<1>3. SameFor(t)
  BY DEF Claim, FindCode, CheckFirstTeam, CreateClaim, store, SameFor
<1>4. Fits(t)'
  BY <1>1, <1>2, <1>3, FitsFrame DEF Story
<1>5. \/ Finish(r)
      \/ \E next \in {"first", "claim", "tasks"} : Go(r, next, job[r])
  BY DEF Claim, FindCode, CheckFirstTeam, CreateClaim
<1>6. job[r].op \notin BulkOps
  BY <1>1, <1>2 DEF Coherent
<1> QED BY <1>2, <1>4, <1>5, <1>6, GoFits, FinishFits DEF CodePCs, TotalPCs

\* Going on after a reset has left the team fresh.
LEMMA GoFresh ==
  ASSUME TypeOK, NEW r \in Slots, NEW t \in Teams, Fresh(t)', NEW k, k.op \in BulkOps,
         NEW next \in TotalPCs \cup {"zero", "reopen", "logAll"},
         pc'[r] = next, job'[r] = k
  PROVE Tells(r, t)
<1>1. Story(r, t)'
  BY DEF Story, BeforePCs, CodePCs, TotalPCs, AheadPCs
<1>2. next # "idle"
  BY DEF TotalPCs
<1> QED BY <1>1, <1>2 DEF Tells

LEMMA NextFresh ==
  ASSUME TypeOK, NEW r \in Slots, NEW t \in Teams, Fresh(t)',
         NEW j \in Job, j.op \in BulkOps, NextTeam(r, j)
  PROVE Tells(r, t)
<1>1. PICK next, k : next \in {"tasks", "logAll"} /\ Go(r, next, k) /\ k.op = j.op
  BY NextTeamGo
<1>2. pc'[r] = next /\ job'[r] = k /\ next \in TotalPCs \cup {"zero", "reopen", "logAll"}
  BY <1>1, GoMoves DEF TotalPCs
<1> QED BY <1>1, <1>2, GoFresh

LEMMA RecalculateTells ==
  ASSUME StoryInv, NEW r \in Slots, Recalculate(r), NEW t \in Teams, t \notin disturbed,
         t = job[r].team \/ job[r].op \in BulkOps
  PROVE Tells(r, t)
<1> DEFINE j == job[r]
<1>1. pc[r] # "idle" /\ pc[r] \in TotalPCs
  BY DEF Recalculate, ReadTasks, ReadClaims, WriteTotal, TotalPCs
<1>2. TypeOK /\ Story(r, t) /\ j \in Job /\ j.op # "resetGame"
  BY <1>1, StoryKnown DEF Coherent
<1>3. SameFor(t)
  BY DEF Recalculate, ReadTasks, ReadClaims, WriteTotal, store, SameFor
<1>4. IF j.op \in BulkOps THEN Fresh(t)' ELSE Fits(t)'
  BY <1>1, <1>2, <1>3, FitsFrame DEF Story
<1>5. CASE ReadTasks(r) \/ ReadClaims(r)
  <2>1. PICK next, k : next \in {"claims", "total"} /\ Go(r, next, k) /\ k.op = j.op
    <3>1. CASE ReadTasks(r)
      BY <1>2, <3>1 DEF ReadTasks, Job
    <3>2. CASE ReadClaims(r)
      BY <1>2, <3>2 DEF ReadClaims, Job
    <3> QED BY <1>5, <3>1, <3>2
  <2>2. pc'[r] = next /\ job'[r] = k /\ next \in TotalPCs
    BY <1>2, <2>1, GoMoves DEF TotalPCs
  <2> QED BY <1>2, <1>4, <2>1, <2>2, GoFresh, GoFits
<1>6. CASE WriteTotal(r)
  <2>1. CASE j.op \in BulkOps
    BY <1>2, <1>4, <1>6, <2>1, NextFresh DEF WriteTotal, BulkOps
  <2>2. CASE j.op \notin BulkOps
    BY <1>2, <1>4, <1>6, <2>2, FinishFits DEF WriteTotal, BulkOps
  <2> QED BY <2>1, <2>2
<1> QED BY <1>5, <1>6 DEF Recalculate

LEMMA ResetTells ==
  ASSUME StoryInv, NEW r \in Slots, Reset(r), NEW t \in Teams, t \notin disturbed
  PROVE Tells(r, t)
<1> DEFINE j == job[r]
<1>1. /\ pc[r] \in {"find", "resetAll", "clearAll", "wipe", "zero", "reopen", "logAll"}
      /\ pc[r] # "idle"
  BY DEF Reset, FindResettable, ResetRows, ClearFoundScans, Wipe, ZeroTotals, Reopen, LogReset
<1>2. TypeOK /\ j \in Job /\ j.op \in BulkOps /\ Story(r, t)
  BY <1>1, StoryKnown DEF Coherent, BulkOps
<1>3. CASE FindResettable(r)
  <2>1. pc[r] = "find" /\ SameFor(t) /\ Fits(t)
    BY <1>2, <1>3 DEF FindResettable, store, SameFor, Story
  <2>2. CASE Finish(r)
    BY <1>2, <2>1, <2>2, FitsFrame, FinishFits
  <2>3. CASE Go(r, "resetAll", [j EXCEPT !.found = Resettable])
    <3> DEFINE k == [j EXCEPT !.found = Resettable]
    <3>1. k.found = Resettable
      BY <1>2 DEF Job
    <3>2. \A s \in Stations : progress[t][s].status \in {"DONE", "IN_PROGRESS"} => <<t, s>> \in k.found
      BY <3>1 DEF Resettable
    <3> HIDE DEF k
    <3>3. Go(r, "resetAll", k)
      BY <2>3 DEF k
    <3>4. pc'[r] = "resetAll" /\ job'[r] = k
      BY <1>2, <3>3, GoMoves
    <3>5. Fits(t)'
      BY <2>1, FitsFrame
    <3>6. Story(r, t)'
      BY <2>1, <3>2, <3>4, <3>5 DEF Story, SameFor, BeforePCs, CodePCs, TotalPCs, AheadPCs
    <3> QED BY <3>4, <3>6 DEF Tells
  <2> QED BY <1>3, <2>2, <2>3 DEF FindResettable
<1>4. CASE ResetRows(r)
  <2>1. pc[r] = "resetAll" /\ UNCHANGED <<latest, scans>> /\ Go(r, "clearAll", j)
    BY <1>4 DEF ResetRows
  <2>2. pc'[r] = "clearAll" /\ job'[r] = j
    BY <1>2, <2>1, GoMoves
  <2>3. /\ Fits(t)
        /\ \A s \in Stations : progress[t][s].status \in {"DONE", "IN_PROGRESS"} => <<t, s>> \in j.found
    BY <1>2, <2>1 DEF Story
  <2>4. ASSUME NEW s \in Stations
        PROVE progress'[t][s].status # "DONE" /\ (scans[t][s] # {} => <<t, s>> \in j.found)
    <3>1. progress[t][s] \in Row
      BY <1>2 DEF TypeOK
    <3>2. progress'[t][s] =
            IF progress[t][s].status \in {"DONE", "IN_PROGRESS"}
            THEN [progress[t][s] EXCEPT !.status = "TODO", !.pts = 0, !.started = FALSE]
            ELSE progress[t][s]
      BY <1>4 DEF ResetRows
    <3>3. [progress[t][s] EXCEPT !.status = "TODO", !.pts = 0, !.started = FALSE].status = "TODO"
      BY <3>1 DEF Row
    <3> QED BY <2>3, <3>2, <3>3 DEF Fits, ScanFits
  <2>5. Story(r, t)'
    BY <2>1, <2>2, <2>4 DEF Story, BeforePCs, CodePCs, TotalPCs, AheadPCs
  <2> QED BY <2>2, <2>5 DEF Tells
<1>5. CASE ClearFoundScans(r)
  <2> DEFINE k == [j EXCEPT !.left = {p[1] : p \in j.found}]
  <2>1. pc[r] = "clearAll" /\ UNCHANGED progress /\ NextTeam(r, k)
    BY <1>5 DEF ClearFoundScans
  <2>2. {p[1] : p \in j.found} \in SUBSET Teams
    BY <1>2 DEF Job
  <2>3. k \in Job /\ k.op = j.op
    BY <1>2, <2>2 DEF Job
  <2>4. \A s \in Stations : scans'[t][s] = IF <<t, s>> \in j.found THEN {} ELSE scans[t][s]
    BY <1>5 DEF ClearFoundScans
  <2>5. Fresh(t)'
    BY <1>2, <2>1, <2>4 DEF Story, Fresh
  <2> HIDE DEF k
  <2> QED BY <1>2, <2>1, <2>3, <2>5, NextFresh
<1>6. CASE Wipe(r)
  <2>1. Go(r, "zero", j) /\ Fresh(t)'
    BY <1>6 DEF Wipe, Fresh, NoRow
  <2>2. pc'[r] = "zero" /\ job'[r] = j
    BY <1>2, <2>1, GoMoves
  <2> QED BY <1>2, <2>1, <2>2, GoFresh
<1>7. CASE ZeroTotals(r)
  <2>1. pc'[r] = "reopen" /\ job'[r] = j /\ SameFor(t) /\ pc[r] = "zero"
    BY <1>2, <1>7 DEF ZeroTotals, TypeOK, SameFor
  <2>2. Fresh(t)'
    BY <1>2, <2>1, FitsFrame DEF Story
  <2> QED BY <1>2, <2>1, <2>2, GoFresh
<1>8. CASE Reopen(r)
  <2>1. Go(r, "logAll", j) /\ SameFor(t) /\ pc[r] = "reopen"
    BY <1>8 DEF Reopen, SameFor
  <2>2. Fresh(t)'
    BY <1>2, <2>1, FitsFrame DEF Story
  <2>3. pc'[r] = "logAll" /\ job'[r] = j
    BY <1>2, <2>1, GoMoves
  <2> QED BY <1>2, <2>2, <2>3, GoFresh
<1>9. CASE LogReset(r)
  <2>1. Fresh(t) /\ UNCHANGED <<progress, scans>> /\ Finish(r)
        /\ \A s \in Stations : latest'[t][s] = "none"
    BY <1>2, <1>9 DEF LogReset, Story
  <2>2. Fits(t)'
    BY <2>1, ConstantsAssumption DEF Fresh, Fits, Explained, ScanFits
  <2> QED BY <1>2, <2>1, <2>2, FinishFits
<1> QED BY <1>3, <1>4, <1>5, <1>6, <1>7, <1>8, <1>9 DEF Reset

-----------------------------------------------------------------------------
(* What the handlers leave alone.                                          *)

\* Events and scans of other teams are left alone, and only hunts are scanned.
LEMMA OthersLeft ==
  ASSUME StoryInv, NEW r \in Slots, Task(r) \/ Submission(r) \/ Claim(r) \/ Recalculate(r)
  PROVE /\ \A t \in Teams \ {job[r].team} : latest'[t] = latest[t] /\ scans'[t] = scans[t]
        /\ HuntsOnly'
<1> DEFINE j == job[r]
<1>1. TypeOK /\ HuntsOnly /\ Prepared(r) /\ j \in Job /\ j.team \in Teams /\ j.station \in Stations
  BY SeenType DEF StoryInv, StuckInv, HuntsOnly
<1>2. CASE SaveScan(r)
  <2>1. j.station \in QrStations
    BY <1>1, <1>2 DEF SaveScan, Prepared
  <2> QED BY <1>1, <1>2, <2>1 DEF SaveScan, TypeOK, HuntsOnly
<1>3. CASE ClearScans(r)
  <2>1. \A t \in Teams, s \in Stations : scans'[t][s] = scans[t][s] \/ scans'[t][s] = {}
    BY <1>1, <1>3 DEF ClearScans, TypeOK
  <2> QED BY <1>1, <1>3, <2>1 DEF ClearScans, TypeOK, HuntsOnly
<1>4. CASE LogOutcome(r)
  BY <1>1, <1>4 DEF LogOutcome, TypeOK, HuntsOnly
<1>5. CASE UNCHANGED <<latest, scans>>
  BY <1>1, <1>5 DEF HuntsOnly
<1>6. CASE Task(r)
  BY <1>3, <1>4, <1>5, <1>6
     DEF Task, ReadStart, CheckBusy, WriteStarted, ReadComplete, CheckBonus, Finalize, ReadFail,
         MarkFailed, ReadContext, AdminComplete, AdminReset, Save, store
<1>7. CASE Submission(r)
  BY <1>2, <1>5, <1>7
     DEF Submission, ReadPhoto, SavePhoto, ReadScan, UpsertRow, CountScans, store
<1>8. CASE Claim(r) \/ Recalculate(r)
  BY <1>5, <1>8 DEF Claim, FindCode, CheckFirstTeam, CreateClaim,
                    Recalculate, ReadTasks, ReadClaims, WriteTotal, store
<1> QED BY <1>6, <1>7, <1>8

LEMMA ResetHunts ==
  ASSUME StoryInv, NEW r \in Slots, Reset(r)
  PROVE HuntsOnly'
<1>1. \A t \in Teams, s \in Stations : scans'[t][s] = scans[t][s] \/ scans'[t][s] = {}
  BY DEF Reset, FindResettable, ResetRows, ClearFoundScans, Wipe, ZeroTotals, Reopen, LogReset, store
<1> QED BY <1>1 DEF HuntsOnly, StoryInv

LEMMA ServeStory ==
  ASSUME StoryInv, IInv', StuckInv', NEW r \in Slots, Serve(r)
  PROVE StoryInv'
<1>1. Local(r) \/ Global(r)
  BY TaskLocal, SubmissionLocal, ClaimLocal, Gathers, Totals, ResetGlobal
     DEF Serve, Recalculate, StoryInv
<1>2. HuntsOnly'
  BY OthersLeft, ResetHunts DEF Serve
<1>3. CASE Local(r)
  <2>1. ~Reset(r)
    <3>1. Reset(r) => Global(r)
      BY ResetGlobal DEF StoryInv
    <3> QED BY <1>3, <3>1 DEF Local, Global
  <2>2. \A t \in Teams \ {job[r].team} : SameFor(t)
    BY <1>3, <2>1, OthersLeft DEF Serve, Local, SameFor
  <2>3. \A t \in Teams : t = job[r].team /\ t \notin disturbed => Tells(r, t)
    BY <2>1, TaskTells, SubmissionTells, ClaimTells, RecalculateTells DEF Serve
  <2> QED BY <1>2, <1>3, <2>2, <2>3, LocalStory
<1>4. CASE Global(r)
  <2>1. job[r].op \in BulkOps /\ disturbed \subseteq disturbed'
    BY <1>4 DEF Global
  <2>2. Recalculate(r) \/ Reset(r)
    <3>1. Task(r) \/ Submission(r) \/ Claim(r) => Local(r)
      BY TaskLocal, SubmissionLocal, ClaimLocal DEF StoryInv
    <3> QED BY <1>4, <3>1 DEF Serve, Local, Global
  <2>3. \A t \in Teams : t \notin disturbed' => Tells(r, t)
    BY <2>1, <2>2, RecalculateTells, ResetTells
  <2> QED BY <1>2, <1>4, <2>3, GlobalStory
<1> QED BY <1>1, <1>3, <1>4

\* A request is accepted for teams that are idle, or disturbed from now on.
LEMMA ReceiveStory ==
  ASSUME StoryInv, IInv', StuckInv', NEW r \in Slots, Receive(r)
  PROVE StoryInv'
<1>1. PICK first, j, T :
        /\ Accept(r, first, j, T) /\ first \in {"read", "code", "find", "wipe"}
        /\ (j.op \in BulkOps /\ T = Teams) \/ (j.op \notin BulkOps /\ T = {j.team})
  <2>1. ASSUME NEW op \in DeviceOps \cup AdminOps, NEW t \in Teams, NEW s, ReceiveTask(r, op, t, s)
        PROVE \E first, j, T :
                /\ Accept(r, first, j, T) /\ first \in {"read", "code", "find", "wipe"}
                /\ (j.op \in BulkOps /\ T = Teams) \/ (j.op \notin BulkOps /\ T = {j.team})
    <3> DEFINE j == [NoJob EXCEPT !.op = op, !.team = t, !.station = s]
    <3>1. j.op \notin BulkOps /\ j.team = t
      BY DEF NoJob, DeviceOps, AdminOps, BulkOps
    <3>2. Accept(r, "read", j, {j.team})
      BY <2>1, <3>1 DEF ReceiveTask
    <3> HIDE DEF j
    <3> QED BY <3>1, <3>2
  <2>2. ASSUME NEW t \in Teams, NEW s \in Stations, NEW label \in Labels, ReceiveScan(r, t, s, label)
        PROVE \E first, j, T :
                /\ Accept(r, first, j, T) /\ first \in {"read", "code", "find", "wipe"}
                /\ (j.op \in BulkOps /\ T = Teams) \/ (j.op \notin BulkOps /\ T = {j.team})
    <3> DEFINE j == [NoJob EXCEPT !.op = "scan", !.team = t, !.station = s, !.label = label]
    <3>1. j.op \notin BulkOps /\ j.team = t
      BY DEF NoJob, BulkOps
    <3>2. Accept(r, "read", j, {j.team})
      BY <2>2, <3>1 DEF ReceiveScan
    <3> HIDE DEF j
    <3> QED BY <3>1, <3>2
  <2>3. ASSUME NEW t \in Teams, NEW c \in Codes, ReceiveCode(r, t, c)
        PROVE \E first, j, T :
                /\ Accept(r, first, j, T) /\ first \in {"read", "code", "find", "wipe"}
                /\ (j.op \in BulkOps /\ T = Teams) \/ (j.op \notin BulkOps /\ T = {j.team})
    <3> DEFINE j == [NoJob EXCEPT !.op = "claim", !.team = t, !.code = c]
    <3>1. j.op \notin BulkOps /\ j.team = t
      BY DEF NoJob, BulkOps
    <3>2. Accept(r, "code", j, {j.team})
      BY <2>3, <3>1 DEF ReceiveCode
    <3> HIDE DEF j
    <3> QED BY <3>1, <3>2
  <2>4. CASE ReceiveResetTasks(r) \/ ReceiveResetGame(r)
    <3>1. \A op \in BulkOps : [NoJob EXCEPT !.op = op].op \in BulkOps
      BY DEF NoJob
    <3>2. PICK first, op : /\ first \in {"find", "wipe"} /\ op \in BulkOps
                           /\ Accept(r, first, [NoJob EXCEPT !.op = op], Teams)
      BY <2>4 DEF ReceiveResetTasks, ReceiveResetGame, BulkOps
    <3> QED BY <3>1, <3>2
  <2> QED BY <2>1, <2>2, <2>3, <2>4 DEF Receive
<1>2. /\ pc[r] = "idle" /\ pc'[r] = first /\ job'[r] = j /\ UNCHANGED ledger
      /\ \A q \in Slots \ {r} : pc'[q] = pc[q] /\ job'[q] = job[q]
      /\ disturbed' = disturbed \cup {t \in T : ~Idle(t)}
  BY <1>1 DEF Accept, store, ledger, StoryInv, IInv, TypeOK
<1>3. ASSUME NEW t \in Teams, t \notin disturbed' PROVE Told(t)'
  <2>1. Told(t) /\ SameFor(t)
    BY <1>2, <1>3 DEF StoryInv, ledger, SameFor
  <2>2. Fits(t)' <=> Fits(t)
    BY <2>1, FitsFrame
  <2>3. \A q \in Slots \ {r} : BusyOn(q, t)' <=> BusyOn(q, t)
    BY <1>2 DEF BusyOn
  <2>4. ASSUME NEW q \in Slots \ {r}, BusyOn(q, t) PROVE Story(q, t)'
    BY <1>2, <2>1, <2>4, StoryFrame DEF Told
  <2>5. CASE t \in T
    <3>1. Idle(t) /\ Fits(t)
      BY <1>2, <1>3, <2>1, <2>5 DEF Told
    <3>2. Story(r, t)'
      BY <1>1, <1>2, <2>2, <3>1 DEF Story, BeforePCs, CodePCs, TotalPCs, AheadPCs
    <3>3. \A q \in Slots \ {r} : ~BusyOn(q, t)'
      BY <2>3, <3>1 DEF Idle
    <3>4. BusyOn(r, t)'
      BY <1>1, <1>2, <2>5 DEF BusyOn
    <3> QED BY <3>2, <3>3, <3>4 DEF Told, Idle
  <2>6. CASE t \notin T
    <3>1. ~BusyOn(r, t)' /\ ~BusyOn(r, t)
      BY <1>1, <1>2, <2>6 DEF BusyOn
    <3> QED BY <2>1, <2>2, <2>3, <2>4, <3>1 DEF Told, Idle
  <2> QED BY <2>5, <2>6
<1>4. HuntsOnly'
  BY <1>2 DEF StoryInv, HuntsOnly, ledger
<1> QED BY <1>3, <1>4 DEF StoryInv, HuntsOnly

LEMMA StoryInit == Init => StoryInv
<1> SUFFICES ASSUME Init PROVE StoryInv
  OBVIOUS
<1>1. IInv /\ StuckInv
  BY InitIInv, StuckInit
<1>2. \A r \in Slots, t \in Teams : ~BusyOn(r, t)
  BY DEF Init, BusyOn
<1>3. \A t \in Teams : Fits(t)
  BY ConstantsAssumption DEF Init, Fits, Explained, ScanFits, NoRow
<1> QED BY <1>1, <1>2, <1>3 DEF StoryInv, Told, Init

LEMMA StoryStep == StoryInv /\ [Next]_vars => StoryInv'
<1> SUFFICES ASSUME StoryInv, [Next]_vars PROVE StoryInv'
  OBVIOUS
<1>1. IInv' /\ StuckInv'
  BY IInvStep, StuckNext DEF StoryInv
<1>2. ASSUME NEW r \in Slots, Receive(r) \/ Serve(r) PROVE StoryInv'
  BY <1>1, <1>2, ReceiveStory, ServeStory
<1>3. CASE FinishGame \/ (\E c \in Codes : DeleteCode(c)) \/ UNCHANGED vars
  <2>1. UNCHANGED ledger /\ UNCHANGED <<pc, job>> /\ disturbed \subseteq disturbed'
    BY <1>3 DEF FinishGame, DeleteCode, vars, store, ledger
  <2>2. ASSUME NEW t \in Teams, t \notin disturbed' PROVE Told(t)'
    <3>1. Told(t) /\ SameFor(t)
      BY <2>1, <2>2 DEF StoryInv, ledger, SameFor
    <3>2. \A q \in Slots : BusyOn(q, t)' <=> BusyOn(q, t)
      BY <2>1 DEF BusyOn
    <3>3. ASSUME NEW q \in Slots, BusyOn(q, t) PROVE Story(q, t)'
      BY <2>1, <3>1, <3>3, StoryFrame DEF Told
    <3> QED BY <3>1, <3>2, <3>3, FitsFrame DEF Told, Idle
  <2>3. HuntsOnly'
    BY <2>1 DEF StoryInv, HuntsOnly, ledger
  <2> QED BY <1>1, <2>2, <2>3 DEF StoryInv, HuntsOnly
<1>4. CASE Crash
  <2>1. /\ \A q \in Slots : pc'[q] = "idle" /\ job'[q] = NoJob
        /\ disturbed' = disturbed \cup {t \in Teams : ~Idle(t)} /\ UNCHANGED ledger
    BY <1>4 DEF Crash, store, ledger
  <2>2. ASSUME NEW t \in Teams, t \notin disturbed' PROVE Told(t)'
    <3>1. Fits(t) /\ SameFor(t)
      BY <2>1, <2>2 DEF StoryInv, Told, ledger, SameFor
    <3>2. \A q \in Slots : ~BusyOn(q, t)'
      BY <2>1 DEF BusyOn
    <3> QED BY <3>1, <3>2, FitsFrame DEF Told
  <2>3. HuntsOnly'
    BY <2>1 DEF StoryInv, HuntsOnly, ledger
  <2> QED BY <1>1, <2>2, <2>3 DEF StoryInv, HuntsOnly
<1> QED BY <1>2, <1>3, <1>4 DEF Next, Rest

LEMMA StoryOutcomes == StoryInv => OutcomesExplained
BY DEF StoryInv, Told, Fits, Explained, OutcomesExplained, Undisturbed

LEMMA StoryScans == StoryInv => ScansExplained
BY DEF StoryInv, Told, Fits, ScanFits, ScansExplained, Undisturbed

\* The event log tells what the rows say: a task counts as completed or failed exactly
\* if its row is DONE, and a failed one earns nothing, for every team whose handlers
\* ran one at a time to their end, whatever the handlers of other teams did meanwhile.
THEOREM OutcomesCorrect == Spec => []OutcomesExplained
BY StoryInit, StoryStep, StoryOutcomes, PTL DEF Spec

\* The scan log of a hunt agrees with its row, under the same overlaps: no reset leaves
\* scans behind, and the scan of the last label has decided the task.
THEOREM ScansCorrect == Spec => []ScansExplained
BY StoryInit, StoryStep, StoryScans, PTL DEF Spec

-----------------------------------------------------------------------------
(* Requests served one at a time. What only the first team gets is checked *)
(* and then written, so it is the first team's only if no other handler    *)
(* comes between the check and the write.                                  *)

OneAtATime == \A r, q \in Slots : r = q

\* What a handler at place p with job j knows of the rows and claims, when it is alone.
KnowsAt(p, j) ==
  LET row == progress[j.team][j.station]
      others == Teams \ {j.team}
  IN /\ p \in RowPCs \ {"read"} => j.seen = row
     /\ p \in {"busy", "start", "photo", "scan", "upsert"} => row.status # "DONE"
     /\ p = "start" /\ j.station \notin SharedStations =>
          \A u \in others : progress[u][j.station].status # "IN_PROGRESS"
     /\ p = "bonus" => j.award \in Awards[j.station]
     /\ p = "finalize" =>
          \/ j.award \in Awards[j.station]
          \/ \A u \in others : progress[u][j.station].status # "DONE"
     /\ p = "claim" /\ j.code \in FirstTeamCodes => \A t \in Teams : j.code \notin claims[t]

\* An open row is worth nothing yet.
OpenWorthNothing ==
  \A t \in Teams, s \in Stations : progress[t][s].status # "DONE" => progress[t][s].pts = 0

Fair == OpenWorthNothing /\ ExclusiveUse /\ OneBonus /\ FirstTeamOnly

SerialInv ==
  /\ StoryInv
  /\ \A r \in Slots : KnowsAt(pc[r], job[r])
  /\ Fair

LEMMA FairFrame ==
  ASSUME Fair, UNCHANGED progress, \A t \in Teams : claims'[t] \subseteq claims[t]
  PROVE Fair'
<1>1. OpenWorthNothing'
  BY DEF Fair, OpenWorthNothing
<1>2. ExclusiveUse'
  BY DEF Fair, ExclusiveUse
<1>3. OneBonus'
  BY DEF Fair, OneBonus, HasBonus
<1>4. FirstTeamOnly'
  BY DEF Fair, FirstTeamOnly
<1> QED BY <1>1, <1>2, <1>3, <1>4 DEF Fair

\* The handler goes on, or is done, without touching rows or claims.
LEMMA SerialGo ==
  ASSUME SerialInv, StoryInv', OneAtATime, NEW r \in Slots, NEW next, NEW k, Go(r, next, k),
         UNCHANGED <<progress, claims>>, KnowsAt(next, k)
  PROVE SerialInv'
<1>1. pc'[r] = next /\ job'[r] = k
  BY GoMoves DEF SerialInv, StoryInv, IInv
<1>2. KnowsAt(pc[r], job[r])'
  BY <1>1 DEF KnowsAt
<1>3. \A q \in Slots : KnowsAt(pc[q], job[q])'
  BY <1>2 DEF OneAtATime
<1>4. Fair'
  BY FairFrame DEF SerialInv
<1> QED BY <1>3, <1>4 DEF SerialInv

\* Places at which a handler need not know anything.
LEMMA KnowsNothing ==
  ASSUME NEW p, p \notin (RowPCs \ {"read"}) \cup {"claim"}, NEW k
  PROVE KnowsAt(p, k)
BY DEF KnowsAt, RowPCs

LEMMA SerialFinish ==
  ASSUME SerialInv, StoryInv', OneAtATime, NEW r \in Slots, Finish(r), UNCHANGED <<progress, claims>>
  PROVE SerialInv'
BY SerialGo, KnowsNothing DEF Finish, RowPCs

\* Status and points that keep the firsts when they are written to a row.
FitsRow(t, s, status, pts) ==
  LET others == Teams \ {t}
  IN /\ status # "DONE" => pts = 0
     /\ status = "IN_PROGRESS" /\ s \notin SharedStations \cup QrStations \cup PhotoStations =>
          \A u \in others : progress[u][s].status # "IN_PROGRESS"
     /\ \/ pts \in Awards[s] \cup {0, AdminAward[s]}
        \/ \A u \in others : progress[u][s].status # "DONE"

\* One row is written.
LEMMA FairRow ==
  ASSUME Fair, TypeOK, NEW t \in Teams, NEW s \in Stations, NEW row,
         progress' = [progress EXCEPT ![t][s] = row], UNCHANGED claims,
         FitsRow(t, s, row.status, row.pts)
  PROVE Fair'
<1> USE DEF FitsRow
<1>1. \A u \in Teams, x \in Stations :
         progress'[u][x] = IF u = t /\ x = s THEN row ELSE progress[u][x]
  BY DEF TypeOK
<1>2. OpenWorthNothing'
  BY <1>1 DEF Fair, OpenWorthNothing
<1>3. ExclusiveUse'
  BY <1>1 DEF Fair, ExclusiveUse
<1>4. OneBonus'
  <2>1. \A u \in Teams \ {t} : HasBonus(u, s) => progress[u][s].status = "DONE"
    BY DEF Fair, OpenWorthNothing, HasBonus
  <2>2. ASSUME NEW x \in BonusStations, NEW u \in Teams, NEW v \in Teams,
               HasBonus(u, x)', HasBonus(v, x)'
        PROVE u = v
    <3>1. x \in Stations
      BY ConstantsAssumption
    <3>2. CASE x # s
      BY <1>1, <2>2, <3>1, <3>2 DEF Fair, OneBonus, HasBonus
    <3>3. CASE x = s
      <4>1. ASSUME NEW w \in Teams \ {t} PROVE HasBonus(w, s)' <=> HasBonus(w, s)
        BY <1>1 DEF HasBonus
      <4>2. HasBonus(t, s)' => \A w \in Teams \ {t} : ~HasBonus(w, s)
        BY <1>1, <2>1 DEF HasBonus
      <4> QED BY <2>2, <3>3, <4>1, <4>2 DEF Fair, OneBonus
    <3> QED BY <3>2, <3>3
  <2> QED BY <2>2 DEF OneBonus
<1>5. FirstTeamOnly'
  BY DEF Fair, FirstTeamOnly
<1> QED BY <1>2, <1>3, <1>4, <1>5 DEF Fair

\* A handler writes its row, and goes on or is done.
LEMMA SerialRow ==
  ASSUME SerialInv, StoryInv', OneAtATime, NEW r \in Slots, NEW row, NEW next, NEW k,
         progress' = [progress EXCEPT ![job[r].team][job[r].station] = row], UNCHANGED claims,
         Go(r, next, k), next \in {"idle", "clear", "log"} \/ (next = "count" /\ k.seen = row
                                     /\ k.team = job[r].team /\ k.station = job[r].station),
         FitsRow(job[r].team, job[r].station, row.status, row.pts)
  PROVE SerialInv'
<1>1. TypeOK /\ job[r].team \in Teams /\ job[r].station \in Stations
  BY SeenType DEF SerialInv, StoryInv, IInv
<1>2. PICK t \in Teams, s \in Stations : t = job[r].team /\ s = job[r].station
  BY <1>1
<1>3. progress' = [progress EXCEPT ![t][s] = row]
  BY <1>2
<1>4. Fair'
  <2>1. FitsRow(t, s, row.status, row.pts)
    BY <1>2
  <2>2. Fair /\ TypeOK
    BY <1>1 DEF SerialInv
  <2> QED BY <1>3, <2>1, <2>2, FairRow
<1>5. pc'[r] = next /\ job'[r] = k
  BY <1>1, GoMoves
<1>6. progress'[t][s] = row
  BY <1>1, <1>3 DEF TypeOK
<1>7. KnowsAt(pc[r], job[r])'
  BY <1>2, <1>5, <1>6 DEF KnowsAt, RowPCs
<1>8. \A q \in Slots : KnowsAt(pc[q], job[q])'
  BY <1>7 DEF OneAtATime
<1> QED BY <1>4, <1>8 DEF SerialInv

\* Saving a decision or a reset.
LEMMA SerialSave ==
  ASSUME SerialInv, StoryInv', OneAtATime, NEW r \in Slots, pc[r] \in RowPCs \ {"read"},
         NEW status, NEW pts, NEW started, NEW next \in {"idle", "clear", "log"}, NEW outcome,
         Save(r, status, pts, started, next, outcome),
         FitsRow(job[r].team, job[r].station, status, pts)
  PROVE SerialInv'
<1> DEFINE j == job[r]
           new == [status |-> status, pts |-> pts, started |-> started,
                   id |-> IF progress[j.team][j.station].status = "none" THEN epoch
                          ELSE progress[j.team][j.station].id]
<1>1. KnowsAt(pc[r], j)
  BY DEF SerialInv
<1>2. progress[j.team][j.station].id = j.seen.id
  BY <1>1 DEF KnowsAt
<1>3. /\ progress' = [progress EXCEPT ![j.team][j.station] = new] /\ UNCHANGED claims
      /\ IF next = "idle" THEN Finish(r) ELSE Go(r, next, [j EXCEPT !.outcome = outcome])
  BY <1>2 DEF Save
<1>4. new.status = status /\ new.pts = pts
  OBVIOUS
<1> HIDE DEF new
<1>5. PICK k : Go(r, next, k)
  BY <1>3 DEF Finish
<1> QED BY <1>3, <1>4, <1>5, SerialRow

LEMMA SerialJudge ==
  ASSUME SerialInv, StoryInv', OneAtATime, NEW r \in Slots, NEW j \in Job, Judge(r, j),
         UNCHANGED <<progress, claims>>, j.seen = progress[j.team][j.station]
  PROVE SerialInv'
<1>1. CASE Go(r, "fail", j)
  <2>1. KnowsAt("fail", j)
    BY DEF KnowsAt
  <2> QED BY <1>1, <2>1, SerialGo
<1>2. ASSUME NEW a \in Awards[j.station],
             Go(r, IF j.station \in BonusStations THEN "bonus" ELSE "finalize",
                [j EXCEPT !.award = a])
      PROVE SerialInv'
  <2> DEFINE k == [j EXCEPT !.award = a]
  <2>1. k.team = j.team /\ k.station = j.station /\ k.seen = j.seen /\ k.award = a
    BY DEF Job
  <2> HIDE DEF k
  <2>2. KnowsAt("bonus", k) /\ KnowsAt("finalize", k)
    BY <2>1 DEF KnowsAt
  <2> QED BY <1>2, <2>2, SerialGo DEF k
<1> QED BY <1>1, <1>2 DEF Judge

LEMMA SerialTask ==
  ASSUME SerialInv, StoryInv', OneAtATime, NEW r \in Slots, Task(r)
  PROVE SerialInv'
<1> DEFINE j == job[r]
<1>1. /\ TypeOK /\ j \in Job /\ j.team \in Teams /\ j.station \in Stations /\ Prepared(r)
      /\ KnowsAt(pc[r], j) /\ Fair
  BY SeenType DEF SerialInv, StoryInv, StuckInv, IInv
<1>2. /\ Seen(r) \in Job /\ Seen(r).team = j.team /\ Seen(r).station = j.station
      /\ Seen(r).seen = progress[j.team][j.station]
  BY <1>1, SeenFields DEF Seen, Job
<1>3. UNCHANGED store => UNCHANGED <<progress, claims>>
  BY DEF store
<1>4. CASE ReadStart(r)
  <2>1. CASE Finish(r)
    BY <1>3, <1>4, <2>1, SerialFinish DEF ReadStart
  <2>2. CASE ~Decided(Seen(r).seen)
             /\ Go(r, IF Seen(r).station \in SharedStations THEN "start" ELSE "busy", Seen(r))
    <3>1. KnowsAt("busy", Seen(r)) /\ (Seen(r).station \in SharedStations => KnowsAt("start", Seen(r)))
      BY <1>2, <2>2 DEF KnowsAt, Decided
    <3> QED BY <1>3, <1>4, <2>2, <3>1, SerialGo DEF ReadStart
  <2> QED BY <1>4, <2>1, <2>2 DEF ReadStart
<1>5. CASE CheckBusy(r)
  <2>1. CASE Finish(r)
    BY <1>3, <1>5, <2>1, SerialFinish DEF CheckBusy
  <2>2. CASE ~InUse(j.team, j.station) /\ Go(r, "start", j)
    <3>1. KnowsAt("start", j)
      BY <1>1, <1>5, <2>2 DEF KnowsAt, InUse, CheckBusy, RowPCs
    <3> QED BY <1>3, <1>5, <2>2, <3>1, SerialGo DEF CheckBusy
  <2> QED BY <1>5, <2>1, <2>2 DEF CheckBusy
<1>6. CASE WriteStarted(r)
  <2>1. pc[r] = "start" /\ pc[r] \in RowPCs \ {"read"}
    BY <1>6 DEF WriteStarted, RowPCs
  <2>2. progress[j.team][j.station].pts = 0
    BY <1>1, <2>1 DEF KnowsAt, Fair, OpenWorthNothing
  <2>3. j.station \notin SharedStations =>
           \A u \in Teams \ {j.team} : progress[u][j.station].status # "IN_PROGRESS"
    BY <1>1, <2>1 DEF KnowsAt
  <2> QED BY <1>6, <2>1, <2>2, <2>3, SerialSave DEF WriteStarted, FitsRow
<1>7. CASE ReadComplete(r)
  BY <1>2, <1>3, <1>7, SerialJudge, SerialFinish DEF ReadComplete
<1>8. CASE CheckBonus(r)
  <2> DEFINE beaten == \E u \in Teams \ {j.team} : Decided(progress[u][j.station])
             n == IF beaten THEN j.award ELSE j.award + BonusAward[j.station]
             k == [j EXCEPT !.award = n]
  <2>1. k.team = j.team /\ k.station = j.station /\ k.seen = j.seen /\ k.award = n
    BY <1>1 DEF Job
  <2>2. Go(r, "finalize", k) /\ pc[r] = "bonus"
    BY <1>8 DEF CheckBonus
  <2>3. n \in Awards[j.station] \/ \A u \in Teams \ {j.team} : progress[u][j.station].status # "DONE"
    BY <1>1, <2>2 DEF KnowsAt, Decided
  <2> HIDE DEF k, n
  <2>4. KnowsAt("finalize", k)
    BY <1>1, <2>1, <2>2, <2>3 DEF KnowsAt, RowPCs
  <2> QED BY <1>3, <1>8, <2>2, <2>4, SerialGo DEF CheckBonus
<1>9. CASE Finalize(r)
  <2>1. j.award \in Awards[j.station]
          \/ \A u \in Teams \ {j.team} : progress[u][j.station].status # "DONE"
    BY <1>1, <1>9 DEF KnowsAt, Finalize
  <2> QED BY <1>9, <2>1, SerialSave DEF Finalize, RowPCs, FitsRow
<1>10. CASE ReadFail(r)
  <2>1. KnowsAt("fail", Seen(r))
    BY <1>2 DEF KnowsAt
  <2> QED BY <1>3, <1>10, <2>1, SerialGo, SerialFinish DEF ReadFail
<1>11. CASE MarkFailed(r)
  BY <1>11, SerialSave DEF MarkFailed, RowPCs, FitsRow
<1>12. CASE ReadContext(r)
  <2>1. KnowsAt("fail", Seen(r)) /\ KnowsAt("write", Seen(r))
    BY <1>2 DEF KnowsAt
  <2> QED BY <1>3, <1>12, <2>1, SerialGo DEF ReadContext
<1>13. CASE AdminComplete(r)
  BY <1>13, SerialSave DEF AdminComplete, At, RowPCs, FitsRow
<1>14. CASE AdminReset(r)
  BY <1>14, SerialSave DEF AdminReset, At, RowPCs, FitsRow
<1>15. CASE ClearScans(r) \/ LogOutcome(r)
  <2>1. PICK next \in {"log", "tasks"} : Go(r, next, j)
    BY <1>15 DEF ClearScans, LogOutcome
  <2>2. UNCHANGED <<progress, claims>> /\ KnowsAt(next, j)
    BY <1>15, KnowsNothing DEF ClearScans, LogOutcome, RowPCs
  <2> QED BY <2>1, <2>2, SerialGo
<1> QED BY <1>4, <1>5, <1>6, <1>7, <1>8, <1>9, <1>10, <1>11, <1>12, <1>13, <1>14, <1>15 DEF Task

LEMMA SerialSubmission ==
  ASSUME SerialInv, StoryInv', OneAtATime, NEW r \in Slots, Submission(r)
  PROVE SerialInv'
<1> DEFINE j == job[r]
<1>1. /\ TypeOK /\ j \in Job /\ j.team \in Teams /\ j.station \in Stations /\ Prepared(r)
      /\ KnowsAt(pc[r], j) /\ Fair
  BY SeenType DEF SerialInv, StoryInv, StuckInv, IInv
<1>2. /\ Seen(r) \in Job /\ Seen(r).team = j.team /\ Seen(r).station = j.station
      /\ Seen(r).seen = progress[j.team][j.station]
  BY <1>1, SeenFields DEF Seen, Job
<1>3. UNCHANGED store => UNCHANGED <<progress, claims>>
  BY DEF store
<1>4. CASE ReadPhoto(r) \/ ReadScan(r)
  <2>1. CASE Finish(r)
    BY <1>3, <1>4, <2>1, SerialFinish DEF ReadPhoto, ReadScan
  <2>2. ASSUME NEW next \in {"photo", "scan"}, ~Decided(Seen(r).seen), Go(r, next, Seen(r))
        PROVE SerialInv'
    <3>1. KnowsAt(next, Seen(r))
      BY <1>2, <2>2 DEF KnowsAt, Decided
    <3> QED BY <1>3, <1>4, <2>2, <3>1, SerialGo DEF ReadPhoto, ReadScan
  <2> QED BY <1>4, <2>1, <2>2 DEF ReadPhoto, ReadScan
<1>5. CASE SavePhoto(r) \/ SaveScan(r)
  <2>1. KnowsAt("upsert", j)
    BY <1>1, <1>5 DEF KnowsAt, SavePhoto, SaveScan, RowPCs
  <2> QED BY <1>5, <2>1, SerialGo DEF SavePhoto, SaveScan
<1>6. CASE UpsertRow(r)
  <2> DEFINE row == Upserted(progress[j.team][j.station])
             k == [j EXCEPT !.seen = row]
  <2>1. /\ pc[r] = "upsert" /\ UNCHANGED claims
        /\ progress' = [progress EXCEPT ![j.team][j.station] = row]
        /\ IF j.op = "photo" THEN Finish(r) ELSE Go(r, "count", k)
    BY <1>6 DEF UpsertRow
  <2>2. k.team = j.team /\ k.station = j.station /\ k.seen = row
    BY <1>1 DEF Job
  <2>3. progress[j.team][j.station] \in Row /\ progress[j.team][j.station].pts = 0
    BY <1>1, <2>1, SeenType DEF KnowsAt, Fair, OpenWorthNothing
  <2>4. row.pts = 0
    BY <2>3 DEF Upserted, Row
  <2>5. FitsRow(j.team, j.station, row.status, row.pts)
    BY <1>1, <2>1, <2>4 DEF Prepared, FitsRow
  <2> HIDE DEF row, k
  <2>6. PICK next, h : /\ Go(r, next, h)
                       /\ next = "idle" \/ (next = "count" /\ h = k)
    BY <2>1 DEF Finish
  <2> QED BY <2>1, <2>2, <2>5, <2>6, SerialRow
<1>7. CASE CountScans(r)
  <2>1. j.seen = progress[j.team][j.station]
    BY <1>1, <1>7 DEF KnowsAt, CountScans, RowPCs
  <2> QED BY <1>1, <1>3, <1>7, <2>1, SerialJudge, SerialFinish DEF CountScans
<1> QED BY <1>4, <1>5, <1>6, <1>7 DEF Submission

LEMMA SerialClaim ==
  ASSUME SerialInv, StoryInv', OneAtATime, NEW r \in Slots, Claim(r)
  PROVE SerialInv'
<1> DEFINE j == job[r]
<1>1. /\ TypeOK /\ j \in Job /\ j.team \in Teams /\ KnowsAt(pc[r], j) /\ Fair
  BY SeenType DEF SerialInv, StoryInv, IInv
<1>2. UNCHANGED store => UNCHANGED <<progress, claims>>
  BY DEF store
<1>3. CASE FindCode(r)
  <2>1. KnowsAt("first", j) /\ (j.code \notin FirstTeamCodes => KnowsAt("claim", j))
    BY DEF KnowsAt, RowPCs
  <2> QED BY <1>2, <1>3, <2>1, SerialGo, SerialFinish DEF FindCode
<1>4. CASE CheckFirstTeam(r)
  <2>1. (\A t \in Teams : j.code \notin claims[t]) => KnowsAt("claim", j)
    BY DEF KnowsAt, RowPCs
  <2> QED BY <1>2, <1>4, <2>1, SerialGo, SerialFinish DEF CheckFirstTeam
<1>5. CASE CreateClaim(r)
  <2>1. CASE UNCHANGED claims /\ Finish(r)
    BY <1>5, <2>1, SerialFinish DEF CreateClaim
  <2>2. CASE claims' = [claims EXCEPT ![j.team] = @ \cup {j.code}] /\ Go(r, "tasks", j)
    <3>1. UNCHANGED progress /\ pc[r] = "claim"
      BY <1>5 DEF CreateClaim
    <3>2. \A t \in Teams : claims'[t] = IF t = j.team THEN claims[t] \cup {j.code} ELSE claims[t]
      BY <1>1, <2>2 DEF TypeOK
    <3>3. j.code \in FirstTeamCodes => \A t \in Teams : j.code \notin claims[t]
      BY <1>1, <3>1 DEF KnowsAt
    <3>4. PICK mine \in Teams, code \in Codes \cup {NoCode} : mine = j.team /\ code = j.code
      BY <1>1 DEF Job
    <3>5. claims'[mine] = claims[mine] \cup {code} /\ \A t \in Teams \ {mine} : claims'[t] = claims[t]
      BY <3>2, <3>4
    <3>6. code \in FirstTeamCodes => \A t \in Teams : code \notin claims[t]
      BY <3>3, <3>4
    <3>7. FirstTeamOnly
      BY <1>1 DEF Fair
    <3>8. FirstTeamOnly'
      <4> SUFFICES ASSUME NEW c \in FirstTeamCodes, NEW t \in Teams, NEW u \in Teams,
                          (c \in claims[t])', (c \in claims[u])'
                   PROVE t = u
        BY DEF FirstTeamOnly
      <4>1. c \in claims'[t] /\ c \in claims'[u]
        OBVIOUS
      <4>2. CASE c = code
        <5>1. c \notin claims[t] /\ c \notin claims[u]
          BY <3>6, <4>2
        <5>2. t = mine /\ u = mine
          BY <3>5, <4>1, <5>1
        <5> QED BY <5>2
      <4>3. CASE c # code
        <5>1. c \in claims[t] /\ c \in claims[u]
          BY <3>5, <4>3, <4>1
        <5> QED BY <3>7, <5>1 DEF FirstTeamOnly
      <4> QED BY <4>2, <4>3
    <3>9. (OpenWorthNothing /\ ExclusiveUse /\ OneBonus)'
      BY <1>1, <3>1 DEF Fair, OpenWorthNothing, ExclusiveUse, OneBonus, HasBonus
    <3>10. pc'[r] = "tasks" /\ job'[r] = j
      BY <1>1, <2>2, GoMoves
    <3>11. KnowsAt(pc[r], job[r])'
      BY <3>10 DEF KnowsAt, RowPCs
    <3>12. \A q \in Slots : KnowsAt(pc[q], job[q])'
      BY <3>11 DEF OneAtATime
    <3> QED BY <3>8, <3>9, <3>12 DEF SerialInv, Fair
  <2> QED BY <1>5, <2>1, <2>2 DEF CreateClaim
<1> QED BY <1>3, <1>4, <1>5 DEF Claim

LEMMA SerialRecalculate ==
  ASSUME SerialInv, StoryInv', OneAtATime, NEW r \in Slots, Recalculate(r)
  PROVE SerialInv'
<1>1. UNCHANGED <<progress, claims>> /\ job[r] \in Job
  BY SeenType DEF Recalculate, ReadTasks, ReadClaims, WriteTotal, store, SerialInv, StoryInv, IInv
<1>2. Finish(r) \/ \E next \in {"claims", "total", "tasks", "logAll"} : \E k : Go(r, next, k)
  BY <1>1, NextTeamGo DEF Recalculate, ReadTasks, ReadClaims, WriteTotal
<1>3. ASSUME NEW next \in {"claims", "total", "tasks", "logAll"}, NEW k, Go(r, next, k)
      PROVE SerialInv'
  <2>1. KnowsAt(next, k)
    BY KnowsNothing DEF RowPCs
  <2> QED BY <1>1, <1>3, <2>1, SerialGo
<1> QED BY <1>1, <1>2, <1>3, SerialFinish

LEMMA SerialReset ==
  ASSUME SerialInv, StoryInv', OneAtATime, NEW r \in Slots, Reset(r)
  PROVE SerialInv'
<1> DEFINE j == job[r]
<1>1. TypeOK /\ j \in Job /\ Fair /\ UNCHANGED claims
  BY SeenType DEF SerialInv, StoryInv, IInv, Reset, FindResettable, ResetRows, ClearFoundScans, Wipe,
                  ZeroTotals, Reopen, LogReset, store
<1>2. pc'[r] \notin (RowPCs \ {"read"}) \cup {"claim"}
  <2>1. CASE ZeroTotals(r)
    BY <1>1, <2>1 DEF ZeroTotals, TypeOK, RowPCs
  <2>2. ASSUME NEW next \in {"idle", "resetAll", "clearAll", "tasks", "zero", "logAll"}, NEW k,
               Go(r, next, k)
        PROVE pc'[r] \notin (RowPCs \ {"read"}) \cup {"claim"}
    BY <1>1, <2>2, GoMoves DEF RowPCs
  <2>3. CASE ClearFoundScans(r)
    <3>1. {p[1] : p \in j.found} \in SUBSET Teams
      BY <1>1 DEF Job
    <3>2. [j EXCEPT !.left = {p[1] : p \in j.found}] \in Job
      BY <1>1, <3>1 DEF Job
    <3> QED BY <2>2, <2>3, <3>2, NextTeamGo DEF ClearFoundScans
  <2> QED BY <2>1, <2>2, <2>3
          DEF Reset, FindResettable, ResetRows, Wipe, Reopen, LogReset, Finish
<1>3. \A q \in Slots : KnowsAt(pc[q], job[q])'
  <2>1. KnowsAt(pc[r], job[r])'
    BY <1>2 DEF KnowsAt, RowPCs
  <2> QED BY <2>1 DEF OneAtATime
<1>4. CASE UNCHANGED progress
  BY <1>1, <1>3, <1>4, FairFrame DEF SerialInv
<1>5. CASE ResetRows(r) \/ Wipe(r)
  <2>1. ASSUME NEW t \in Teams, NEW s \in Stations
        PROVE progress'[t][s].pts = 0 /\ progress'[t][s].status # "IN_PROGRESS"
    <3>1. CASE Wipe(r)
      BY <3>1 DEF Wipe, NoRow
    <3>2. CASE ResetRows(r)
      <4>1. progress[t][s] \in Row
        BY <1>1 DEF TypeOK
      <4>2. progress'[t][s] =
              IF progress[t][s].status \in {"DONE", "IN_PROGRESS"}
              THEN [progress[t][s] EXCEPT !.status = "TODO", !.pts = 0, !.started = FALSE]
              ELSE progress[t][s]
        BY <3>2 DEF ResetRows
      <4> DEFINE row == [progress[t][s] EXCEPT !.status = "TODO", !.pts = 0, !.started = FALSE]
      <4>3. row.status = "TODO" /\ row.pts = 0
        BY <4>1 DEF Row
      <4> HIDE DEF row
      <4> QED BY <1>1, <4>2, <4>3 DEF Fair, OpenWorthNothing, row
    <3> QED BY <1>5, <3>1, <3>2
  <2>2. (OpenWorthNothing /\ ExclusiveUse /\ OneBonus)'
    BY <2>1, ConstantsAssumption DEF OpenWorthNothing, ExclusiveUse, OneBonus, HasBonus
  <2>3. FirstTeamOnly'
    BY <1>1 DEF Fair, FirstTeamOnly
  <2> QED BY <1>3, <2>2, <2>3 DEF SerialInv, Fair
<1> QED BY <1>4, <1>5
        DEF Reset, FindResettable, ClearFoundScans, ZeroTotals, Reopen, LogReset, store

LEMMA SerialReceive ==
  ASSUME SerialInv, StoryInv', OneAtATime, NEW r \in Slots, Receive(r)
  PROVE SerialInv'
<1>1. PICK first, j, T : Accept(r, first, j, T) /\ first \in {"read", "code", "find", "wipe"}
  BY DEF Receive, ReceiveTask, ReceiveScan, ReceiveCode, ReceiveResetTasks, ReceiveResetGame
<1>2. pc'[r] = first /\ job'[r] = j /\ UNCHANGED <<progress, claims>>
  BY <1>1 DEF Accept, store, SerialInv, StoryInv, IInv, TypeOK
<1>3. KnowsAt(pc[r], job[r])'
  BY <1>1, <1>2 DEF KnowsAt, RowPCs
<1>4. \A q \in Slots : KnowsAt(pc[q], job[q])'
  BY <1>3 DEF OneAtATime
<1> QED BY <1>2, <1>4, FairFrame DEF SerialInv

LEMMA SerialInit == Init => SerialInv
<1> SUFFICES ASSUME Init PROVE SerialInv
  OBVIOUS
<1>1. \A r \in Slots : pc[r] = "idle"
  BY DEF Init
<1>2. \A r \in Slots : KnowsAt(pc[r], job[r])
  BY <1>1 DEF KnowsAt, RowPCs
<1>3. OpenWorthNothing /\ ExclusiveUse /\ OneBonus
  BY ConstantsAssumption DEF Init, NoRow, OpenWorthNothing, ExclusiveUse, OneBonus, HasBonus
<1>4. FirstTeamOnly
  BY DEF Init, FirstTeamOnly
<1> QED BY <1>2, <1>3, <1>4, StoryInit DEF SerialInv, Fair

LEMMA SerialStep == OneAtATime /\ SerialInv /\ [Next]_vars => SerialInv'
<1> SUFFICES ASSUME OneAtATime, SerialInv, [Next]_vars PROVE SerialInv'
  OBVIOUS
<1>1. StoryInv'
  BY StoryStep DEF SerialInv
<1>2. ASSUME NEW r \in Slots, Receive(r) \/ Serve(r) PROVE SerialInv'
  BY <1>1, <1>2, SerialReceive, SerialTask, SerialSubmission, SerialClaim, SerialRecalculate, SerialReset
     DEF Serve
<1>3. CASE FinishGame \/ (\E c \in Codes : DeleteCode(c)) \/ UNCHANGED vars
  <2>1. UNCHANGED <<progress, pc, job>> /\ \A t \in Teams : claims'[t] \subseteq claims[t]
    BY <1>3 DEF FinishGame, DeleteCode, vars, store
  <2>2. \A q \in Slots : KnowsAt(pc[q], job[q])'
    BY <2>1 DEF SerialInv, KnowsAt
  <2> QED BY <1>1, <2>1, <2>2, FairFrame DEF SerialInv
<1>4. CASE Crash
  <2>1. \A q \in Slots : pc'[q] = "idle"
    BY <1>4 DEF Crash
  <2>2. \A q \in Slots : KnowsAt(pc[q], job[q])'
    BY <2>1 DEF KnowsAt, RowPCs
  <2>3. UNCHANGED <<progress, claims>>
    BY <1>4 DEF Crash, store
  <2> QED BY <1>1, <2>2, <2>3, FairFrame DEF SerialInv
<1> QED BY <1>2, <1>3, <1>4 DEF Next, Rest

\* Served one at a time, requests keep a station for one team, unless it is shared or
\* taken by submissions: the check for another team in progress is not overtaken.
THEOREM ExclusiveCorrect ==
  ASSUME OneAtATime PROVE Spec => []ExclusiveUse
<1>1. SerialInv => ExclusiveUse
  BY DEF SerialInv, Fair
<1>2. SerialInv /\ [Next]_vars => SerialInv'
  BY SerialStep
<1> QED BY <1>1, <1>2, SerialInit, PTL DEF Spec

\* Served one at a time, what only the first team gets goes to one team: the bonus for
\* the fastest completion, also over resets, and a code of claim mode FIRST_TEAM.
THEOREM FirstsCorrect ==
  ASSUME OneAtATime PROVE Spec => []FirstsOnce
<1>1. SerialInv => FirstsOnce
  BY DEF SerialInv, Fair, FirstsOnce
<1>2. SerialInv /\ [Next]_vars => SerialInv'
  BY SerialStep
<1> QED BY <1>1, <1>2, SerialInit, PTL DEF Spec

\* Only the admin's handlers take a task out of DONE.
LEMMA ReopenedByAdmin ==
  ASSUME OneAtATime, SerialInv, [Next]_vars, NEW t \in Teams, NEW s \in Stations, NEW r \in Slots,
         progress[t][s].status = "DONE", progress'[t][s].status # "DONE"
  PROVE job[r].op \notin DeviceOps
<1> DEFINE j == job[r]
<1>1. /\ TypeOK /\ j \in Job /\ j.team \in Teams /\ j.station \in Stations /\ Coherent(r)
      /\ KnowsAt(pc[r], j)
  BY SeenType DEF SerialInv, StoryInv, IInv
<1>2. Serve(r)
  <2>1. progress' # progress
    OBVIOUS
  <2>2. ASSUME NEW q \in Slots, Receive(q) PROVE progress' = progress
    BY <2>2 DEF Receive, ReceiveTask, ReceiveScan, ReceiveCode, ReceiveResetTasks, ReceiveResetGame,
                Accept, store
  <2>3. PICK q \in Slots : Serve(q)
    BY <2>1, <2>2 DEF Next, FinishGame, DeleteCode, Crash, Rest, vars, store
  <2>4. q = r
    BY DEF OneAtATime
  <2> QED BY <2>3, <2>4
<1>3. ASSUME NEW row, progress' = [progress EXCEPT ![j.team][j.station] = row]
      PROVE row.status # "DONE" /\ progress[j.team][j.station].status = "DONE"
  <2>1. \A u \in Teams, x \in Stations :
           progress'[u][x] = IF u = j.team /\ x = j.station THEN row ELSE progress[u][x]
    BY <1>1, <1>3 DEF TypeOK
  <2> QED BY <2>1
<1>4. CASE WriteStarted(r)
  BY <1>1, <1>3, <1>4 DEF WriteStarted, Save, KnowsAt
<1>5. CASE AdminReset(r)
  BY <1>5 DEF AdminReset, At, DeviceOps
<1>6. CASE Finalize(r) \/ MarkFailed(r) \/ AdminComplete(r)
  <2>1. \E pts, started, next, outcome : Save(r, "DONE", pts, started, next, outcome)
    BY <1>6, Zenon DEF Finalize, MarkFailed, AdminComplete
  <2>2. \E row : row.status = "DONE" /\ progress' = [progress EXCEPT ![j.team][j.station] = row]
    BY <2>1 DEF Save
  <2> QED BY <1>3, <2>2
<1>7. CASE UpsertRow(r)
  BY <1>1, <1>3, <1>7 DEF UpsertRow, KnowsAt
<1>8. CASE Reset(r)
  <2>1. j.op \in BulkOps
    BY <1>1, <1>8 DEF Coherent, BulkOps, Reset, FindResettable, ResetRows, ClearFoundScans, Wipe,
                      ZeroTotals, Reopen, LogReset
  <2> QED BY <2>1 DEF BulkOps, DeviceOps
<1>9. UNCHANGED progress => FALSE
  OBVIOUS
<1> QED BY <1>2, <1>4, <1>5, <1>6, <1>7, <1>8, <1>9
        DEF Serve, Task, ReadStart, CheckBusy, ReadComplete, CheckBonus, ReadFail, ReadContext,
            ClearScans, LogOutcome, Submission, ReadPhoto, SavePhoto, ReadScan, SaveScan, CountScans,
            Claim, FindCode, CheckFirstTeam, CreateClaim, Recalculate, ReadTasks, ReadClaims,
            WriteTotal, store

\* Served one at a time, no request of a device takes a decided task back: retries and
\* late submissions find it decided and stop, only a reset of the admin reopens it.
THEOREM DecisionsStand ==
  ASSUME OneAtATime PROVE Spec => DevicesNeverReopen
<1>1. SerialInv /\ [Next]_vars =>
        [\A t \in Teams, s \in Stations, r \in Slots :
           /\ progress[t][s].status = "DONE" /\ progress'[t][s].status # "DONE"
           /\ job[r].team = t /\ pc'[r] # pc[r]
           => job[r].op \notin DeviceOps]_vars
  BY ReopenedByAdmin
<1>2. SerialInv /\ [Next]_vars => SerialInv'
  BY SerialStep
<1> QED BY <1>1, <1>2, SerialInit, PTL DEF Spec, DevicesNeverReopen
-----------------------------------------------------------------------------
(* Requests served one at a time, none cut off, are steps of the board.    *)

\* No handler is cut off, and the two requests are left out that change claims or rows
\* and leave the totals or the log behind: a reset of the game zeroes totals whose
\* claims stay, the deletion of a code drops claims that the totals still count.
Uncut == MaxCrashes = 0 /\ Ops \cap {"resetGame", "deleteCode"} = {}

Worths(s) ==
  Awards[s] \cup {AdminAward[s]} \cup
    (IF s \in BonusStations THEN {a + BonusAward[s] : a \in Awards[s]} ELSE {})

\* What a handler at place p with job j is about to write is worth something on the board.
WorthAt(p, j) ==
  /\ p = "bonus" => j.station \in BonusStations
  /\ p = "finalize" => j.award \in Worths(j.station)

\* The places of a reset of all tasks behind the write to the rows.
AfterPCs == {"clearAll", "tasks", "claims", "total", "logAll"}
Forgotten(r) ==
  pc[r] \in AfterPCs /\ job[r].op = "resetTasks" =>
    \A t \in Teams, s \in Stations : latest[t][s] = "failed" => progress[t][s].status = "TODO"

BoardInv ==
  /\ SerialInv /\ disturbed = {}
  /\ \A r \in Slots : /\ WorthAt(pc[r], job[r]) /\ Forgotten(r)
                      /\ pc[r] # "idle" => job[r].op # "resetGame"

LEMMA BoardInvBy ==
  ASSUME OneAtATime, SerialInv', disturbed' = {}, NEW r \in Slots,
         NEW p, NEW k, pc'[r] = p, job'[r] = k, WorthAt(p, k), Forgotten(r)',
         p # "idle" => k.op # "resetGame"
  PROVE BoardInv'
<1>1. WorthAt(pc[r], job[r])'
  BY DEF WorthAt
<1> QED BY <1>1 DEF BoardInv, OneAtATime

\* A served request stays the same request.
LEMMA SameRequest == ASSUME IInv, NEW r \in Slots, Serve(r) PROVE OneMoves(r)
<1>1. Local(r) \/ Global(r)
  BY TaskLocal, SubmissionLocal, ClaimLocal, Gathers, Totals, ResetGlobal DEF Serve, Recalculate
<1> QED BY <1>1 DEF Local, Global

\* Places at which nothing is about to be written.
Worthless == PCs \ {"bonus", "finalize"}

LEMMA WorthNothing == ASSUME NEW p \in Worthless, NEW k PROVE WorthAt(p, k)
BY DEF Worthless, WorthAt

\* A handler goes on that is not behind the write of a reset.
LEMMA BoardGo ==
  ASSUME OneAtATime, BoardInv, SerialInv', NEW r \in Slots, OneMoves(r),
         NEW p, NEW k, Go(r, p, k), WorthAt(p, k),
         p \notin AfterPCs \/ k.op # "resetTasks"
         \/ (pc[r] \in AfterPCs /\ job[r].op = "resetTasks" /\ UNCHANGED <<progress, latest>>)
  PROVE BoardInv'
<1>1. pc'[r] = p /\ job'[r] = k /\ disturbed' = {}
  BY GoMoves DEF BoardInv, SerialInv, StoryInv, IInv
<1>2. Forgotten(r)'
  BY <1>1 DEF BoardInv, Forgotten
<1>3. p # "idle" => k.op # "resetGame"
  BY <1>1 DEF BoardInv, OneMoves
<1> QED BY <1>1, <1>2, <1>3, BoardInvBy

LEMMA BoardFinish ==
  ASSUME OneAtATime, BoardInv, SerialInv', NEW r \in Slots, OneMoves(r), Finish(r)
  PROVE BoardInv'
<1>1. "idle" \notin AfterPCs /\ "idle" \in Worthless
  BY DEF AfterPCs, Worthless, PCs
<1> QED BY <1>1, BoardGo, WorthNothing DEF Finish

\* A judged submission is worth an award.
LEMMA BoardJudge ==
  ASSUME OneAtATime, BoardInv, SerialInv', NEW r \in Slots, OneMoves(r), NEW j \in Job, Judge(r, j)
  PROVE BoardInv'
<1>1. CASE Go(r, "fail", j)
  BY <1>1, BoardGo, WorthNothing DEF Worthless, PCs, AfterPCs
<1>2. ASSUME NEW a \in Awards[j.station],
             Go(r, IF j.station \in BonusStations THEN "bonus" ELSE "finalize", [j EXCEPT !.award = a])
      PROVE BoardInv'
  <2>1. PICK k : k = [j EXCEPT !.award = a]
    OBVIOUS
  <2>2. k.station = j.station /\ k.award = a
    BY <2>1 DEF Job
  <2>3. PICK p : p = IF j.station \in BonusStations THEN "bonus" ELSE "finalize"
    OBVIOUS
  <2>4. WorthAt(p, k) /\ p \notin AfterPCs
    BY <2>2, <2>3 DEF WorthAt, Worths, AfterPCs
  <2> QED BY <1>2, <2>1, <2>3, <2>4, BoardGo
<1> QED BY <1>1, <1>2 DEF Judge

\* A saved row goes on to its event.
LEMMA BoardSave ==
  ASSUME OneAtATime, BoardInv, SerialInv', NEW r \in Slots, OneMoves(r), NEW status, NEW pts, NEW started,
         NEW next \in {"idle", "clear", "log"}, NEW outcome, Save(r, status, pts, started, next, outcome)
  PROVE BoardInv'
<1>1. Finish(r) \/ Go(r, next, [job[r] EXCEPT !.outcome = outcome])
  BY DEF Save
<1>2. next \in Worthless /\ next \notin AfterPCs
  BY DEF Worthless, PCs, AfterPCs
<1> QED BY <1>1, <1>2, BoardFinish, BoardGo, WorthNothing

LEMMA BoardTask ==
  ASSUME OneAtATime, BoardInv, SerialInv', NEW r \in Slots, OneMoves(r), Task(r)
  PROVE BoardInv'
<1> DEFINE j == job[r]
<1>1. TypeOK /\ Coherent(r) /\ j \in Job /\ Seen(r) \in Job /\ WorthAt(pc[r], j) /\ KnowsAt(pc[r], j)
  BY SeenType DEF BoardInv, SerialInv, StoryInv, IInv
<1>2. \A p \in {"busy", "start", "fail", "write", "log"} : p \in Worthless /\ p \notin AfterPCs
  BY DEF Worthless, PCs, AfterPCs
<1>3. CASE ReadStart(r) \/ CheckBusy(r) \/ ReadFail(r) \/ ReadContext(r) \/ ClearScans(r)
  <2>1. Finish(r) \/ \E p \in {"busy", "start", "fail", "write", "log"}, k \in Job : Go(r, p, k)
    BY <1>1, <1>3 DEF ReadStart, CheckBusy, ReadFail, ReadContext, ClearScans
  <2> QED BY <1>2, <2>1, BoardFinish, BoardGo, WorthNothing
<1>4. CASE ReadComplete(r)
  BY <1>1, <1>4, BoardFinish, BoardJudge DEF ReadComplete
<1>5. CASE CheckBonus(r)
  <2>1. PICK n : n = IF \E u \in Teams \ {j.team} : Decided(progress[u][j.station])
                     THEN j.award ELSE j.award + BonusAward[j.station]
    OBVIOUS
  <2>2. PICK k : k = [j EXCEPT !.award = n]
    OBVIOUS
  <2>3. pc[r] = "bonus" /\ Go(r, "finalize", k) /\ k.station = j.station /\ k.award = n
    BY <1>1, <1>5, <2>1, <2>2 DEF CheckBonus, Job
  <2>4. j.award \in Awards[j.station] /\ j.station \in BonusStations
    BY <1>1, <2>3 DEF WorthAt, KnowsAt
  <2>5. n \in Worths(j.station)
    BY <2>1, <2>4 DEF Worths
  <2>6. WorthAt("finalize", k) /\ "finalize" \notin AfterPCs
    BY <2>3, <2>5 DEF WorthAt, AfterPCs
  <2> QED BY <2>3, <2>6, BoardGo
<1>6. CASE WriteStarted(r)
  BY <1>6, BoardSave DEF WriteStarted
<1>7. CASE Finalize(r)
  BY <1>7, BoardSave DEF Finalize
<1>8. CASE MarkFailed(r)
  BY <1>8, BoardSave DEF MarkFailed
<1>9. CASE AdminComplete(r)
  BY <1>9, BoardSave DEF AdminComplete
<1>10. CASE AdminReset(r)
  BY <1>10, BoardSave DEF AdminReset
<1>11. CASE LogOutcome(r)
  <2>1. Go(r, "tasks", j) /\ j.op # "resetTasks" /\ "tasks" \in Worthless
    BY <1>1, <1>11 DEF LogOutcome, Coherent, BulkOps, Worthless, PCs
  <2> QED BY <2>1, BoardGo, WorthNothing
<1> QED BY <1>3, <1>4, <1>5, <1>6, <1>7, <1>8, <1>9, <1>10, <1>11 DEF Task

LEMMA BoardSubmission ==
  ASSUME OneAtATime, BoardInv, SerialInv', NEW r \in Slots, OneMoves(r), Submission(r) \/ Claim(r)
  PROVE BoardInv'
<1> DEFINE j == job[r]
<1>1. TypeOK /\ Coherent(r) /\ j \in Job
  BY SeenType DEF BoardInv, SerialInv, StoryInv, IInv
<1>2. \A p \in {"photo", "scan", "upsert", "count", "first", "claim"} : p \in Worthless /\ p \notin AfterPCs
  BY DEF Worthless, PCs, AfterPCs
<1>3. CASE CountScans(r)
  BY <1>1, <1>3, BoardFinish, BoardJudge DEF CountScans
<1>4. CASE CreateClaim(r)
  <2>1. Finish(r) \/ (Go(r, "tasks", j) /\ j.op # "resetTasks" /\ "tasks" \in Worthless)
    BY <1>1, <1>4 DEF CreateClaim, Coherent, BulkOps, CodePCs, Worthless, PCs
  <2> QED BY <2>1, BoardFinish, BoardGo, WorthNothing
<1>5. CASE ReadPhoto(r) \/ SavePhoto(r) \/ ReadScan(r) \/ SaveScan(r) \/ UpsertRow(r)
           \/ FindCode(r) \/ CheckFirstTeam(r)
  <2>1. Finish(r) \/ \E p \in {"photo", "scan", "upsert", "count", "first", "claim"} : \E k : Go(r, p, k)
    BY <1>5 DEF ReadPhoto, SavePhoto, ReadScan, SaveScan, UpsertRow, FindCode, CheckFirstTeam
  <2> QED BY <1>2, <2>1, BoardFinish, BoardGo, WorthNothing
<1> QED BY <1>3, <1>4, <1>5 DEF Submission, Claim

LEMMA BoardRecalculate ==
  ASSUME OneAtATime, BoardInv, SerialInv', NEW r \in Slots, OneMoves(r), Recalculate(r) \/ ClearFoundScans(r)
  PROVE BoardInv'
<1> DEFINE j == job[r]
<1>1. TypeOK /\ Coherent(r) /\ j \in Job /\ pc[r] \in AfterPCs /\ UNCHANGED <<progress, latest>>
  BY SeenType DEF BoardInv, SerialInv, StoryInv, IInv, AfterPCs, Recalculate, ReadTasks, ReadClaims,
                  WriteTotal, ClearFoundScans, store
<1>2. \A p \in {"claims", "total", "tasks", "logAll"} : p \in Worthless
  BY DEF Worthless, PCs
<1>3. Finish(r) \/ \E p \in {"claims", "total", "tasks", "logAll"} : \E k : Go(r, p, k) /\ k.op = j.op
  <2>1. CASE ReadTasks(r) \/ ReadClaims(r)
    BY <1>1, <2>1 DEF ReadTasks, ReadClaims, Job
  <2>2. CASE WriteTotal(r)
    BY <1>1, <2>2, NextTeamGo DEF WriteTotal
  <2>3. CASE ClearFoundScans(r)
    <3>1. PICK k : k = [j EXCEPT !.left = {p[1] : p \in j.found}]
      OBVIOUS
    <3>2. {p[1] : p \in j.found} \in SUBSET Teams
      BY <1>1 DEF Job
    <3>3. k \in Job /\ k.op = j.op
      BY <1>1, <3>1, <3>2 DEF Job
    <3>4. NextTeam(r, k)
      BY <2>3, <3>1 DEF ClearFoundScans
    <3>5. \E next \in {"tasks", "logAll"} : \E i : Go(r, next, i) /\ i.op = k.op /\ i.station = k.station
      BY <3>3, <3>4, NextTeamGo
    <3> QED BY <3>3, <3>5
  <2> QED BY <2>1, <2>2, <2>3 DEF Recalculate
<1> QED BY <1>1, <1>2, <1>3, BoardFinish, BoardGo, WorthNothing

\* A row that failed is done, so a reset of all tasks leaves it to do.
LEMMA BoardReset ==
  ASSUME OneAtATime, BoardInv, SerialInv', NEW r \in Slots, OneMoves(r), Reset(r)
  PROVE BoardInv'
<1> DEFINE j == job[r]
<1>1. TypeOK /\ Coherent(r) /\ j \in Job /\ WorthAt(pc[r], j)
  BY SeenType DEF BoardInv, SerialInv, StoryInv, IInv
<1>2. CASE FindResettable(r)
  <2>1. Finish(r) \/ \E k : Go(r, "resetAll", k)
    BY <1>2 DEF FindResettable
  <2>2. "resetAll" \in Worthless /\ "resetAll" \notin AfterPCs
    BY DEF Worthless, PCs, AfterPCs
  <2> QED BY <2>1, <2>2, BoardFinish, BoardGo, WorthNothing
<1>3. CASE ResetRows(r)
  <2>1. pc'[r] = "clearAll" /\ job'[r] = j /\ disturbed' = {} /\ pc[r] = "resetAll" /\ j.op = "resetTasks"
    BY <1>1, <1>3, GoMoves DEF ResetRows, Coherent, BoardInv
  <2>2. ASSUME NEW t \in Teams, NEW s \in Stations, latest'[t][s] = "failed"
        PROVE progress'[t][s].status = "TODO"
    <3>1. Story(r, t)
      BY <2>1, StoryKnown DEF BoardInv, SerialInv, BulkOps
    <3>2. Explained(t, s) /\ latest[t][s] = "failed"
      BY <1>3, <2>1, <2>2, <3>1 DEF Story, Fits, ResetRows
    <3>3. progress[t][s].status = "DONE" /\ progress[t][s] \in Row
      BY <1>1, <3>2 DEF Explained, TypeOK
    <3> QED BY <1>3, <3>3 DEF ResetRows, Row
  <2>3. Forgotten(r)'
    BY <2>2 DEF Forgotten
  <2>4. WorthAt("clearAll", j) /\ j.op # "resetGame"
    BY <2>1 DEF WorthAt
  <2> QED BY <2>1, <2>3, <2>4, BoardInvBy
<1>4. CASE ClearFoundScans(r)
  BY <1>4, BoardRecalculate
<1>5. CASE Wipe(r) \/ ZeroTotals(r) \/ Reopen(r)
  BY <1>1, <1>5 DEF Wipe, ZeroTotals, Reopen, Coherent, BoardInv
<1>6. CASE LogReset(r)
  BY <1>6, BoardFinish DEF LogReset
<1> QED BY <1>2, <1>3, <1>4, <1>5, <1>6 DEF Reset

\* Every request but a reset of the game may arrive.
LEMMA Arrives ==
  ASSUME Uncut, NEW r \in Slots, Receive(r)
  PROVE \E first \in {"read", "code", "find"} : \E j, T : Accept(r, first, j, T) /\ j.op # "resetGame"
<1>1. ~ReceiveResetGame(r)
  <2>1. [NoJob EXCEPT !.op = "resetGame"].op = "resetGame"
    BY DEF NoJob
  <2> QED BY <2>1 DEF ReceiveResetGame, Accept, Uncut
<1>2. ASSUME NEW op \in DeviceOps \cup AdminOps, NEW t \in Teams, NEW s \in Stations, ReceiveTask(r, op, t, s)
      PROVE \E j, T : Accept(r, "read", j, T) /\ j.op # "resetGame"
  <2>1. [NoJob EXCEPT !.op = op, !.team = t, !.station = s].op = op
    BY DEF NoJob
  <2>2. op # "resetGame"
    BY DEF DeviceOps, AdminOps
  <2> QED BY <1>2, <2>1, <2>2 DEF ReceiveTask
<1>3. ASSUME NEW t \in Teams, NEW s \in Stations, NEW label \in Labels, ReceiveScan(r, t, s, label)
      PROVE \E j, T : Accept(r, "read", j, T) /\ j.op # "resetGame"
  <2>1. [NoJob EXCEPT !.op = "scan", !.team = t, !.station = s, !.label = label].op = "scan"
    BY DEF NoJob
  <2> QED BY <1>3, <2>1 DEF ReceiveScan
<1>4. ASSUME NEW t \in Teams, NEW c \in Codes, ReceiveCode(r, t, c)
      PROVE \E j, T : Accept(r, "code", j, T) /\ j.op # "resetGame"
  <2>1. [NoJob EXCEPT !.op = "claim", !.team = t, !.code = c].op = "claim"
    BY DEF NoJob
  <2> QED BY <1>4, <2>1 DEF ReceiveCode
<1>5. ASSUME ReceiveResetTasks(r) PROVE \E j, T : Accept(r, "find", j, T) /\ j.op # "resetGame"
  <2>1. [NoJob EXCEPT !.op = "resetTasks"].op = "resetTasks"
    BY DEF NoJob
  <2> QED BY <1>5, <2>1 DEF ReceiveResetTasks
<1> QED BY <1>1, <1>2, <1>3, <1>4, <1>5 DEF Receive

\* A request arrives when nobody is served, so no team is disturbed.
LEMMA BoardReceive ==
  ASSUME OneAtATime, Uncut, BoardInv, SerialInv', NEW r \in Slots, Receive(r)
  PROVE BoardInv'
<1>1. PICK first \in {"read", "code", "find"} : \E j, T : Accept(r, first, j, T) /\ j.op # "resetGame"
  BY Arrives
<1> PICK j, T : Accept(r, first, j, T) /\ j.op # "resetGame"
  BY <1>1
<1>2. /\ pc[r] = "idle" /\ pc'[r] = first /\ job'[r] = j
      /\ disturbed' = disturbed \cup {t \in T : ~Idle(t)}
  BY <1>1 DEF Accept, BoardInv, SerialInv, StoryInv, IInv, TypeOK
<1>3. \A t : Idle(t)
  BY <1>2 DEF Idle, BusyOn, OneAtATime
<1>4. disturbed' = {}
  BY <1>2, <1>3 DEF BoardInv
<1>5. WorthAt(first, j) /\ first \notin AfterPCs
  BY <1>1 DEF WorthAt, AfterPCs
<1>6. Forgotten(r)'
  BY <1>2, <1>5 DEF Forgotten
<1> QED BY <1>1, <1>2, <1>4, <1>5, <1>6, BoardInvBy

\* Without handlers that are cut off and codes that are deleted, only served requests count.
LEMMA Uneventful ==
  ASSUME Uncut, BoardInv, [Next]_vars
  PROVE \/ \E r \in Slots : Receive(r) \/ Serve(r)
        \/ UNCHANGED <<progress, claims, tally, latest, pc, job, disturbed>>
<1>1. ~Crash
  BY DEF Crash, Uncut, BoardInv, SerialInv, StoryInv, IInv, TypeOK
<1>2. \A c : ~DeleteCode(c)
  BY DEF DeleteCode, Uncut
<1> QED BY <1>1, <1>2 DEF Next, FinishGame, Rest, vars, store

LEMMA BoardKept == ASSUME OneAtATime, Uncut, BoardInv, [Next]_vars PROVE BoardInv'
<1>1. SerialInv'
  BY SerialStep DEF BoardInv
<1>2. ASSUME NEW r \in Slots, Receive(r) \/ Serve(r) PROVE BoardInv'
  <2>1. IInv
    BY DEF BoardInv, SerialInv, StoryInv
  <2>2. CASE Receive(r)
    BY <1>1, <2>2, BoardReceive
  <2>3. CASE Serve(r)
    <3>1. OneMoves(r)
      BY <2>1, <2>3, SameRequest
    <3> QED BY <1>1, <2>3, <3>1, BoardTask, BoardSubmission, BoardRecalculate, BoardReset DEF Serve
  <2> QED BY <1>2, <2>2, <2>3
<1>3. CASE UNCHANGED <<progress, claims, tally, latest, pc, job, disturbed>>
  BY <1>1, <1>3 DEF BoardInv, WorthAt, Forgotten
<1> QED BY <1>2, <1>3, Uneventful

-----------------------------------------------------------------------------
(* The board, field by field.                                              *)

BoardNow == [t \in Teams |-> [s \in Stations |-> Shown(t, s)]]
TotalNow == [t \in Teams |-> IF Idle(t) THEN tally[t] ELSE Earned(t)]
BoardStep == Board!Next \/ (BoardNow' = BoardNow /\ TotalNow' = TotalNow)

\* What is shown of the field of t and s with the given status and last outcome while the
\* handler is at p with job j.
Reads(p, j, t, s, status, last) ==
  LET outcome == IF p \in {"clear", "log"} /\ j.team = t /\ j.station = s THEN j.outcome ELSE last
      resetting == p # "idle" /\ j.op = "resetTasks"
  IN IF outcome = "failed" /\ ~(resetting /\ status = "TODO") THEN "failed"
     ELSE IF status \in {"none", "TODO"} THEN "todo"
     ELSE IF status = "IN_PROGRESS" THEN "in-progress"
     ELSE "done"

Field(r, t, s) == Reads(pc[r], job[r], t, s, progress[t][s].status, latest[t][s])

LEMMA ShownIs ==
  ASSUME OneAtATime, NEW r \in Slots, NEW t \in Teams, NEW s \in Stations
  PROVE Shown(t, s) = Field(r, t, s)
<1>1. (\E q \in Slots : pc[q] \in {"clear", "log"} /\ job[q].team = t /\ job[q].station = s)
        <=> (pc[r] \in {"clear", "log"} /\ job[r].team = t /\ job[r].station = s)
  BY DEF OneAtATime
<1>2. (\E q \in Slots : pc[q] # "idle" /\ job[q].op = "resetTasks")
        <=> (pc[r] # "idle" /\ job[r].op = "resetTasks")
  BY DEF OneAtATime
<1>3. pc[r] \in {"clear", "log"} => (CHOOSE q \in Slots : pc[q] \in {"clear", "log"}) = r
  BY DEF OneAtATime
<1> QED BY <1>1, <1>2, <1>3 DEF Shown, Field, Reads

LEMMA ShownNext ==
  ASSUME OneAtATime, NEW r \in Slots, NEW t \in Teams, NEW s \in Stations
  PROVE Shown(t, s)' = Field(r, t, s)'
<1>1. (\E q \in Slots : pc'[q] \in {"clear", "log"} /\ job'[q].team = t /\ job'[q].station = s)
        <=> (pc'[r] \in {"clear", "log"} /\ job'[r].team = t /\ job'[r].station = s)
  BY DEF OneAtATime
<1>2. (\E q \in Slots : pc'[q] # "idle" /\ job'[q].op = "resetTasks")
        <=> (pc'[r] # "idle" /\ job'[r].op = "resetTasks")
  BY DEF OneAtATime
<1>3. pc'[r] \in {"clear", "log"} => (CHOOSE q \in Slots : pc'[q] \in {"clear", "log"}) = r
  BY DEF OneAtATime
<1> QED BY <1>1, <1>2, <1>3 DEF Shown, Field, Reads

\* Between requests the stored total is what the team has earned, and while one is served
\* the board already counts what it has written.
LEMMA BoardIs ==
  ASSUME OneAtATime, BoardInv, BoardInv', NEW r \in Slots
  PROVE /\ BoardNow = [t \in Teams |-> [s \in Stations |-> Field(r, t, s)]]
        /\ BoardNow' = [t \in Teams |-> [s \in Stations |-> Field(r, t, s)']]
        /\ TotalNow = [t \in Teams |-> Earned(t)]
        /\ TotalNow' = [t \in Teams |-> Earned(t)']
<1>1. \A t \in Teams, s \in Stations : Shown(t, s) = Field(r, t, s)
  BY ShownIs
<1>2. \A t \in Teams, s \in Stations : Shown(t, s)' = Field(r, t, s)'
  BY ShownNext
<1>3. \A t \in Teams : Idle(t) => tally[t] = Earned(t)
  BY DEF BoardInv, SerialInv, StoryInv, IInv, Exact
<1>4. \A t \in Teams : Idle(t)' => tally'[t] = Earned(t)'
  BY DEF BoardInv, SerialInv, StoryInv, IInv, Exact
<1>5. BoardNow = [t \in Teams |-> [s \in Stations |-> Field(r, t, s)]]
  BY <1>1, Zenon DEF BoardNow
<1>6. BoardNow' = [t \in Teams |-> [s \in Stations |-> Field(r, t, s)']]
  BY <1>2, Zenon DEF BoardNow
<1>7. TotalNow = [t \in Teams |-> Earned(t)]
  BY <1>3 DEF TotalNow
<1>8. TotalNow' = [t \in Teams |-> Earned(t)']
  BY <1>4 DEF TotalNow
<1> QED BY <1>5, <1>6, <1>7, <1>8

\* Nothing of the board changes.
LEMMA Unseen ==
  ASSUME OneAtATime, BoardInv, BoardInv', NEW r \in Slots, UNCHANGED <<progress, claims>>,
         \A t \in Teams, s \in Stations : Field(r, t, s)' = Field(r, t, s)
  PROVE BoardStep
<1>1. \A t \in Teams : Earned(t)' = Earned(t)
  BY DEF Earned, Counted
<1>2. BoardNow' = BoardNow
  <2>1. PICK b, nb : b = BoardNow /\ nb = BoardNow'
    OBVIOUS
  <2>2. b = [t \in Teams |-> b[t]] /\ nb = [t \in Teams |-> nb[t]]
    BY <2>1 DEF BoardNow
  <2>3. ASSUME NEW t \in Teams PROVE nb[t] = b[t]
    <3>1. /\ b[t] = [s \in Stations |-> Field(r, t, s)]
          /\ nb[t] = [s \in Stations |-> Field(r, t, s)']
      BY <2>1, BoardIs
    <3> QED BY <3>1, Zenon
  <2> QED BY <2>1, <2>2, <2>3
<1>3. TotalNow' = TotalNow
  BY <1>1, BoardIs, Zenon
<1> QED BY <1>2, <1>3 DEF BoardStep

\* One field of the board changes, with what it is worth.
LEMMA PutIs ==
  ASSUME OneAtATime, BoardInv, BoardInv', NEW r \in Slots, NEW t \in Teams, NEW s \in Stations,
         NEW row, NEW field, NEW worth,
         progress' = [progress EXCEPT ![t][s] = row], UNCHANGED claims,
         worth = IF row.status = "DONE" THEN row.pts ELSE NotDone,
         Field(r, t, s)' = field,
         \A u \in Teams, x \in Stations : u # t \/ x # s => Field(r, u, x)' = Field(r, u, x)
  PROVE Board!Put(t, s, field, worth)
<1>1. TypeOK
  BY DEF BoardInv, SerialInv, StoryInv, IInv
<1>2. \A u \in Teams, x \in Stations :
         progress'[u][x] = IF u = t /\ x = s THEN row ELSE progress[u][x]
  BY <1>1 DEF TypeOK
<1>3. PICK b, nb, w, nw : b = BoardNow /\ nb = BoardNow' /\ w = TotalNow /\ nw = TotalNow'
  OBVIOUS
<1>4. nb = [b EXCEPT ![t][s] = field]
  <2>1. \A u \in Teams : b[u] = [x \in Stations |-> Field(r, u, x)] /\ nb[u] = [x \in Stations |-> Field(r, u, x)']
    BY <1>3, BoardIs
  <2>2. b = [u \in Teams |-> b[u]] /\ nb = [u \in Teams |-> nb[u]]
    BY <1>3 DEF BoardNow
  <2>3. nb[t] = [b[t] EXCEPT ![s] = field]
    <3>1. \A x \in Stations : nb[t][x] = IF x = s THEN field ELSE b[t][x]
      <4>1. nb[t][s] = field
        BY <2>1
      <4>2. ASSUME NEW x \in Stations \ {s} PROVE nb[t][x] = b[t][x]
        <5>1. x \in Stations /\ x # s
          OBVIOUS
        <5>2. Field(r, t, x)' = Field(r, t, x)
          BY <5>1
        <5>3. b[t][x] = Field(r, t, x) /\ nb[t][x] = Field(r, t, x)'
          BY <2>1, <5>1
        <5> QED BY <5>2, <5>3
      <4> QED BY <4>1, <4>2
    <3>2. b[t] = [x \in Stations |-> b[t][x]] /\ nb[t] = [x \in Stations |-> nb[t][x]]
      BY <2>1
    <3> QED BY <3>1, <3>2
  <2>4. ASSUME NEW u \in Teams \ {t} PROVE nb[u] = b[u]
    <3>1. ASSUME NEW x \in Stations PROVE Field(r, u, x)' = Field(r, u, x)
      OBVIOUS
    <3>2. b[u] = [x \in Stations |-> Field(r, u, x)] /\ nb[u] = [x \in Stations |-> Field(r, u, x)']
      BY <2>1
    <3> QED BY <3>1, <3>2, Zenon
  <2> QED BY <2>2, <2>3, <2>4
<1>5. nw = [w EXCEPT ![t].awards[s] = worth]
  <2>1. \A u \in Teams : w[u] = Earned(u) /\ nw[u] = Earned(u)'
    BY <1>3, BoardIs
  <2>2. w = [u \in Teams |-> w[u]] /\ nw = [u \in Teams |-> nw[u]]
    BY <1>3 DEF TotalNow
  <2>3. w[t] = [awards |-> Counted(progress[t]), codes |-> claims[t]]
    BY <2>1 DEF Earned
  <2>4. nw[t] = [awards |-> Counted(progress'[t]), codes |-> claims[t]]
    BY <2>1 DEF Earned, Counted
  <2>5. Counted(progress'[t]) = [Counted(progress[t]) EXCEPT ![s] = worth]
    <3>1. PICK c, nc : c = Counted(progress[t]) /\ nc = Counted(progress'[t])
      OBVIOUS
    <3>2. c = [x \in Stations |-> c[x]] /\ nc = [x \in Stations |-> nc[x]]
      BY <3>1 DEF Counted
    <3>3. \A x \in Stations : nc[x] = IF x = s THEN worth ELSE c[x]
      BY <1>2, <3>1 DEF Counted
    <3> QED BY <3>1, <3>2, <3>3
  <2>6. nw[t] = [w[t] EXCEPT !.awards[s] = worth]
    BY <2>3, <2>4, <2>5
  <2>7. \A u \in Teams \ {t} : nw[u] = w[u]
    <3> SUFFICES ASSUME NEW u \in Teams \ {t} PROVE nw[u] = w[u]
      OBVIOUS
    <3>1. progress'[u] = progress[u]
      BY <1>1 DEF TypeOK
    <3> QED BY <2>1, <3>1, Frame
  <2> QED BY <2>2, <2>6, <2>7
<1> QED BY <1>3, <1>4, <1>5, Zenon DEF Board!Put, BoardNow, TotalNow

\* What a field shows when no reset of all tasks is under way.
FieldOf(status, last) ==
  IF last = "failed" THEN "failed"
  ELSE IF status \in {"none", "TODO"} THEN "todo"
  ELSE IF status = "IN_PROGRESS" THEN "in-progress"
  ELSE "done"

\* A step that writes neither a row nor an event nor a claim is not seen.
LEMMA QuietGo ==
  ASSUME OneAtATime, BoardInv, BoardInv', NEW r \in Slots, OneMoves(r),
         UNCHANGED <<progress, claims, latest>>,
         pc[r] \notin {"clear", "log"}, pc'[r] \notin {"clear", "log"},
         \/ pc'[r] # "idle" \/ job[r].op # "resetTasks"
         \/ \A t \in Teams, s \in Stations : latest[t][s] = "failed" => progress[t][s].status # "TODO"
  PROVE BoardStep
<1>1. ASSUME NEW t \in Teams, NEW s \in Stations PROVE Field(r, t, s)' = Field(r, t, s)
  <2>1. pc[r] # "idle" /\ (pc'[r] # "idle" => job'[r].op = job[r].op)
    BY DEF OneMoves
  <2> QED BY <2>1 DEF Field, Reads
<1> QED BY <1>1, Unseen

\* What a handler that serves one task knows of it.
LEMMA Serving ==
  ASSUME BoardInv, NEW r \in Slots, pc[r] \in RowPCs \cup CodePCs \cup {"clear", "log"}
  PROVE /\ TypeOK /\ pc[r] # "idle" /\ job[r].op \notin BulkOps /\ job[r].op # "resetTasks"
        /\ job[r] \in Job /\ job[r].team \in Teams /\ job[r].station \in Stations
        /\ KnowsAt(pc[r], job[r]) /\ WorthAt(pc[r], job[r]) /\ Prepared(r)
        /\ Story(r, job[r].team)
<1>1. pc[r] # "idle"
  BY DEF RowPCs, CodePCs
<1>2. /\ TypeOK /\ Coherent(r) /\ Prepared(r) /\ job[r] \in Job /\ job[r].team \in Teams
      /\ job[r].station \in Stations /\ Story(r, job[r].team)
  BY <1>1, StoryKnown DEF BoardInv, SerialInv
<1>3. job[r].op \notin BulkOps /\ job[r].op # "resetTasks"
  BY <1>2 DEF Coherent, BulkOps
<1> QED BY <1>1, <1>2, <1>3 DEF BoardInv, SerialInv

\* An open task is open on the board, and what is in progress there is so in its row.
LEMMA OpenShown ==
  ASSUME OneAtATime, BoardInv, BoardInv', NEW r \in Slots, pc[r] \in {"start", "upsert"},
         NEW t \in Teams, NEW s \in Stations, t = job[r].team, s = job[r].station
  PROVE /\ BoardNow[t][s] \in {"todo", "in-progress"} /\ latest[t][s] # "failed"
        /\ progress[t][s].status # "DONE"
        /\ \A u \in Teams : BoardNow[u][s] = "in-progress" => progress[u][s].status = "IN_PROGRESS"
<1>1. /\ progress[t][s] \in Row /\ progress[t][s].status # "DONE" /\ Story(r, t)
      /\ job[r].op # "resetTasks"
  BY Serving DEF KnowsAt, RowPCs, TypeOK
<1>2. Explained(t, s)
  BY <1>1 DEF Story, BeforePCs, AheadPCs, Fits
<1>3. latest[t][s] # "failed"
  BY <1>1, <1>2 DEF Explained
<1>4. \A u \in Teams : BoardNow[u][s] = Field(r, u, s)
  BY BoardIs
<1>5. Field(r, t, s) \in {"todo", "in-progress"}
  BY <1>1, <1>3 DEF Field, Reads, Row, Statuses
<1>6. \A u \in Teams : Field(r, u, s) = "in-progress" => progress[u][s].status = "IN_PROGRESS"
  <2> SUFFICES ASSUME NEW u \in Teams, Field(r, u, s) = "in-progress"
               PROVE progress[u][s].status = "IN_PROGRESS"
    OBVIOUS
  <2> QED BY DEF Field, Reads
<1> QED BY <1>1, <1>3, <1>4, <1>5, <1>6

\* A saved row is shown together with the outcome that is going to be logged.
LEMMA SaveShows ==
  ASSUME OneAtATime, BoardInv, BoardInv', NEW r \in Slots, pc[r] \in RowPCs \ {"read"},
         NEW status, NEW pts, NEW started, NEW next \in {"idle", "clear", "log"}, NEW outcome,
         Save(r, status, pts, started, next, outcome),
         NEW t \in Teams, NEW s \in Stations, t = job[r].team, s = job[r].station,
         NEW worth, worth = IF status = "DONE" THEN pts ELSE NotDone
  PROVE Board!Put(t, s, FieldOf(status, IF next = "idle" THEN latest[t][s] ELSE outcome), worth)
<1> DEFINE j == job[r]
<1>1. /\ TypeOK /\ j \in Job /\ KnowsAt(pc[r], j) /\ j.op # "resetTasks" /\ pc[r] # "idle"
      /\ pc[r] \notin {"clear", "log"}
  BY Serving DEF RowPCs
<1>2. progress[t][s].id = j.seen.id
  BY <1>1 DEF KnowsAt
<1>3. PICK row : row = [status |-> status, pts |-> pts, started |-> started,
                        id |-> IF progress[t][s].status = "none" THEN epoch ELSE progress[t][s].id]
  OBVIOUS
<1>4. /\ progress' = [progress EXCEPT ![t][s] = row] /\ UNCHANGED <<claims, latest>>
      /\ IF next = "idle" THEN Finish(r) ELSE Go(r, next, [j EXCEPT !.outcome = outcome])
  BY <1>2, <1>3 DEF Save
<1>5. row.status = status /\ row.pts = pts
  BY <1>3
<1>6. PICK k : k = [j EXCEPT !.outcome = outcome]
  OBVIOUS
<1>7. k.op = j.op /\ k.team = t /\ k.station = s /\ k.outcome = outcome
  BY <1>1, <1>6 DEF Job
<1>8. pc'[r] = next /\ (next # "idle" => job'[r] = k)
  BY <1>1, <1>4, <1>6, GoMoves DEF Finish
<1>9. \A u \in Teams, x \in Stations :
         progress'[u][x] = IF u = t /\ x = s THEN row ELSE progress[u][x]
  BY <1>1, <1>4 DEF TypeOK
<1>10. Field(r, t, s)' = FieldOf(status, IF next = "idle" THEN latest[t][s] ELSE outcome)
  <2>1. CASE next = "idle"
    BY <1>4, <1>5, <1>8, <1>9, <2>1 DEF Field, Reads, FieldOf
  <2>2. CASE next # "idle"
    BY <1>1, <1>4, <1>5, <1>7, <1>8, <1>9, <2>2 DEF Field, Reads, FieldOf
  <2> QED BY <2>1, <2>2
<1>11. ASSUME NEW u \in Teams, NEW x \in Stations, u # t \/ x # s PROVE Field(r, u, x)' = Field(r, u, x)
  <2>1. progress'[u][x] = progress[u][x] /\ latest'[u][x] = latest[u][x]
    BY <1>4, <1>9, <1>11
  <2>2. CASE next = "idle"
    BY <1>1, <1>8, <2>1, <2>2 DEF Field, Reads
  <2>3. CASE next # "idle"
    BY <1>1, <1>7, <1>8, <1>11, <2>1, <2>3 DEF Field, Reads
  <2> QED BY <2>2, <2>3
<1> QED BY <1>4, <1>5, <1>10, <1>11, PutIs

\* A decided task is passed with one of the awards of its station.
LEMMA Passes ==
  ASSUME NEW t \in Teams, NEW s \in Stations, NEW a \in Worths(s),
         Board!Put(t, s, FieldOf("DONE", "completed"), a)
  PROVE BoardStep
<1>1. FieldOf("DONE", "completed") = "done"
  BY DEF FieldOf
<1>2. Board!Pass(t, s)
  BY <1>1 DEF Board!Pass, Worths
<1> QED BY <1>2 DEF BoardStep, Board!Next

\* Starting, deciding and resetting one task.
LEMMA TaskShows ==
  ASSUME OneAtATime, BoardInv, BoardInv', NEW r \in Slots, OneMoves(r), Task(r)
  PROVE BoardStep
<1> DEFINE j == job[r]
<1>1. PICK t \in Teams, s \in Stations : t = j.team /\ s = j.station
  BY SeenType DEF BoardInv, SerialInv, StoryInv, IInv
<1>2. TypeOK
  BY DEF BoardInv, SerialInv, StoryInv, IInv
<1>3. CASE ReadStart(r) \/ CheckBusy(r) \/ ReadComplete(r) \/ CheckBonus(r) \/ ReadFail(r) \/ ReadContext(r)
  <2>1. pc[r] \in RowPCs /\ UNCHANGED store
    BY <1>3 DEF ReadStart, CheckBusy, ReadComplete, CheckBonus, ReadFail, ReadContext, At, RowPCs
  <2>2. \E p \in {"idle", "start", "busy", "bonus", "finalize", "fail", "write"} : \E k : Go(r, p, k)
    BY <1>3 DEF ReadStart, CheckBusy, ReadComplete, CheckBonus, ReadFail, ReadContext, Finish, Judge
  <2>3. pc'[r] \notin {"clear", "log"}
    BY <1>2, <2>2, GoMoves
  <2>4. pc[r] \notin {"clear", "log"} /\ UNCHANGED <<progress, claims, latest>>
    BY <2>1 DEF RowPCs, store
  <2>5. j.op # "resetTasks"
    BY <2>1, Serving
  <2> QED BY <2>3, <2>4, <2>5, QuietGo
<1>4. CASE WriteStarted(r)
  <2>1. pc[r] = "start" /\ pc[r] \in RowPCs \ {"read"}
    BY <1>4 DEF WriteStarted, RowPCs
  <2>2. /\ BoardNow[t][s] \in {"todo", "in-progress"} /\ latest[t][s] # "failed"
        /\ \A u \in Teams : BoardNow[u][s] = "in-progress" => progress[u][s].status = "IN_PROGRESS"
    BY <1>1, <2>1, OpenShown
  <2>3. Board!Put(t, s, FieldOf("IN_PROGRESS", latest[t][s]), NotDone)
    BY <1>1, <1>4, <2>1, SaveShows DEF WriteStarted
  <2>4. FieldOf("IN_PROGRESS", latest[t][s]) = "in-progress"
    BY <2>2 DEF FieldOf
  <2>5. s \notin SharedStations => \A u \in Teams \ {t} : progress[u][s].status # "IN_PROGRESS"
    BY <1>1, <2>1, Serving DEF KnowsAt
  <2>6. Board!Begin(t, s)
    <3>1. Board!Open(t, s)
      BY <2>2, Zenon DEF Board!Open, BoardNow
    <3>2. s \in Stations \ (SharedStations \cup QrStations \cup PhotoStations)
            => \A u \in Teams \ {t} : BoardNow[u][s] # "in-progress"
      BY <2>2, <2>5
    <3>3. Board!Put(t, s, "in-progress", Board!NotDone)
      BY <2>3, <2>4 DEF Board!NotDone, NotDone
    <3> QED BY <3>1, <3>2, <3>3, Zenon DEF Board!Begin, BoardNow
  <2> QED BY <2>6 DEF BoardStep, Board!Next
<1>5. CASE Finalize(r)
  <2>1. pc[r] = "finalize" /\ pc[r] \in RowPCs \ {"read"}
    BY <1>5 DEF Finalize, RowPCs
  <2>2. PICK a, started : a = j.award /\ started = j.seen.started
    OBVIOUS
  <2>3. Save(r, "DONE", a, started, "log", "completed")
    BY <1>5, <2>2 DEF Finalize
  <2>4. Board!Put(t, s, FieldOf("DONE", "completed"), a)
    BY <1>1, <2>1, <2>3, SaveShows
  <2>5. a \in Worths(s)
    BY <1>1, <2>1, <2>2, Serving DEF WorthAt
  <2> QED BY <2>4, <2>5, Passes
<1>6. CASE MarkFailed(r)
  <2>1. pc[r] \in RowPCs \ {"read"}
    BY <1>6 DEF MarkFailed, RowPCs
  <2>2. Board!Put(t, s, FieldOf("DONE", "failed"), 0)
    BY <1>1, <1>6, <2>1, SaveShows DEF MarkFailed
  <2>3. FieldOf("DONE", "failed") = "failed"
    BY DEF FieldOf
  <2> QED BY <2>2, <2>3 DEF BoardStep, Board!Next, Board!Fail
<1>7. CASE AdminComplete(r)
  <2>1. pc[r] \in RowPCs \ {"read"}
    BY <1>7 DEF AdminComplete, At, RowPCs
  <2>2. Board!Put(t, s, FieldOf("DONE", "completed"), AdminAward[s])
    BY <1>1, <1>7, <2>1, SaveShows DEF AdminComplete
  <2>3. AdminAward[s] \in Worths(s)
    BY DEF Worths
  <2> QED BY <2>2, <2>3, Passes
<1>8. CASE AdminReset(r)
  <2>1. pc[r] \in RowPCs \ {"read"}
    BY <1>8 DEF AdminReset, At, RowPCs
  <2>2. Board!Put(t, s, FieldOf("TODO", "reset"), NotDone)
    BY <1>1, <1>8, <2>1, SaveShows DEF AdminReset
  <2>3. FieldOf("TODO", "reset") = "todo" /\ NotDone = Board!NotDone
    BY DEF FieldOf, NotDone, Board!NotDone
  <2> QED BY <2>2, <2>3 DEF BoardStep, Board!Next, Board!ResetTask
<1>9. CASE ClearScans(r) \/ LogOutcome(r)
  <2>1. pc[r] \in {"clear", "log"} /\ UNCHANGED <<progress, claims>>
    BY <1>9 DEF ClearScans, LogOutcome
  <2>2. j.op # "resetTasks"
    BY <2>1, Serving
  <2>3. ASSUME NEW u \in Teams, NEW x \in Stations PROVE Field(r, u, x)' = Field(r, u, x)
    <3>1. CASE ClearScans(r)
      <4>1. pc'[r] = "log" /\ job'[r] = j /\ UNCHANGED latest
        BY <1>2, <3>1, GoMoves DEF ClearScans
      <4> QED BY <2>1, <2>2, <4>1 DEF Field, Reads
    <3>2. CASE LogOutcome(r)
      <4>1. pc[r] = "log" /\ pc'[r] = "tasks" /\ job'[r] = j
        BY <1>2, <3>2, GoMoves DEF LogOutcome
      <4>2. latest'[u][x] = IF u = t /\ x = s THEN j.outcome ELSE latest[u][x]
        BY <1>1, <1>2, <3>2 DEF LogOutcome, TypeOK
      <4> QED BY <1>1, <2>1, <2>2, <4>1, <4>2 DEF Field, Reads
    <3> QED BY <1>9, <3>1, <3>2
  <2> QED BY <2>1, <2>3, Unseen
<1> QED BY <1>3, <1>4, <1>5, <1>6, <1>7, <1>8, <1>9 DEF Task

\* A submission without a start begins the task, one label more is not seen.
LEMMA SubmissionShows ==
  ASSUME OneAtATime, BoardInv, BoardInv', NEW r \in Slots, OneMoves(r), Submission(r)
  PROVE BoardStep
<1> DEFINE j == job[r]
<1>1. PICK t \in Teams, s \in Stations : t = j.team /\ s = j.station
  BY SeenType DEF BoardInv, SerialInv, StoryInv, IInv
<1>2. TypeOK
  BY DEF BoardInv, SerialInv, StoryInv, IInv
<1>3. CASE ReadPhoto(r) \/ SavePhoto(r) \/ ReadScan(r) \/ SaveScan(r) \/ CountScans(r)
  <2>1. pc[r] \in RowPCs /\ UNCHANGED <<progress, claims, latest>>
    BY <1>3 DEF ReadPhoto, SavePhoto, ReadScan, SaveScan, CountScans, At, RowPCs, store
  <2>2. \E p \in {"idle", "photo", "scan", "upsert", "bonus", "finalize", "fail"} : \E k : Go(r, p, k)
    BY <1>3 DEF ReadPhoto, SavePhoto, ReadScan, SaveScan, CountScans, Finish, Judge
  <2>3. pc'[r] \notin {"clear", "log"}
    BY <1>2, <2>2, GoMoves
  <2>4. pc[r] \notin {"clear", "log"}
    BY <2>1 DEF RowPCs
  <2>5. j.op # "resetTasks"
    BY <2>1, Serving
  <2> QED BY <2>1, <2>3, <2>4, <2>5, QuietGo
<1>4. CASE UpsertRow(r)
  <2>1. pc[r] = "upsert" /\ pc[r] \in RowPCs
    BY <1>4 DEF UpsertRow, RowPCs
  <2>2. /\ BoardNow[t][s] \in {"todo", "in-progress"} /\ latest[t][s] # "failed"
    BY <1>1, <2>1, OpenShown
  <2>3. PICK row : row = Upserted(progress[t][s])
    OBVIOUS
  <2>4. row.status = "IN_PROGRESS"
    BY <1>2, <2>3 DEF Upserted, TypeOK, Row
  <2>5. progress' = [progress EXCEPT ![t][s] = row] /\ UNCHANGED <<claims, latest>>
    BY <1>1, <1>4, <2>3 DEF UpsertRow
  <2>6. pc'[r] \in {"idle", "count"}
    <3>1. \E p \in {"idle", "count"} : \E k : Go(r, p, k)
      BY <1>4 DEF UpsertRow, Finish
    <3> QED BY <1>2, <3>1, GoMoves
  <2>7. \A u \in Teams, x \in Stations :
           progress'[u][x] = IF u = t /\ x = s THEN row ELSE progress[u][x]
    BY <1>2, <2>5 DEF TypeOK
  <2>8. j.op # "resetTasks" /\ (pc'[r] # "idle" => job'[r].op # "resetTasks")
    BY <2>1, Serving DEF OneMoves
  <2>9. Field(r, t, s)' = "in-progress"
    BY <2>2, <2>4, <2>5, <2>6, <2>7 DEF Field, Reads
  <2>10. ASSUME NEW u \in Teams, NEW x \in Stations, u # t \/ x # s PROVE Field(r, u, x)' = Field(r, u, x)
    <3>1. progress'[u][x] = progress[u][x] /\ latest'[u][x] = latest[u][x]
      BY <2>5, <2>7, <2>10
    <3> QED BY <2>1, <2>6, <2>8, <3>1 DEF Field, Reads
  <2>11. NotDone = IF row.status = "DONE" THEN row.pts ELSE NotDone
    BY <2>4
  <2>12. Board!Put(t, s, "in-progress", NotDone)
    BY <2>5, <2>9, <2>10, <2>11, PutIs
  <2>13. Board!Begin(t, s)
    <3>1. Board!Open(t, s)
      BY <2>2, Zenon DEF Board!Open, BoardNow
    <3>2. s \in QrStations \cup PhotoStations
      BY <1>1, <2>1, Serving DEF Prepared
    <3>3. s \notin Stations \ (SharedStations \cup QrStations \cup PhotoStations)
      BY <3>2
    <3>4. Board!Put(t, s, "in-progress", Board!NotDone)
      BY <2>12 DEF Board!NotDone, NotDone
    <3> QED BY <3>1, <3>3, <3>4, Zenon DEF Board!Begin
  <2> QED BY <2>13 DEF BoardStep, Board!Next
<1> QED BY <1>3, <1>4 DEF Submission

\* A new claim is counted at once; a code for the first team was claimed by nobody.
LEMMA ClaimShows ==
  ASSUME OneAtATime, BoardInv, BoardInv', NEW r \in Slots, OneMoves(r), Claim(r)
  PROVE BoardStep
<1> DEFINE j == job[r]
<1>1. pc[r] \in CodePCs /\ pc[r] \notin {"clear", "log"} /\ UNCHANGED <<progress, latest>>
  BY DEF Claim, FindCode, CheckFirstTeam, CreateClaim, CodePCs, store
<1>2. TypeOK /\ j.op # "resetTasks" /\ j \in Job /\ KnowsAt(pc[r], j)
  BY <1>1, Serving
<1>3. \E p \in {"idle", "first", "claim", "tasks"} : \E k : Go(r, p, k)
  BY DEF Claim, FindCode, CheckFirstTeam, CreateClaim, Finish
<1>4. pc'[r] \notin {"clear", "log"}
  BY <1>2, <1>3, GoMoves
<1>5. CASE UNCHANGED claims
  BY <1>1, <1>2, <1>4, <1>5, QuietGo
<1>6. CASE CreateClaim(r) /\ j.code \in live /\ j.code \notin claims[j.team]
  <2>1. PICK t \in Teams, c \in Codes : t = j.team /\ c = j.code
    BY <1>2, <1>6 DEF TypeOK, Job
  <2>2. /\ pc[r] = "claim" /\ claims' = [claims EXCEPT ![t] = @ \cup {c}]
    BY <1>6, <2>1 DEF CreateClaim
  <2>3. c \in FirstTeamCodes => \A u \in Teams : c \notin claims[u]
    BY <1>2, <2>1, <2>2 DEF KnowsAt
  <2>4. \A u \in Teams : claims'[u] = IF u = t THEN claims[u] \cup {c} ELSE claims[u]
    BY <1>2, <2>2 DEF TypeOK
  <2>5. PICK b, nb, w, nw : b = BoardNow /\ nb = BoardNow' /\ w = TotalNow /\ nw = TotalNow'
    OBVIOUS
  <2>6. nb = b
    <3>1. b = [u \in Teams |-> b[u]] /\ nb = [u \in Teams |-> nb[u]]
      BY <2>5 DEF BoardNow
    <3>2. ASSUME NEW u \in Teams PROVE nb[u] = b[u]
      <4>1. ASSUME NEW x \in Stations PROVE Field(r, u, x)' = Field(r, u, x)
        <5>1. pc[r] # "idle" /\ (pc'[r] # "idle" => job'[r].op = job[r].op)
          BY DEF OneMoves
        <5> QED BY <1>1, <1>2, <1>4, <5>1 DEF Field, Reads
      <4>2. b[u] = [x \in Stations |-> Field(r, u, x)] /\ nb[u] = [x \in Stations |-> Field(r, u, x)']
        BY <2>5, BoardIs
      <4> QED BY <4>1, <4>2, Zenon
    <3> QED BY <3>1, <3>2
  <2>7. \A u \in Teams : w[u] = Earned(u) /\ nw[u] = Earned(u)'
    BY <2>5, BoardIs
  <2>8. ASSUME NEW u \in Teams PROVE w[u].codes = claims[u]
    <3>1. w[u] = [awards |-> Counted(progress[u]), codes |-> claims[u]]
      BY <2>7 DEF Earned
    <3> QED BY <3>1
  <2>9. nw = [w EXCEPT ![t].codes = @ \cup {c}]
    <3>1. w = [u \in Teams |-> w[u]] /\ nw = [u \in Teams |-> nw[u]]
      BY <2>5 DEF TotalNow
    <3>2. w[t] = [awards |-> Counted(progress[t]), codes |-> claims[t]]
      BY <2>7 DEF Earned
    <3>3. nw[t] = [awards |-> Counted(progress[t]), codes |-> claims[t] \cup {c}]
      BY <1>1, <2>4, <2>7 DEF Earned, Counted
    <3>4. nw[t] = [w[t] EXCEPT !.codes = @ \cup {c}]
      BY <3>2, <3>3
    <3>5. \A u \in Teams \ {t} : nw[u] = w[u]
      <4> SUFFICES ASSUME NEW u \in Teams \ {t} PROVE nw[u] = w[u]
        OBVIOUS
      <4>1. progress'[u] = progress[u] /\ claims'[u] = claims[u]
        BY <1>1, <2>4
      <4> QED BY <2>7, <4>1, Frame
    <3> QED BY <3>1, <3>4, <3>5
  <2>10. c \in FirstTeamCodes => \A u \in Teams : c \notin TotalNow[u].codes
    BY <2>3, <2>5, <2>8
  <2>11. TotalNow' = [TotalNow EXCEPT ![t].codes = @ \cup {c}] /\ BoardNow' = BoardNow
    BY <2>5, <2>6, <2>9
  <2>12. Board!ClaimCode(t, c)
    BY <2>10, <2>11, Zenon DEF Board!ClaimCode, BoardNow, TotalNow
  <2> QED BY <2>12 DEF BoardStep, Board!Next
<1> QED BY <1>5, <1>6 DEF Claim, FindCode, CheckFirstTeam, CreateClaim, store

\* The board counts what is written already, so a recalculation is not seen.
LEMMA RecalculateShows ==
  ASSUME OneAtATime, BoardInv, BoardInv', NEW r \in Slots, OneMoves(r),
         Recalculate(r) \/ ClearFoundScans(r)
  PROVE BoardStep
<1> DEFINE j == job[r]
<1>1. TypeOK /\ Coherent(r) /\ j \in Job
  BY SeenType DEF BoardInv, SerialInv, StoryInv, IInv
<1>2. pc[r] \notin {"clear", "log"} /\ UNCHANGED <<progress, claims, latest>>
  BY DEF Recalculate, ReadTasks, ReadClaims, WriteTotal, ClearFoundScans, store
<1>3. (Finish(r) /\ j.op # "resetTasks") \/ \E p \in {"claims", "total", "tasks", "logAll"} : \E k : Go(r, p, k)
  <2>1. CASE ReadTasks(r) \/ ReadClaims(r)
    BY <2>1 DEF ReadTasks, ReadClaims
  <2>2. CASE WriteTotal(r)
    BY <1>1, <2>2, NextTeamGo DEF WriteTotal
  <2>3. CASE ClearFoundScans(r)
    <3>1. PICK k : k = [j EXCEPT !.left = {p[1] : p \in j.found}]
      OBVIOUS
    <3>2. {p[1] : p \in j.found} \in SUBSET Teams
      BY <1>1 DEF Job
    <3>3. k \in Job
      BY <1>1, <3>1, <3>2 DEF Job
    <3>4. NextTeam(r, k)
      BY <2>3, <3>1 DEF ClearFoundScans
    <3>5. \E next \in {"tasks", "logAll"} : \E i : Go(r, next, i) /\ i.op = k.op /\ i.station = k.station
      BY <3>3, <3>4, NextTeamGo
    <3> QED BY <3>5
  <2> QED BY <2>1, <2>2, <2>3 DEF Recalculate
<1>4. pc'[r] \notin {"clear", "log"} /\ (pc'[r] # "idle" \/ j.op # "resetTasks")
  BY <1>1, <1>3, GoMoves DEF Finish
<1> QED BY <1>2, <1>4, QuietGo

\* A reset of all tasks is seen as it is written, and not again when it is logged.
LEMMA ResetShows ==
  ASSUME OneAtATime, BoardInv, BoardInv', NEW r \in Slots, OneMoves(r), Reset(r)
  PROVE BoardStep
<1> DEFINE j == job[r]
<1>1. /\ TypeOK /\ Coherent(r) /\ j \in Job /\ Forgotten(r) /\ pc[r] # "idle" /\ j.op # "resetGame"
  BY SeenType DEF BoardInv, SerialInv, StoryInv, IInv, OneMoves
<1>2. CASE FindResettable(r)
  <2>1. pc[r] = "find" /\ j.op = "resetTasks" /\ UNCHANGED <<progress, claims, latest>>
    BY <1>1, <1>2 DEF FindResettable, Coherent, store
  <2>2. ASSUME NEW t \in Teams, NEW s \in Stations, latest[t][s] = "failed"
        PROVE progress[t][s].status # "TODO"
    <3>1. Story(r, t)
      BY <2>1, StoryKnown DEF BoardInv, SerialInv, BulkOps
    <3>2. Explained(t, s)
      BY <2>1, <3>1 DEF Story, Fits
    <3> QED BY <2>2, <3>2 DEF Explained
  <2>3. \E p \in {"idle", "resetAll"} : \E k : Go(r, p, k)
    BY <1>2 DEF FindResettable, Finish
  <2>4. pc'[r] \notin {"clear", "log"}
    BY <1>1, <2>3, GoMoves
  <2> QED BY <2>1, <2>2, <2>4, QuietGo
<1>3. CASE ResetRows(r)
  <2>1. /\ pc'[r] = "clearAll" /\ job'[r] = j /\ j.op = "resetTasks"
        /\ UNCHANGED <<claims, latest>>
    BY <1>1, <1>3, GoMoves DEF ResetRows, Coherent
  <2>2. Forgotten(r)'
    BY DEF BoardInv
  <2>3. ASSUME NEW t \in Teams, NEW s \in Stations
        PROVE /\ progress'[t][s].status \in {"none", "TODO"}
              /\ latest'[t][s] = "failed" => progress'[t][s].status = "TODO"
    <3>1. progress[t][s] \in Row
      BY <1>1 DEF TypeOK
    <3>2. progress'[t][s] = IF progress[t][s].status \in {"DONE", "IN_PROGRESS"}
                            THEN [progress[t][s] EXCEPT !.status = "TODO", !.pts = 0, !.started = FALSE]
                            ELSE progress[t][s]
      BY <1>3 DEF ResetRows
    <3>3. [progress[t][s] EXCEPT !.status = "TODO", !.pts = 0, !.started = FALSE].status = "TODO"
      BY <3>1 DEF Row
    <3>4. progress'[t][s].status \in {"none", "TODO"}
      BY <3>1, <3>2, <3>3 DEF Row, Statuses
    <3>5. latest'[t][s] = "failed" => progress'[t][s].status = "TODO"
      BY <2>1, <2>2 DEF Forgotten, AfterPCs
    <3> QED BY <3>4, <3>5
  <2>4. PICK b, nb, w, nw : b = BoardNow /\ nb = BoardNow' /\ w = TotalNow /\ nw = TotalNow'
    OBVIOUS
  <2>5. nb = [t \in Teams |-> [s \in Stations |-> "todo"]]
    <3>1. nb = [t \in Teams |-> nb[t]]
      BY <2>4 DEF BoardNow
    <3>2. ASSUME NEW t \in Teams PROVE nb[t] = [s \in Stations |-> "todo"]
      <4>1. ASSUME NEW s \in Stations PROVE Field(r, t, s)' = "todo"
        BY <2>1, <2>3 DEF Field, Reads
      <4>2. nb[t] = [s \in Stations |-> Field(r, t, s)']
        BY <2>4, BoardIs
      <4> QED BY <4>1, <4>2, Zenon
    <3> QED BY <3>1, <3>2
  <2>6. nw = [t \in Teams |-> [w[t] EXCEPT !.awards = [s \in Stations |-> NotDone]]]
    <3>1. nw = [t \in Teams |-> nw[t]]
      BY <2>4 DEF TotalNow
    <3>2. ASSUME NEW t \in Teams
          PROVE nw[t] = [w[t] EXCEPT !.awards = [s \in Stations |-> NotDone]]
      <4>1. w[t] = Earned(t) /\ nw[t] = Earned(t)'
        BY <2>4, BoardIs
      <4>2. w[t] = [awards |-> Counted(progress[t]), codes |-> claims[t]]
        BY <4>1 DEF Earned
      <4>3. nw[t] = [awards |-> Counted(progress'[t]), codes |-> claims[t]]
        BY <2>1, <4>1 DEF Earned, Counted
      <4>4. Counted(progress'[t]) = [s \in Stations |-> NotDone]
        BY <2>3 DEF Counted
      <4> QED BY <4>2, <4>3, <4>4
    <3> QED BY <3>1, <3>2
  <2>7. /\ BoardNow' = [t \in Teams |-> [s \in Stations |-> "todo"]]
        /\ TotalNow' = [t \in Teams |-> [TotalNow[t] EXCEPT !.awards = [s \in Stations |-> Board!NotDone]]]
    BY <2>4, <2>5, <2>6 DEF Board!NotDone, NotDone
  <2>8. Board!ResetAll
    BY <2>7, Zenon DEF Board!ResetAll, BoardNow, TotalNow
  <2> QED BY <2>8 DEF BoardStep, Board!Next
<1>4. CASE ClearFoundScans(r)
  BY <1>4, RecalculateShows
<1>5. CASE Wipe(r) \/ ZeroTotals(r) \/ Reopen(r)
  BY <1>1, <1>5 DEF Wipe, ZeroTotals, Reopen, Coherent
<1>6. CASE LogReset(r)
  <2>1. pc[r] = "logAll" /\ j.op = "resetTasks" /\ UNCHANGED <<progress, claims>> /\ pc'[r] = "idle"
    BY <1>1, <1>6, GoMoves DEF LogReset, Coherent, BulkOps, Finish
  <2>2. ASSUME NEW t \in Teams, NEW s \in Stations PROVE Field(r, t, s)' = Field(r, t, s)
    <3>1. latest'[t][s] = "none"
      BY <1>6 DEF LogReset
    <3>2. latest[t][s] = "failed" => progress[t][s].status = "TODO"
      BY <1>1, <2>1 DEF Forgotten, AfterPCs
    <3> QED BY <2>1, <3>1, <3>2 DEF Field, Reads
  <2> QED BY <2>1, <2>2, Unseen
<1> QED BY <1>2, <1>3, <1>4, <1>5, <1>6 DEF Reset

\* The arrival of a request is not seen.
LEMMA ReceiveShows ==
  ASSUME OneAtATime, Uncut, BoardInv, BoardInv', NEW r \in Slots, Receive(r)
  PROVE BoardStep
<1>1. PICK first \in {"read", "code", "find"} : \E j, T : Accept(r, first, j, T) /\ j.op # "resetGame"
  BY Arrives
<1> PICK j, T : Accept(r, first, j, T) /\ j.op # "resetGame"
  BY <1>1
<1>2. pc[r] = "idle" /\ pc'[r] = first /\ job'[r] = j /\ UNCHANGED <<progress, claims, latest>>
  BY <1>1 DEF Accept, BoardInv, SerialInv, StoryInv, IInv, TypeOK, store
<1>3. ASSUME NEW t \in Teams, NEW s \in Stations PROVE Field(r, t, s)' = Field(r, t, s)
  <2>1. Idle(t)
    BY <1>2 DEF Idle, BusyOn, OneAtATime
  <2>2. Fits(t)
    BY <2>1 DEF BoardInv, SerialInv, StoryInv, Told
  <2>3. latest[t][s] = "failed" => progress[t][s].status # "TODO"
    BY <2>2 DEF Fits, Explained
  <2> QED BY <1>1, <1>2, <2>3 DEF Field, Reads
<1> QED BY <1>2, <1>3, Unseen

\* What is shown depends on rows, events, claims, totals and handlers only.
LEMMA NothingShows ==
  ASSUME OneAtATime, BoardInv, BoardInv', UNCHANGED <<progress, claims, tally, latest, pc, job, disturbed>>
  PROVE BoardStep
<1>1. CASE Slots = {}
  <2>1. ASSUME NEW t \in Teams, NEW s \in Stations PROVE Shown(t, s)' = Shown(t, s)
    <3>1. progress'[t][s] = progress[t][s] /\ latest'[t][s] = latest[t][s]
      OBVIOUS
    <3> QED BY <1>1, <3>1 DEF Shown
  <2>2. ASSUME NEW t \in Teams PROVE Idle(t) /\ Idle(t)' /\ tally'[t] = tally[t]
    BY <1>1 DEF Idle
  <2>3. BoardNow' = BoardNow
    <3>1. PICK b, nb : b = BoardNow /\ nb = BoardNow'
      OBVIOUS
    <3>2. b = [t \in Teams |-> b[t]] /\ nb = [t \in Teams |-> nb[t]]
      BY <3>1 DEF BoardNow
    <3>3. ASSUME NEW t \in Teams PROVE nb[t] = b[t]
      <4>1. b[t] = [s \in Stations |-> Shown(t, s)] /\ nb[t] = [s \in Stations |-> Shown(t, s)']
        BY <3>1, Zenon DEF BoardNow
      <4> QED BY <2>1, <4>1, Zenon
    <3> QED BY <3>1, <3>2, <3>3
  <2>4. TotalNow' = TotalNow
    BY <2>2 DEF TotalNow
  <2> QED BY <2>3, <2>4 DEF BoardStep
<1>2. ASSUME NEW r \in Slots PROVE BoardStep
  <2>1. \A t \in Teams, s \in Stations : Field(r, t, s)' = Field(r, t, s)
    BY DEF Field, Reads
  <2> QED BY <2>1, Unseen
<1> QED BY <1>1, <1>2

LEMMA BoardShows ==
  ASSUME OneAtATime, Uncut, BoardInv, BoardInv', [Next]_vars
  PROVE BoardStep
<1>1. ASSUME NEW r \in Slots, Serve(r) PROVE BoardStep
  <2>1. OneMoves(r)
    BY <1>1, SameRequest DEF BoardInv, SerialInv, StoryInv
  <2> QED BY <1>1, <2>1, TaskShows, SubmissionShows, ClaimShows, RecalculateShows, ResetShows DEF Serve
<1>2. ASSUME NEW r \in Slots, Receive(r) PROVE BoardStep
  BY <1>2, ReceiveShows
<1> QED BY <1>1, <1>2, NothingShows, Uneventful

\* Before the first request every task is open and every total is empty.
LEMMA BoardStart == ASSUME OneAtATime, Init PROVE BoardInv /\ Board!Init
<1>1. \A r \in Slots : pc[r] = "idle"
  BY DEF Init
<1>2. BoardInv
  BY <1>1, SerialInit DEF Init, BoardInv, WorthAt, Forgotten, AfterPCs
<1>3. ASSUME NEW t \in Teams, NEW s \in Stations PROVE Shown(t, s) = "todo"
  <2>1. progress[t][s].status = "none" /\ latest[t][s] = "none"
    BY DEF Init, NoRow
  <2> QED BY <1>1, <2>1 DEF Shown
<1>4. ASSUME NEW t \in Teams
      PROVE Idle(t) /\ tally[t] = [awards |-> [s \in Stations |-> Board!NotDone], codes |-> {}]
  BY <1>1 DEF Init, Idle, BusyOn, NoTally, NothingCounted, NotDone, Board!NotDone
<1>5. BoardNow = [t \in Teams |-> [s \in Stations |-> "todo"]]
  <2>1. PICK b : b = BoardNow
    OBVIOUS
  <2>2. b = [t \in Teams |-> b[t]]
    BY <2>1 DEF BoardNow
  <2>3. ASSUME NEW t \in Teams PROVE b[t] = [s \in Stations |-> "todo"]
    <3>1. b[t] = [s \in Stations |-> Shown(t, s)]
      BY <2>1, Zenon DEF BoardNow
    <3> QED BY <1>3, <3>1, Zenon
  <2> QED BY <2>1, <2>2, <2>3
<1>6. TotalNow = [t \in Teams |-> [awards |-> [s \in Stations |-> Board!NotDone], codes |-> {}]]
  BY <1>4 DEF TotalNow
<1>7. Board!Init
  BY <1>5, <1>6, Zenon DEF Board!Init, BoardNow, TotalNow
<1> QED BY <1>2, <1>7

\* Served one at a time and not cut off, the handlers implement the board: rows, outcome
\* events, claims and totals change together as if each request were one step, a station
\* in use is not begun by a second team, and what is done is worth an award.
THEOREM TasksKeepBoard == ASSUME OneAtATime, Uncut PROVE Spec => BoardSpec
  <1>1. Init => BoardInv /\ Board!Init
    BY BoardStart
  <1>2. BoardInv /\ [Next]_vars => BoardInv'
    BY BoardKept
  <1>3. BoardInv /\ BoardInv' /\ [Next]_vars
        => [Board!Next]_<<[t \in Teams |-> [s \in Stations |-> Shown(t, s)]],
                          [t \in Teams |-> IF Idle(t) THEN tally[t] ELSE Earned(t)]>>
    BY BoardShows, Zenon DEF BoardStep, BoardNow, TotalNow
  <1> QED BY <1>1, <1>2, <1>3, PTL DEF Spec, BoardSpec, Board!Spec, Board!vars
=============================================================================
