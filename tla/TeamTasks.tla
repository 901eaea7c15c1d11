----------------------------- MODULE TeamTasks -----------------------------
(***************************************************************************)
(* The task life cycle of a realization: the progress row of every team on *)
(* every station, the QR scans, the bonus-code claims, the outcome events  *)
(* and the stored team totals, as mobile.service.ts reads and writes them. *)
(*                                                                         *)
(* Every request is served by an asynchronous handler that awaits one      *)
(* database statement after another without a transaction, so one action   *)
(* below is one awaited statement (or several reads in a row whose results *)
(* nothing can tell apart) and the handlers in Slots interleave freely.    *)
(* A request that is refused before its first write changes nothing and is *)
(* modelled by the guard of the action that would have gone on.            *)
(***************************************************************************)
EXTENDS Integers, FiniteSets

CONSTANTS
  Teams, Stations,
  PhotoStations, QrStations,   \* stations of type 'photo-task' and 'qr-hunt'
  TimerStations,               \* complete requires a started timer
  DecayStations,               \* timed points decay applies: late means failed
  SharedStations,              \* allowConcurrentTeams
  BonusStations,               \* eligible for the fastest-completion bonus
  Labels,                      \* qrScanCodes of every QR station
  Codes, FirstTeamCodes,       \* points QR codes; those with claimMode FIRST_TEAM
  Awards,                      \* Awards[s]: what completing s from a device may earn
  AdminAward, BonusAward,      \* points of a completion by the admin; the bonus
  Slots,                       \* handlers that may be in flight at once
  Ops,                         \* the requests that arrive
  MaxRequests, MaxResets, MaxCrashes,   \* bounds
  NoCode

DeviceOps == {"start", "complete", "fail", "photo", "scan", "claim"}
AdminOps  == {"adminReset", "adminComplete", "adminFail"}
BulkOps   == {"resetTasks", "resetGame"}
OtherOps  == {"finish", "deleteCode"}

ASSUME ConstantsAssumption ==
  /\ Teams # {} /\ Stations # {}
  /\ PhotoStations \subseteq Stations /\ QrStations \subseteq Stations
  /\ TimerStations \subseteq Stations /\ DecayStations \subseteq TimerStations
  /\ SharedStations \subseteq Stations /\ BonusStations \subseteq Stations
  /\ PhotoStations \cap QrStations = {} /\ BonusStations \cap DecayStations = {}
  /\ Labels # {} /\ FirstTeamCodes \subseteq Codes
  /\ Awards \in [Stations -> SUBSET Nat] /\ \A s \in Stations : Awards[s] # {}
  /\ AdminAward \in [Stations -> Nat] /\ BonusAward \in [Stations -> Nat]
  /\ Ops \subseteq DeviceOps \cup AdminOps \cup BulkOps \cup OtherOps
  /\ MaxRequests \in Nat /\ MaxResets \in Nat /\ MaxCrashes \in Nat

VARIABLES
  progress,   \* teamTaskProgress: one row, or none, per team and station
  scans,      \* teamStationScan: the labels a team has scanned at a station
  photos,     \* teamPhoto of kind TASK_PROOF: the stations a team sent one for
  claims,     \* pointsQrCodeClaim: the codes a team has claimed
  live,       \* the points QR codes that exist
  tally,      \* what team.points and team.taskDone were last computed from
  latest,     \* newest outcome event of a team and station since the last reset
  kept,       \* the same among the events of the admin
  ended,      \* the realization is done or its deadline has passed
  epoch,      \* how often the rows have been deleted: the identity of a new row
  pc, job,    \* where each handler is, and what it holds
  served, crashes,
  disturbed   \* history: teams whose handlers overlapped or were cut off

store == <<progress, scans, photos, claims, live, tally, latest, kept, ended, epoch>>
vars  == <<store, pc, job, served, crashes, disturbed>>

-----------------------------------------------------------------------------
Statuses == {"none", "TODO", "IN_PROGRESS", "DONE"}
Row   == [status : Statuses, pts : Nat, started : BOOLEAN, id : Nat]
NoRow == [status |-> "none", pts |-> 0, started |-> FALSE, id |-> 0]

\* A total is kept as its inputs: the award of every DONE row, and the claims.
NotDone == -1
Counted(rows) ==
  [s \in Stations |-> IF rows[s].status = "DONE" THEN rows[s].pts ELSE NotDone]
NothingCounted == [s \in Stations |-> NotDone]
Tally   == [awards : [Stations -> Nat \cup {NotDone}], codes : SUBSET Codes]
NoTally == [awards |-> NothingCounted, codes |-> {}]
Earned(t) == [awards |-> Counted(progress[t]), codes |-> claims[t]]

Outcomes == {"none", "failed", "completed", "reset"}
PCs == {"idle", "read", "busy", "start", "bonus", "finalize", "fail", "write", "clear", "log",
        "photo", "scan", "upsert", "count",
        "code", "first", "claim", "tasks", "claims", "total",
        "find", "resetAll", "clearAll", "wipe", "zero", "reopen", "logAll"}

Job == [op : {"none"} \cup DeviceOps \cup AdminOps \cup BulkOps,
        team : Teams, station : Stations, label : Labels, code : Codes \cup {NoCode},
        seen : Row, outcome : Outcomes, award : Nat, sum : Tally,
        found : SUBSET (Teams \X Stations), left : SUBSET Teams]

AnyTeam == CHOOSE t \in Teams : TRUE
AnyStation == CHOOSE s \in Stations : TRUE
AnyLabel == CHOOSE l \in Labels : TRUE
NoJob == [op |-> "none", team |-> AnyTeam, station |-> AnyStation, label |-> AnyLabel, code |-> NoCode,
          seen |-> NoRow, outcome |-> "none", award |-> 0, sum |-> NoTally,
          found |-> {}, left |-> {}]

TypeOK ==
  /\ progress \in [Teams -> [Stations -> Row]]
  /\ scans \in [Teams -> [Stations -> SUBSET Labels]]
  /\ photos \in [Teams -> SUBSET Stations]
  /\ claims \in [Teams -> SUBSET Codes] /\ live \subseteq Codes
  /\ tally \in [Teams -> Tally]
  /\ latest \in [Teams -> [Stations -> Outcomes]]
  /\ kept \in [Teams -> [Stations -> Outcomes]]
  /\ ended \in BOOLEAN /\ epoch \in Nat
  /\ pc \in [Slots -> PCs] /\ job \in [Slots -> Job]
  /\ served \in Nat /\ crashes \in Nat /\ disturbed \subseteq Teams

Init ==
  /\ progress = [t \in Teams |-> [s \in Stations |-> NoRow]]
  /\ scans = [t \in Teams |-> [s \in Stations |-> {}]]
  /\ photos = [t \in Teams |-> {}]
  /\ claims = [t \in Teams |-> {}] /\ live = Codes
  /\ tally = [t \in Teams |-> NoTally]
  /\ latest = [t \in Teams |-> [s \in Stations |-> "none"]]
  /\ kept = [t \in Teams |-> [s \in Stations |-> "none"]]
  /\ ended = FALSE /\ epoch = 1
  /\ pc = [r \in Slots |-> "idle"] /\ job = [r \in Slots |-> NoJob]
  /\ served = 0 /\ crashes = 0 /\ disturbed = {}

-----------------------------------------------------------------------------
(* Arrival of a request.                                                   *)

BusyOn(r, t) == pc[r] # "idle" /\ (job[r].op \in BulkOps \/ job[r].team = t)
Idle(t) == \A r \in Slots : ~BusyOn(r, t)

\* assertGameplayAllowed: the realization runs and the team has tasks left.
GameplayAllowed(t) == ~ended /\ \E s \in Stations : progress[t][s].status # "DONE"

\* The handler in slot r begins at pc `first`, on behalf of the teams T.
Accept(r, first, j, T) ==
  /\ pc[r] = "idle" /\ served < MaxRequests /\ j.op \in Ops
  /\ pc' = [pc EXCEPT ![r] = first] /\ job' = [job EXCEPT ![r] = j]
  /\ served' = served + 1
  /\ disturbed' = disturbed \cup {t \in T : ~Idle(t)}
  /\ UNCHANGED <<store, crashes>>

\* Mutant of Accepts: task/start is open to photo stations too.
AcceptsPhotoStart(op, s) ==
  CASE op = "complete" -> s \notin QrStations
    [] op = "photo"    -> s \in PhotoStations
    [] OTHER           -> op \in {"start", "fail"} \cup AdminOps

Accepts(op, s) ==
  CASE op = "start"    -> s \notin PhotoStations
    [] op = "complete" -> s \notin QrStations
    [] op = "photo"    -> s \in PhotoStations
    [] OTHER           -> op \in {"fail"} \cup AdminOps

ReceiveTask(r, op, t, s) ==
  /\ Accepts(op, s) /\ (op \in DeviceOps => GameplayAllowed(t))
  /\ Accept(r, "read", [NoJob EXCEPT !.op = op, !.team = t, !.station = s], {t})

ReceiveScan(r, t, s, label) ==
  /\ s \in QrStations /\ GameplayAllowed(t)
  /\ Accept(r, "read", [NoJob EXCEPT !.op = "scan", !.team = t, !.station = s,
                                     !.label = label], {t})

ReceiveCode(r, t, c) ==
  /\ GameplayAllowed(t)
  /\ Accept(r, "code", [NoJob EXCEPT !.op = "claim", !.team = t, !.code = c], {t})

ReceiveResetTasks(r) ==
  Accept(r, "find", [NoJob EXCEPT !.op = "resetTasks"], Teams)

ReceiveResetGame(r) ==
  /\ epoch <= MaxResets
  /\ Accept(r, "wipe", [NoJob EXCEPT !.op = "resetGame"], Teams)

-----------------------------------------------------------------------------
(* One task: read the row, check, write, log, recalculate.                 *)

\* The handler in slot r goes on at pc `next` with job j.
Go(r, next, j) ==
  /\ pc' = [pc EXCEPT ![r] = next] /\ job' = [job EXCEPT ![r] = j]
  /\ UNCHANGED <<served, crashes, disturbed>>

Finish(r) == Go(r, "idle", NoJob)

\* The handler in slot r serves a request op and is at pc `here`.
At(r, op, here) == pc[r] = here /\ job[r].op = op

\* What it holds once it has read the row of its team and station.
Seen(r) == [job[r] EXCEPT !.seen = progress[job[r].team][job[r].station]]

Decided(row) == row.status = "DONE"

\* Mutant of InUse: the team filter is inverted.
InUseByItself(t, s) == progress[t][s].status = "IN_PROGRESS"

\* STATION_IN_USE: some other team has the station in progress.
InUse(t, s) == \E u \in Teams \ {t} : progress[u][s].status = "IN_PROGRESS"

\* Mutant of ReadStart: a decided task can be started again.
ReadStartAgain(r) ==
  LET j == Seen(r)
  IN /\ At(r, "start", "read")
     /\ Go(r, IF j.station \in SharedStations THEN "start" ELSE "busy", j)
     /\ UNCHANGED store

ReadStart(r) ==
  LET j == Seen(r)
  IN /\ At(r, "start", "read")
     /\ IF Decided(j.seen) THEN Finish(r)
        ELSE Go(r, IF j.station \in SharedStations THEN "start" ELSE "busy", j)
     /\ UNCHANGED store

CheckBusy(r) ==
  /\ pc[r] = "busy"
  /\ IF InUse(job[r].team, job[r].station) THEN Finish(r) ELSE Go(r, "start", job[r])
  /\ UNCHANGED store

\* A device's submission is judged: too late on a decaying station fails the
\* task; otherwise it earns one of the station's awards, and the bonus check.
Judge(r, j) ==
  \/ /\ j.station \in DecayStations /\ j.seen.started
     /\ Go(r, "fail", j)
  \/ \E a \in Awards[j.station] :
       Go(r, IF j.station \in BonusStations THEN "bonus" ELSE "finalize",
          [j EXCEPT !.award = a])

ReadComplete(r) ==
  LET j == Seen(r)
  IN /\ At(r, "complete", "read")
     /\ IF Decided(j.seen) \/ (j.station \in TimerStations /\ ~j.seen.started)
        THEN Finish(r) ELSE Judge(r, j)
     /\ UNCHANGED store

\* Mutant of CheckBonus: it looks for teams still at the station.
CheckBonusRunning(r) ==
  LET j == job[r]
      beaten == \E u \in Teams \ {j.team} : progress[u][j.station].status = "IN_PROGRESS"
  IN /\ pc[r] = "bonus"
     /\ Go(r, "finalize", [j EXCEPT !.award = IF beaten THEN @ ELSE @ + BonusAward[j.station]])
     /\ UNCHANGED store

CheckBonus(r) ==
  LET j == job[r]
      beaten == \E u \in Teams \ {j.team} : Decided(progress[u][j.station])
  IN /\ pc[r] = "bonus"
     /\ Go(r, "finalize", [j EXCEPT !.award = IF beaten THEN @ ELSE @ + BonusAward[j.station]])
     /\ UNCHANGED store

ReadFail(r) ==
  LET j == Seen(r)
  IN /\ At(r, "fail", "read")
     /\ IF Decided(j.seen) THEN Finish(r) ELSE Go(r, "fail", j)
     /\ UNCHANGED store

\* The admin's requests look the row up too, but do not ask whether it is decided.
ReadContext(r) ==
  /\ pc[r] = "read" /\ job[r].op \in AdminOps
  /\ Go(r, IF job[r].op = "adminFail" THEN "fail" ELSE "write", Seen(r))
  /\ UNCHANGED store

\* The handler updates the row it read, or creates the one it did not find, and
\* goes on to `next`. If the row was deleted or created meanwhile the statement
\* throws (record not found, unique constraint) and the handler stops there.
Save(r, status, pts, started, next, outcome) ==
  LET j == job[r]
      row == progress[j.team][j.station]
  IN /\ IF row.id = j.seen.id
        THEN /\ progress' = [progress EXCEPT ![j.team][j.station] =
                  [status |-> status, pts |-> pts, started |-> started,
                   id |-> IF row.status = "none" THEN epoch ELSE row.id]]
             /\ IF next = "idle" THEN Finish(r) ELSE Go(r, next, [j EXCEPT !.outcome = outcome])
        ELSE UNCHANGED progress /\ Finish(r)
     /\ UNCHANGED <<scans, photos, claims, live, tally, latest, kept, ended, epoch>>

\* Mutant of WriteStarted: startedAt of an existing row is not set.
WriteStartedOnce(r) ==
  LET row == progress[job[r].team][job[r].station]
  IN /\ pc[r] = "start"
     /\ Save(r, "IN_PROGRESS", row.pts, row.started \/ row.status = "none", "idle", "none")

\* An update leaves the points of the row as they are.
WriteStarted(r) ==
  /\ pc[r] = "start"
  /\ Save(r, "IN_PROGRESS", progress[job[r].team][job[r].station].pts, TRUE, "idle", "none")

Finalize(r) ==
  /\ pc[r] = "finalize"
  /\ Save(r, "DONE", job[r].award, job[r].seen.started, "log", "completed")

\* Mutant of MarkFailed: a failed task costs a point.
MarkFailedPenalised(r) ==
  /\ pc[r] = "fail"
  /\ Save(r, "DONE", -1, job[r].seen.started, "log", "failed")

\* failMobileTask, markMobileTaskFailed and failMobileAdminTeamTask alike.
MarkFailed(r) ==
  /\ pc[r] = "fail"
  /\ Save(r, "DONE", 0, job[r].seen.started, "log", "failed")

AdminComplete(r) ==
  /\ At(r, "adminComplete", "write")
  /\ Save(r, "DONE", AdminAward[job[r].station], TRUE, "log", "completed")

AdminReset(r) ==
  /\ At(r, "adminReset", "write")
  /\ Save(r, "TODO", 0, FALSE, "clear", "reset")

\* Mutant of ClearScans: the scans of a reset task are kept.
ClearNothing(r) ==
  /\ pc[r] = "clear" /\ Go(r, "log", job[r]) /\ UNCHANGED store

\* A reset of a task also forgets the labels scanned for it.
ClearScans(r) ==
  LET j == job[r]
  IN /\ pc[r] = "clear"
     /\ scans' = [scans EXCEPT ![j.team][j.station] = {}]
     /\ Go(r, "log", j)
     /\ UNCHANGED <<progress, photos, claims, live, tally, latest, kept, ended, epoch>>

\* Mutant of LogOutcome: the total is not recalculated.
LogOutcomeOnly(r) ==
  LET j == job[r]
  IN /\ pc[r] = "log"
     /\ latest' = [latest EXCEPT ![j.team][j.station] = j.outcome]
     /\ kept' = IF j.op \in AdminOps
                THEN [kept EXCEPT ![j.team][j.station] = j.outcome] ELSE kept
     /\ Finish(r)
     /\ UNCHANGED <<progress, scans, photos, claims, live, tally, ended, epoch>>

\* task_completed, task_failed or task_reset_by_admin is appended to the log.
LogOutcome(r) ==
  LET j == job[r]
  IN /\ pc[r] = "log"
     /\ latest' = [latest EXCEPT ![j.team][j.station] = j.outcome]
     /\ kept' = IF j.op \in AdminOps
                THEN [kept EXCEPT ![j.team][j.station] = j.outcome] ELSE kept
     /\ Go(r, "tasks", j)
     /\ UNCHANGED <<progress, scans, photos, claims, live, tally, ended, epoch>>

-----------------------------------------------------------------------------
(* Photo and QR submissions: an unconditional upsert after the check.      *)

ReadPhoto(r) ==
  LET j == Seen(r)
  IN /\ At(r, "photo", "read")
     /\ IF Decided(j.seen) THEN Finish(r) ELSE Go(r, "photo", j)
     /\ UNCHANGED store

SavePhoto(r) ==
  /\ pc[r] = "photo"
  /\ photos' = [photos EXCEPT ![job[r].team] = @ \cup {job[r].station}]
  /\ Go(r, "upsert", job[r])
  /\ UNCHANGED <<progress, scans, claims, live, tally, latest, kept, ended, epoch>>

ReadScan(r) ==
  LET j == Seen(r)
  IN /\ At(r, "scan", "read")
     /\ IF Decided(j.seen) THEN Finish(r) ELSE Go(r, "scan", j)
     /\ UNCHANGED store

\* A label that was scanned before is tolerated.
SaveScan(r) ==
  LET j == job[r]
  IN /\ pc[r] = "scan"
     /\ scans' = [scans EXCEPT ![j.team][j.station] = @ \cup {j.label}]
     /\ Go(r, "upsert", j)
     /\ UNCHANGED <<progress, photos, claims, live, tally, latest, kept, ended, epoch>>

\* The update branch sets the status only: startedAt stays as it is.
Upserted(row) ==
  IF row.status = "none"
  THEN [status |-> "IN_PROGRESS", pts |-> 0, started |-> TRUE, id |-> epoch]
  ELSE [row EXCEPT !.status = "IN_PROGRESS"]

UpsertRow(r) ==
  LET j == job[r]
      row == Upserted(progress[j.team][j.station])
  IN /\ pc[r] = "upsert"
     /\ progress' = [progress EXCEPT ![j.team][j.station] = row]
     /\ IF j.op = "photo" THEN Finish(r) ELSE Go(r, "count", [j EXCEPT !.seen = row])
     /\ UNCHANGED <<scans, photos, claims, live, tally, latest, kept, ended, epoch>>

\* The last missing label finalizes the task.
CountScans(r) ==
  LET j == job[r]
  IN /\ pc[r] = "count"
     /\ IF scans[j.team][j.station] = Labels THEN Judge(r, j) ELSE Finish(r)
     /\ UNCHANGED store

-----------------------------------------------------------------------------
(* A points QR code, and recalculateTeamPoints.                            *)

\* Mutant of FindCode: the claim mode is ignored.
FindAnyCode(r) ==
  LET j == job[r]
  IN /\ pc[r] = "code"
     /\ IF j.code \notin live \/ j.code \in claims[j.team] THEN Finish(r) ELSE Go(r, "claim", j)
     /\ UNCHANGED store

FindCode(r) ==
  LET j == job[r]
  IN /\ pc[r] = "code"
     /\ IF j.code \notin live \/ j.code \in claims[j.team] THEN Finish(r)
        ELSE Go(r, IF j.code \in FirstTeamCodes THEN "first" ELSE "claim", j)
     /\ UNCHANGED store

CheckFirstTeam(r) ==
  /\ pc[r] = "first"
  /\ IF \E t \in Teams : job[r].code \in claims[t] THEN Finish(r)
     ELSE Go(r, "claim", job[r])
  /\ UNCHANGED store

\* The claim is unique per code and team, and refers to an existing code.
CreateClaim(r) ==
  LET j == job[r]
  IN /\ pc[r] = "claim"
     /\ IF j.code \in live /\ j.code \notin claims[j.team]
        THEN /\ claims' = [claims EXCEPT ![j.team] = @ \cup {j.code}]
             /\ Go(r, "tasks", j)
        ELSE UNCHANGED claims /\ Finish(r)
     /\ UNCHANGED <<progress, scans, photos, live, tally, latest, kept, ended, epoch>>

ReadTasks(r) ==
  LET j == job[r]
  IN /\ pc[r] = "tasks"
     /\ Go(r, "claims", [j EXCEPT !.sum.awards = Counted(progress[j.team])])
     /\ UNCHANGED store

ReadClaims(r) ==
  LET j == job[r]
  IN /\ pc[r] = "claims"
     /\ Go(r, "total", [j EXCEPT !.sum.codes = claims[j.team]])
     /\ UNCHANGED store

\* The bulk reset recalculates the affected teams one after the other.
NextTeam(r, j) ==
  IF j.left = {} THEN Go(r, "logAll", j)
  ELSE \E t \in j.left :
         Go(r, "tasks", [j EXCEPT !.team = t, !.left = @ \ {t}, !.sum = NoTally])

WriteTotal(r) ==
  LET j == job[r]
  IN /\ pc[r] = "total"
     /\ tally' = [tally EXCEPT ![j.team] = j.sum]
     /\ IF j.op = "resetTasks" THEN NextTeam(r, j) ELSE Finish(r)
     /\ UNCHANGED <<progress, scans, photos, claims, live, latest, kept, ended, epoch>>

-----------------------------------------------------------------------------
(* The admin resets all tasks, resets the game, finishes it, drops a code. *)

Resettable == {p \in Teams \X Stations : progress[p[1]][p[2]].status \in {"DONE", "IN_PROGRESS"}}

FindResettable(r) ==
  /\ pc[r] = "find"
  /\ IF Resettable = {} THEN Finish(r)
     ELSE Go(r, "resetAll", [job[r] EXCEPT !.found = Resettable])
  /\ UNCHANGED store

\* Mutant of ResetRows: only decided tasks are reset.
ResetDoneRows(r) ==
  /\ pc[r] = "resetAll"
  /\ progress' = [t \in Teams |-> [s \in Stations |->
       IF progress[t][s].status = "DONE"
       THEN [progress[t][s] EXCEPT !.status = "TODO", !.pts = 0, !.started = FALSE]
       ELSE progress[t][s]]]
  /\ Go(r, "clearAll", job[r])
  /\ UNCHANGED <<scans, photos, claims, live, tally, latest, kept, ended, epoch>>

\* updateMany takes the rows that qualify now, not the ones found before.
ResetRows(r) ==
  /\ pc[r] = "resetAll"
  /\ progress' = [t \in Teams |-> [s \in Stations |->
       IF progress[t][s].status \in {"DONE", "IN_PROGRESS"}
       THEN [progress[t][s] EXCEPT !.status = "TODO", !.pts = 0, !.started = FALSE]
       ELSE progress[t][s]]]
  /\ Go(r, "clearAll", job[r])
  /\ UNCHANGED <<scans, photos, claims, live, tally, latest, kept, ended, epoch>>

ClearFoundScans(r) ==
  LET j == job[r]
  IN /\ pc[r] = "clearAll"
     /\ scans' = [t \in Teams |-> [s \in Stations |->
                    IF <<t, s>> \in j.found THEN {} ELSE scans[t][s]]]
     /\ NextTeam(r, [j EXCEPT !.left = {p[1] : p \in j.found}])
     /\ UNCHANGED <<progress, photos, claims, live, tally, latest, kept, ended, epoch>>

\* One transaction: rows, scans and the events of devices are deleted.
Wipe(r) ==
  /\ pc[r] = "wipe"
  /\ progress' = [t \in Teams |-> [s \in Stations |-> NoRow]]
  /\ scans' = [t \in Teams |-> [s \in Stations |-> {}]]
  /\ latest' = kept /\ epoch' = epoch + 1
  /\ Go(r, "zero", job[r])
  /\ UNCHANGED <<photos, claims, live, tally, kept, ended>>

\* The totals become zero although the claims are still there.
ZeroTotals(r) ==
  /\ pc[r] = "zero"
  /\ tally' = [t \in Teams |-> NoTally]
  /\ pc' = [pc EXCEPT ![r] = "reopen"]
  /\ disturbed' = disturbed \cup {t \in Teams : claims[t] # {}}
  /\ UNCHANGED <<progress, scans, photos, claims, live, latest, kept, ended, epoch,
                 job, served, crashes>>

Reopen(r) ==
  /\ pc[r] = "reopen" /\ ended' = FALSE /\ Go(r, "logAll", job[r])
  /\ UNCHANGED <<progress, scans, photos, claims, live, tally, latest, kept, epoch>>

\* Mutant of LogReset: older outcomes count on.
LogResetForgotten(r) ==
  /\ pc[r] = "logAll" /\ Finish(r) /\ UNCHANGED store

\* completed_tasks_reset or realization_reset: older outcomes no longer count.
LogReset(r) ==
  /\ pc[r] = "logAll"
  /\ latest' = [t \in Teams |-> [s \in Stations |-> "none"]]
  /\ kept' = [t \in Teams |-> [s \in Stations |-> "none"]]
  /\ Finish(r)
  /\ UNCHANGED <<progress, scans, photos, claims, live, tally, ended, epoch>>

FinishGame ==
  /\ "finish" \in Ops /\ ~ended /\ ended' = TRUE
  /\ UNCHANGED <<progress, scans, photos, claims, live, tally, latest, kept, epoch,
                 pc, job, served, crashes, disturbed>>

\* The claims of a deleted code go with it; no total is recalculated.
DeleteCode(c) ==
  /\ "deleteCode" \in Ops /\ c \in live /\ live' = live \ {c}
  /\ claims' = [t \in Teams |-> claims[t] \ {c}]
  /\ disturbed' = disturbed \cup {t \in Teams : c \in claims[t]}
  /\ UNCHANGED <<progress, scans, photos, tally, latest, kept, ended, epoch,
                 pc, job, served, crashes>>

\* The server process dies: what was committed stays, the handlers are gone.
Crash ==
  /\ crashes < MaxCrashes /\ crashes' = crashes + 1
  /\ \E r \in Slots : pc[r] # "idle"
  /\ pc' = [r \in Slots |-> "idle"] /\ job' = [r \in Slots |-> NoJob]
  /\ disturbed' = disturbed \cup {t \in Teams : ~Idle(t)}
  /\ UNCHANGED <<store, served>>

\* No handler is in flight: the server waits.
Rest == (\A r \in Slots : pc[r] = "idle") /\ UNCHANGED vars

-----------------------------------------------------------------------------
Receive(r) ==
  \/ \E op \in DeviceOps \cup AdminOps, t \in Teams, s \in Stations : ReceiveTask(r, op, t, s)
  \/ \E t \in Teams, s \in Stations, label \in Labels : ReceiveScan(r, t, s, label)
  \/ \E t \in Teams, c \in Codes : ReceiveCode(r, t, c)
  \/ ReceiveResetTasks(r)
  \/ ReceiveResetGame(r)

Task(r) ==
  \/ ReadStart(r) \/ CheckBusy(r) \/ WriteStarted(r)
  \/ ReadComplete(r) \/ CheckBonus(r) \/ Finalize(r) \/ ReadFail(r) \/ MarkFailed(r)
  \/ ReadContext(r) \/ AdminComplete(r) \/ AdminReset(r) \/ ClearScans(r) \/ LogOutcome(r)

Submission(r) ==
  \/ ReadPhoto(r) \/ SavePhoto(r) \/ ReadScan(r) \/ SaveScan(r) \/ UpsertRow(r) \/ CountScans(r)

Claim(r) == FindCode(r) \/ CheckFirstTeam(r) \/ CreateClaim(r)

Recalculate(r) == ReadTasks(r) \/ ReadClaims(r) \/ WriteTotal(r)

Reset(r) ==
  \/ FindResettable(r) \/ ResetRows(r) \/ ClearFoundScans(r)
  \/ Wipe(r) \/ ZeroTotals(r) \/ Reopen(r) \/ LogReset(r)

\* The steps of an accepted request.
Serve(r) == Task(r) \/ Submission(r) \/ Claim(r) \/ Recalculate(r) \/ Reset(r)

Next ==
  \/ \E r \in Slots : Receive(r) \/ Serve(r)
  \/ FinishGame
  \/ \E c \in Codes : DeleteCode(c)
  \/ Crash
  \/ Rest

Spec == Init /\ [][Next]_vars

-----------------------------------------------------------------------------
(* Properties of every interleaving.                                       *)

Undisturbed(t) == t \notin disturbed /\ Idle(t)

\* The stored total of a team is what its rows and claims add up to, whatever the
\* handlers of other teams did meanwhile, unless handlers of this very team
\* overlapped or were cut off (recalculateTeamPoints writes an absolute value) or its
\* claims were deleted or outlived a reset of the game, which recalculate nothing.
TotalsExplained == \A t \in Teams : Undisturbed(t) => tally[t] = Earned(t)

\* The failed tasks that getFailedTaskStationIds derives from the event log agree
\* with the rows: a decided task has a DONE row and a failed one earns nothing,
\* though row and event are written by separate statements.
OutcomesExplained ==
  \A t \in Teams, s \in Stations : Undisturbed(t) =>
    /\ (progress[t][s].status = "DONE") <=> (latest[t][s] \in {"completed", "failed"})
    /\ latest[t][s] = "failed" => progress[t][s].pts = 0

\* The scan log of a QR hunt agrees with its row: a reset leaves no scans behind,
\* and the scan of the last label has decided the task.
ScansExplained ==
  \A t \in Teams, s \in Stations : Undisturbed(t) =>
    /\ scans[t][s] # {} => progress[t][s].status \in {"IN_PROGRESS", "DONE"}
    /\ scans[t][s] = Labels => progress[t][s].status = "DONE"

\* A photo task in progress has a photo, so listPendingPhotoReviews shows it: no
\* crash, reset or race leaves a team waiting for a review nobody is asked for.
PhotosReviewable ==
  \A t \in Teams, s \in PhotoStations :
    progress[t][s].status = "IN_PROGRESS" => s \in photos[t]

\* A task that a device started has its timer running whenever it is in progress.
TimersRun ==
  \A t \in Teams, s \in Stations \ (PhotoStations \cup QrStations) :
    progress[t][s].status = "IN_PROGRESS" => progress[t][s].started

\* No task in progress waits for something that will not come.
NothingStuck == PhotosReviewable /\ TimersRun

-----------------------------------------------------------------------------
(* Properties of requests served one at a time.                            *)

\* A station without allowConcurrentTeams is in progress for one team at most.
ExclusiveUse ==
  \A s \in Stations \ (SharedStations \cup QrStations \cup PhotoStations), t, u \in Teams :
    progress[t][s].status = "IN_PROGRESS" /\ progress[u][s].status = "IN_PROGRESS" => t = u

\* At most one team holds the fastest-completion bonus of a station.
HasBonus(t, s) == progress[t][s].pts \notin Awards[s] \cup {0, AdminAward[s]}
OneBonus ==
  \A s \in BonusStations, t, u \in Teams : HasBonus(t, s) /\ HasBonus(u, s) => t = u

\* A FIRST_TEAM code belongs to the first team that claims it.
FirstTeamOnly ==
  \A c \in FirstTeamCodes, t, u \in Teams : c \in claims[t] /\ c \in claims[u] => t = u

\* What only the first team gets, the bonus of a station or a code, no second team has.
FirstsOnce == OneBonus /\ FirstTeamOnly

\* A request of a device never takes a task out of DONE: only resets do.
DevicesNeverReopen ==
  [][\A t \in Teams, s \in Stations, r \in Slots :
       /\ progress[t][s].status = "DONE" /\ progress'[t][s].status # "DONE"
       /\ job[r].team = t /\ pc'[r] # pc[r]
       => job[r].op \notin DeviceOps]_vars

-----------------------------------------------------------------------------
(* Requests served one at a time implement the board.                      *)

\* What the admin and the devices see of a task: fromTaskStatus of the row, the
\* outcome that is about to be logged taken as logged. That a row in progress past its
\* time limit is read as failed is a matter of the reader's clock and of no row: it is
\* in StationPlay (Effective) and GameClock (Decided).
Shown(t, s) ==
  LET logging == \E r \in Slots : /\ pc[r] \in {"clear", "log"}
                                  /\ job[r].team = t /\ job[r].station = s
      pending == CHOOSE r \in Slots : pc[r] \in {"clear", "log"}
      outcome == IF logging THEN job[pending].outcome ELSE latest[t][s]
      resetting == \E r \in Slots : pc[r] # "idle" /\ job[r].op = "resetTasks"
  IN IF outcome = "failed" /\ ~(resetting /\ progress[t][s].status = "TODO") THEN "failed"
     ELSE IF progress[t][s].status \in {"none", "TODO"} THEN "todo"
     ELSE IF progress[t][s].status = "IN_PROGRESS" THEN "in-progress"
     ELSE "done"

Board == INSTANCE TaskBoard WITH
  board <- [t \in Teams |-> [s \in Stations |-> Shown(t, s)]],
  total <- [t \in Teams |-> IF Idle(t) THEN tally[t] ELSE Earned(t)],
  Exclusive <- Stations \ (SharedStations \cup QrStations \cup PhotoStations),
  Awards <- [s \in Stations |-> Awards[s] \cup {AdminAward[s]} \cup
               (IF s \in BonusStations THEN {a + BonusAward[s] : a \in Awards[s]} ELSE {})]

\* Served one at a time and not cut off, the handlers implement the board: rows,
\* outcome events, claims and totals change together as if each request were one step.
BoardSpec == Board!Spec

=============================================================================
