----------------------------- MODULE GameClock -----------------------------
(***************************************************************************)
(* When a realization runs and when it is over: its status, schedule and   *)
(* duration as the admin starts, finishes, resets and edits them, the      *)
(* clock that ends it by itself, and a phone that waits for the start,     *)
(* plays, counts down by its own clock and comes back after a restart.     *)
(*                                                                         *)
(* A status of the database is never read bare: normalizeStatus makes it   *)
(* "done" once a realization is long over. Nothing writes that down except *)
(* a save of the form.                                                     *)
(***************************************************************************)
EXTENDS Integers

CONSTANTS
  Stations,
  Handlers,             \* admin requests that may be under way at once
  Schedules, Durations, \* of the realization as it was created
  Grace,                \* AUTO_DONE_GRACE_MS
  StaleGrace,           \* STALE_REALIZATION_AUTO_RESUME_GRACE_MS
  Minute,               \* the form keeps no seconds
  MaxTime, MaxOps, MaxFaults   \* bounds: of the clock, of what people do, of faults

ASSUME ClockAssumption ==
  /\ "none" \notin Stations
  /\ Schedules \subseteq 0..MaxTime /\ Durations \subseteq Nat \ {0}
  /\ {Grace, StaleGrace, MaxTime, MaxOps, MaxFaults} \subseteq Nat /\ Minute \in Nat \ {0}

VARIABLES
  now,
  row,       \* the realization: status, scheduledAt, durationMinutes
  done,      \* stations with a DONE row of the team: completed or failed
  begun,     \* stations whose row has a start
  lapsed,    \* and those whose time limit is up
  seated,    \* the assignment of the phone's session token exists
  job,       \* admin requests that have read the realization and will write it
  form,      \* the admin's edit panel
  app,       \* the screen of the phone, and the plan it holds; in a session this is stored too
  view,      \* sessionState of the stage screen
  open,      \* the station whose overlay is open
  queue,     \* results that were not sent
  net,       \* the answer to a poll, not applied yet
  held, since, raced,   \* history: what the last start, finish or reset decided; overlaps
  ops, faults

tasks   == <<done, begun, lapsed>>
server  == <<row, tasks, seated>>
phone   == <<app, view, open, queue, net>>
history == <<held, since, raced>>
counts  == <<ops, faults>>
vars == <<now, server, job, form, phone, history, counts>>

-----------------------------------------------------------------------------
Statuses == {"planned", "in-progress", "done"}
Reasons  == {"none", "realization-finished", "time-expired", "all-tasks-completed"}
Plan(status, at, dur) == [status |-> status, at |-> at, dur |-> dur]
NoForm == Plan("none", 0, 0)
NoJob  == [op |-> "none", status |-> "done", began |-> 0]

\* The app on a screen. "code" asks for the join code, "boot" has the list of
\* realizations and joins, "team" customizes.
App(screen, status, at, dur) == [screen |-> screen, status |-> status, at |-> at, dur |-> dur]
NoApp == App("code", "none", 0, 0)
InSession(a) == a.screen \in {"waiting", "stage"}

\* What an answer of the server or the stage screen knows.
View(at, dur, d, reason) == [at |-> at, dur |-> dur, done |-> d, reason |-> reason]
NoView == View(0, 0, {}, "none")
Answer(kind, status, v) == [kind |-> kind, status |-> status, view |-> v]
NoAnswer == Answer("none", "none", NoView)
Nowhere == "none"

Times == 0..MaxTime
PlanOK(p) == p.status \in Statuses \cup {"none"} /\ p.at \in Times /\ p.dur \in Nat
ViewOK(v) == v.at \in Times /\ v.dur \in Nat /\ v.done \subseteq Stations /\ v.reason \in Reasons

TypeOK ==
  /\ now \in Times /\ PlanOK(row) /\ row.status # "none" /\ PlanOK(form)
  /\ done \subseteq Stations /\ lapsed \subseteq begun /\ begun \subseteq Stations /\ seated \in BOOLEAN
  /\ \A h \in Handlers : /\ job[h].op \in {"none", "start", "finish", "reset", "replan"}
                         /\ job[h].status \in Statuses /\ job[h].began <= now
  /\ PlanOK(app) /\ app.screen \in {"code", "boot", "team", "waiting", "stage"}
  /\ ViewOK(view) /\ open \in Stations \cup {Nowhere} /\ queue \subseteq Stations
  /\ net.kind \in {"none", "state", "invalid"} /\ ViewOK(net.view)
  /\ (open # Nowhere \/ queue # {} => app.screen = "stage")

Init ==
  /\ now = 0 /\ row \in {Plan("planned", at, dur) : at \in Schedules, dur \in Durations}
  /\ done = {} /\ begun = {} /\ lapsed = {} /\ seated = FALSE
  /\ job = [h \in Handlers |-> NoJob] /\ form = NoForm
  /\ app = NoApp /\ view = NoView
  /\ open = Nowhere /\ queue = {} /\ net = NoAnswer
  /\ held = "none" /\ since = 0 /\ raced = FALSE
  /\ ops = 0 /\ faults = 0

\* Time passes, and with it the limits of some of the tasks that were begun.
Tick ==
  /\ now < MaxTime /\ now' = now + 1
  /\ \E up \in SUBSET begun : lapsed' = lapsed \cup up
  /\ UNCHANGED <<row, done, begun, seated, job, form, phone, history, counts>>

-----------------------------------------------------------------------------
(* normalizeStatus and resolveSessionEndState.                             *)

Normalized(r) == IF r.at + r.dur + Grace < now THEN "done" ELSE r.status
Over(r) == r.at + r.dur <= now

EndReason ==
  IF Normalized(row) = "done" THEN "realization-finished"
  ELSE IF Over(row) THEN "time-expired"
  ELSE IF done = Stations THEN "all-tasks-completed"
  ELSE "none"
Ended == EndReason # "none"

\* What the server answers as done or failed (resolveEffectiveTaskStatus): a task that is in
\* progress with its time up is failed, though its row is not DONE, which EndReason counts.
Decided == done \cup lapsed

-----------------------------------------------------------------------------
(* The admin. A handler reads the realization, and writes it in a later    *)
(* statement; the status it decides on is the one it read.                 *)

Busy == \E h \in Handlers : job[h] # NoJob
Operation == ops < MaxOps /\ ops' = ops + 1

Accept(h, op) ==
  /\ Operation /\ job[h] = NoJob
  /\ job' = [job EXCEPT ![h] = [op |-> op, status |-> Normalized(row), began |-> now]]
  /\ raced' = (raced \/ Busy)
  /\ UNCHANGED <<now, server, form, phone, held, since, faults>>

Finished(h) == job' = [job EXCEPT ![h] = NoJob]

\* Mutant of Starts: a finished realization is started again.
StartsAnew(j) == j.status # "in-progress"
\* Mutant of Starts: the clock starts again when the admin presses start twice.
StartsTwice(j) == j.status # "done"
Starts(j) == j.status = "planned"
StartWrites(h) ==
  LET j == job[h]
  IN /\ j.op = "start" /\ Finished(h)
     /\ row' = IF Starts(j) THEN [row EXCEPT !.status = "in-progress", !.at = j.began] ELSE row
     /\ IF j.status = "done" \/ held = "over" THEN UNCHANGED <<held, since>>
        ELSE /\ held' = "running"
             /\ since' = IF held = "running" THEN since ELSE row'.at
     /\ UNCHANGED <<now, tasks, seated, form, phone, raced, counts>>

FinishWrites(h) ==
  /\ job[h].op = "finish" /\ Finished(h)
  /\ row' = IF job[h].status # "done" THEN [row EXCEPT !.status = "done"] ELSE row
  /\ held' = "over"
  /\ UNCHANGED <<now, tasks, seated, form, phone, since, raced, counts>>

\* The transaction of the reset, which leaves the teams without sessions and results.
ResetWipes(h) ==
  /\ job[h].op = "reset" /\ job' = [job EXCEPT ![h].op = "replan"]
  /\ seated' = FALSE /\ done' = {} /\ begun' = {} /\ lapsed' = {}
  /\ UNCHANGED <<now, row, form, phone, history, counts>>

ResetReplans(h) ==
  /\ job[h].op = "replan" /\ Finished(h)
  /\ row' = [row EXCEPT !.status = "planned", !.at = job[h].began]
  /\ held' = "none"
  /\ UNCHANGED <<now, tasks, seated, form, phone, since, raced, counts>>

\* The panel copies the realization when it opens; toDateTimeLocalValue drops the seconds.
ToMinute(t) == t - (t % Minute)
OpenForm ==
  /\ ops < MaxOps /\ form' = Plan(Normalized(row), ToMinute(row.at), row.dur)
  /\ UNCHANGED <<now, server, job, phone, history, counts>>

\* The admin saves, with or without another status, date or duration. The panel stays
\* open with these values.
Save ==
  /\ Operation /\ form # NoForm
  /\ \E p \in {form} \cup {[form EXCEPT !.status = s] : s \in Statuses}
                     \cup {[form EXCEPT !.at = ToMinute(now)]}
                     \cup {[form EXCEPT !.dur = d] : d \in Durations} :
       form' = p /\ row' = [p EXCEPT !.status = Normalized(p)]
  /\ held' = "none" /\ raced' = (raced \/ Busy)
  /\ UNCHANGED <<now, tasks, seated, job, phone, since, faults>>

\* The admin takes back a result, or a start: see ResetTask of TeamTasks.
Reopen(s) ==
  /\ Operation /\ s \in done \cup begun
  /\ done' = done \ {s} /\ begun' = begun \ {s} /\ lapsed' = lapsed \ {s}
  /\ UNCHANGED <<now, row, seated, job, form, phone, history, faults>>

-----------------------------------------------------------------------------
(* The phone: joining.                                                     *)

Fault == faults < MaxFaults /\ faults' = faults + 1

\* buildInitialSessionState: the plan of the onboarding session, until a refresh.
Entered(a) == IF a.screen = "stage" THEN View(a.at, a.dur, {}, "none") ELSE NoView
\* Mutant of Goes: the overlay that was open survives a change of the screen.
GoesUnderOverlay(a, keptQueue) ==
  app' = a /\ view' = Entered(a) /\ net' = NoAnswer /\ queue' = keptQueue /\ UNCHANGED open
\* The app goes to a, and what it showed or asked before is gone. Results that are still
\* queued stay under the key of the old token, which no session reads again.
Goes(a, keptQueue) ==
  /\ app' = a /\ view' = Entered(a) /\ open' = Nowhere /\ net' = NoAnswer
  /\ queue' = keptQueue

Bootstrap ==
  /\ app.screen = "code" /\ app' = App("boot", Normalized(row), row.at, row.dur)
  /\ UNCHANGED <<now, server, job, form, view, open, queue, net, history, counts>>

Join ==
  /\ app.screen = "boot"
  /\ \/ seated' = TRUE /\ app' = [app EXCEPT !.screen = "team"] /\ UNCHANGED faults
     \/ Fault /\ app' = NoApp /\ UNCHANGED seated
  /\ UNCHANGED <<now, row, tasks, job, form, view, open, queue, net, history, ops>>

\* completeOnboarding, after a claim unless the team is customized already. Whether to wait
\* is decided by the status of the bootstrap.
CompleteOnboarding ==
  /\ app.screen = "team" /\ seated
  /\ Goes(App(IF app.status = "planned" THEN "waiting" ELSE "stage", "none", app.at, app.dur), {})
  /\ UNCHANGED <<now, server, job, form, history, counts>>

-----------------------------------------------------------------------------
(* The phone: waiting and playing.                                         *)

\* pollUntilStarted, and refreshSessionState with the queue its callback captured.
Poll ==
  /\ InSession(app) /\ net = NoAnswer
  /\ net' = IF ~seated THEN Answer("invalid", "none", NoView)
            ELSE Answer("state", Normalized(row), View(row.at, row.dur, Decided \cup queue, EndReason))
  /\ UNCHANGED <<now, server, job, form, app, view, open, queue, history, counts>>

Heard == net' = NoAnswer

\* Mutant of Begins: the screen waits for the plan to be due, not for the admin.
BeginsOnTime(answer) == answer.status = "in-progress" /\ answer.view.at = app.at
Begins(answer) == answer.status = "in-progress"
HearWaiting ==
  /\ app.screen = "waiting" /\ net.kind = "state"
  /\ IF Begins(net) THEN Goes([app EXCEPT !.screen = "stage"], queue)
     ELSE Heard /\ UNCHANGED <<app, view, open, queue>>
  /\ UNCHANGED <<now, server, job, form, history, counts>>

\* Mutant of Refreshed: the schedule is taken from the first answer only.
RefreshedTasks(v) == [view EXCEPT !.done = v.done, !.reason = v.reason]
\* Mutant of Refreshed: what the phone has shown as done or failed stays so.
RefreshedMerged(v) == [v EXCEPT !.done = @ \cup view.done]
Refreshed(v) == v
HearStage ==
  /\ app.screen = "stage" /\ net.kind = "state"
  /\ view' = Refreshed(net.view) /\ Heard
  /\ UNCHANGED <<now, server, job, form, app, open, queue, history, counts>>

\* resetToOnboardingWithMessage: the session token is not known any more.
HearInvalid ==
  /\ InSession(app) /\ net.kind = "invalid" /\ Goes(NoApp, {})
  /\ UNCHANGED <<now, server, job, form, history, counts>>

\* isSessionEnded: the server says so, the countdown is over, or every task is done or failed.
ShowsEnd == view.reason # "none" \/ view.at + view.dur <= now \/ view.done = Stations

Open(s) ==
  /\ app.screen = "stage" /\ open = Nowhere /\ ~ShowsEnd /\ s \notin view.done
  /\ open' = s
  /\ UNCHANGED <<now, server, job, form, app, view, queue, net, history, counts>>

\* assertGameplayAllowed and the check of the row, for a request that reaches the server.
Counts(s) == seated /\ ~Ended /\ s \notin done
\* The start of the open task arrives: at once, late out of the queue, or never.
Begin(s) ==
  /\ open = s /\ Counts(s) /\ begun' = begun \cup {s}
  /\ UNCHANGED <<now, row, done, lapsed, seated, job, form, phone, history, counts>>

Recorded(s) == IF Counts(s) THEN done \cup {s} ELSE done
Shown(s) == [view EXCEPT !.done = @ \cup {s}]
\* The player solves the open task, fails it or closes it, which fails it unless the screen has
\* it decided. The result is answered; or no answer comes and it is queued; or the answer is an
\* error that is not retriable and the result is given up, whether it was served or not.
Result(s) ==
  /\ open = s /\ open' = Nowhere
  /\ \/ done' = Recorded(s) /\ view' = (IF Counts(s) THEN Shown(s) ELSE view) /\ UNCHANGED <<queue, faults>>
     \/ Fault /\ done' \in {done, Recorded(s)} /\ queue' = queue \cup {s} /\ view' = Shown(s)
     \/ Fault /\ done' \in {done, Recorded(s)} /\ UNCHANGED <<queue, view>>
     \/ s \in view.done /\ UNCHANGED <<done, queue, view, faults>>
  /\ UNCHANGED <<now, row, begun, lapsed, seated, job, form, app, net, history, ops>>

\* An answer takes the result off the queue: served, "Task already completed", or refused,
\* "Realization time is over". So does an error that is not retriable, a 429 or 503 with a
\* text of its own or a 500, after which nothing has it any more.
Flush(s) ==
  /\ s \in queue /\ queue' = queue \ {s}
  /\ \/ done' = Recorded(s) /\ UNCHANGED faults
     \/ Fault /\ UNCHANGED done
  /\ UNCHANGED <<now, row, begun, lapsed, seated, job, form, app, view, open, net, history, ops>>

\* No answer: the result stays, whether it was served or not.
FlushUnanswered(s) ==
  /\ s \in queue /\ Fault /\ done' \in {done, Recorded(s)}
  /\ UNCHANGED <<now, row, begun, lapsed, seated, job, form, phone, history, ops>>

\* Mutant of IsStale: the duration is forgotten.
StaleSchedule(a) == now > a.at + StaleGrace
\* isPersistedSessionStale, by the plan the phone had when it joined.
IsStale(a) == now > a.at + a.dur + StaleGrace
Restart ==
  LET a == IF InSession(app) /\ ~IsStale(app) THEN app ELSE NoApp
  IN /\ Fault /\ app # NoApp /\ Goes(a, IF a = NoApp THEN {} ELSE queue)
     /\ UNCHANGED <<now, server, job, form, history, ops>>

\* The player leaves the realization by the menu.
Exit ==
  /\ Operation /\ InSession(app) /\ Goes(NoApp, {})
  /\ UNCHANGED <<now, server, job, form, history, faults>>

-----------------------------------------------------------------------------
Next ==
  \/ Tick \/ OpenForm \/ Save
  \/ \E h \in Handlers : \/ \E op \in {"start", "finish", "reset"} : Accept(h, op)
                         \/ StartWrites(h) \/ FinishWrites(h) \/ ResetWipes(h) \/ ResetReplans(h)
  \/ Bootstrap \/ Join \/ CompleteOnboarding
  \/ Poll \/ HearWaiting \/ HearStage \/ HearInvalid
  \/ \E s \in Stations : Reopen(s) \/ Open(s) \/ Begin(s) \/ Result(s) \/ Flush(s) \/ FlushUnanswered(s)
  \/ Restart \/ Exit

\* The timers of the phone fire and their requests are answered in the end, and a flush
\* sends what is queued.
Fairness ==
  /\ WF_vars(Poll) /\ WF_vars(HearWaiting) /\ WF_vars(HearStage) /\ WF_vars(HearInvalid)
  /\ \A s \in Stations : WF_vars(Flush(s))

Spec == Init /\ [][Next]_vars /\ Fairness

-----------------------------------------------------------------------------
\* Admin operations that do not overlap hold until the next reset or save: a realization
\* that was finished stays over, however often start is pressed, and one that was started
\* keeps running on the clock it was started with.
DecisionsHold ==
  ~raced => /\ held = "over" => Normalized(row) = "done"
            /\ held = "running" => row.status = "in-progress" /\ row.at = since

\* "Realization is already completed and cannot be started again": what a start answers, and
\* what the button says. A start that read the realization before the finish reopens it.
OverUntilReset == held = "over" => Normalized(row) = "done"

\* The app drops its session at a restart only if the game is over, or was moved after the
\* team joined.
Resumes ==
  [][faults' # faults /\ InSession(app) /\ app' = NoApp
     => Ended \/ <<row.at, row.dur>> # <<app.at, app.dur>>]_vars

\* The tasks that a team's screen ends up showing as done or failed are those the server has
\* so: what was queued got through, what was given up or taken back is open again.
TasksAgree == <>[](app.screen = "stage" => view.done = Decided)

\* When the admin is done, the screen of a team that plays says that the game is over exactly
\* if the server says so, or nothing is left to do: the tasks whose time ran out count for the
\* screen, and for the server they do not.
StageAgrees == <>[](app.screen = "stage" => (ShowsEnd <=> Ended \/ Decided = Stations))

\* The same without the tasks whose time ran out. While only such tasks are left, the screen
\* is over and the server is not, until the deadline ends the game for both.
EndIsTheServers == <>[](app.screen = "stage" => (ShowsEnd <=> Ended))

\* No team is left on the waiting screen of a game that runs or was reset.
WaitingAgrees == <>[](app.screen = "waiting" => seated /\ Normalized(row) # "in-progress")

\* Once the admin is done, the team is on the screen where the state of the game puts it.
ScreenAgrees == StageAgrees /\ WaitingAgrees
=============================================================================
