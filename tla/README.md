# SurvivorQuest: a TLA+ model of the game service

SurvivorQuest runs outdoor team games. An organiser prepares a *realization* (one
event) from a scenario of *stations* in the admin panel; teams join it with a code on
their phones, walk from station to station, solve tasks, scan QR codes, send photos,
and collect points. The backend (NestJS over PostgreSQL through Prisma) keeps every
state that matters; the phones keep a queue of task results they could not send.

Every request is served by an asynchronous handler that awaits one SQL statement after
another, almost never in a transaction. Handlers of different devices, and of the admin,
therefore interleave at every `await`. That is what these modules are about.

Paths below are relative to `src/SurvivorQuestRepo/apps/`; `mobile.service.ts` is
`backend/src/modules/mobile/mobile.service.ts`.

## 1. The system

| Component | State it keeps | Operations | What makes it correct | Here |
|---|---|---|---|---|
| Task life cycle (`mobile.service.ts`) | `TeamTaskProgress`, `TeamStationScan`, `TeamPhoto`, `PointsQrCode(Claim)`, `EventLog`, `Team.points/taskDone` | device: start, complete, fail, photo, scan, claim; admin: reset / complete / fail one task, reset all tasks, reset and finish the realization, delete a points code | totals are the sum of rows and claims; outcomes in the log agree with rows; one team per exclusive station; one bonus; photos reach a reviewer | `TeamTasks` |
| Points QR codes, admin side | `PointsQrCode` | create, edit, delete | a total follows its claims | deletion in `TeamTasks` |
| Photo review queue | none (reads rows and photos) | list, approve, reject | nobody waits for a review that is not listed | `TeamTasks` |
| Sessions and teams (`mobile.service.ts`) | `TeamAssignment`, `Team`; the token on the phone | join, renew, expire, select, change of the team count, reset | a device plays for one team and holds the token of its session; a team has one device; slots have no gap | `Sessions`, abstractly `Seats` |
| Names, colours, icons, selfies | columns of `Team`, `TeamPhoto`, files | claim, customize, randomize, selfie; the phone's live saves and polls | distinct names; the last accepted request stands; the selfie exists; the screen agrees in the end | `TeamProfiles` |
| Realization lifecycle (`realization.service.ts`) | `Realization`, its `Scenario` and `Station` rows | create, update (with scenario swap), delete, start, finish, reset, automatic end | an instance belongs to one realization; no dangling stations; the status shown is the status enforced | `GameClock`; the stations in `Scenarios`, the tasks in `TeamTasks` |
| Scenarios, stations | `Scenario`, `ScenarioStation`, `Station` | create, clone, edit, remove | clones own their stations; codes are the ones asked for | `Scenarios` |
| Risk quiz (`risk-quiz.service.ts`) | `RiskAttempt`, `RiskCard`, `RiskPoolStation`, `Team.points` | scan a card, answer, streak; deck, pools, categories, generation of cards | points are the sum of attempts; a streak is paid once; a result belongs to its card | `RiskQuiz` |
| Mobile session and offline queue (`mobile/.../use-expedition-session.ts`) | queue of task mutations in memory and in storage, the displayed session state | start, complete, fail, flush, refresh, hydrate | what was saved on the device reaches the server, in order; the queue drains; the screen converges to the server | `OfflineQueue`, abstractly `Outbox` |
| Mobile puzzles and the station overlay | per-panel React state, refs, submit locks, popup | solve, miss, reveal, time out, close, dismiss | a puzzle submits once at a time; what the popup says becomes true | `StationPlay` |
| Pure algorithms (station order, points decay, leaderboard) | none | functions | agree with a reference definition | not modelled |
| Auth, users, chat, gallery, translation | one row or object per request | create, read, update, delete | plain CRUD | not modelled |
| The app around the game (`mobile-app.tsx`, the end of the stage screen) | the onboarding session in storage, the screen, a countdown | join, wait, enter, end, resume after a restart, leave | everyone gets in when the game runs; a running game is resumed; the end on the screen is the server's | `GameClock` |
| HTTP layer; other screens; admin panel; web site | none, or presentation | routing, rendering, forms | - | not modelled, but for what the realization form sends (`Scenarios`, `GameClock`) |

How they interact: phones and admin panel call the backend over HTTP and poll it (every
15 s in the game, 3 s while a queue is pending); the backend never pushes. Components of
the backend share the database and nothing else: the risk quiz *increments*
`Team.points` that the task service *overwrites* (`Overwrite` in `RiskQuiz`); a
realization update replaces station rows that task handlers refer to; joining deletes
session rows other requests are using. On the phone, the overlay calls the hook that
keeps the queue; `StationPlay` has a short form of it.

What is hard about it, and hard to test:

* check-then-write pairs around an `await` (busy station, first-completion bonus,
  first-team code, undecided task, free team, free name, untried card);
* a derived value (`Team.points`) recomputed from two reads and stored as an absolute
  value by whichever handler comes last;
* facts kept twice and written by separate statements: the `DONE` row and the event that
  says whether it was failed; the hunt's row and its scan log; the claims and the total;
  the attempt and its points; the selfie's row and its file;
* bulk operations that find rows first and act on the found ones later;
* requests of many statements that nothing undoes when one of them fails: creating the
  teams, swapping a scenario, generating cards;
* a process that stops between two statements, and requests that were served although
  the phone saw a timeout;
* on the phone, handlers that see the state of an older render, answers that arrive after
  the screen moved on, and timers that race them.

`PROJECT.json` lists each of these hazards at its line.

## 2. Modules

| Module | What it is |
|---|---|
| `TaskBoard` | what the task service promises: a board of fields (todo, in-progress, done, failed) and one total per team, changed together in one step per request |
| `TeamTasks` | the task service itself: one action per awaited statement, any number of handlers in flight |
| `MCTeamTasks` | the awards of the stations in the checked instances, and the symmetry of slots |
| `TeamTasksClaims` | what documents, comments and labels say of tasks and the code does not do |
| `TeamTasks_proofs` | totals, events, scans, stuck tasks in every interleaving; what only the first team gets, one request at a time; `TaskBoard` implemented |
| `Seats` | what joining promises: a device sits at one team or none, and two share one only when the game is full |
| `Sessions`, `MCSessions` | joins, session renewals, moves and the creation of teams, one action per awaited statement |
| `Sessions_proofs` | keys, one session per device, one device per team, contiguous slots, active teams, `Seats` implemented |
| `TeamProfiles`, `MCTeamProfiles` | the four requests that write a team's name, look and selfie, and the screen that saves and polls |
| `TeamProfiles_proofs` | selfies that exist, names apart, the last accepted request stands |
| `RiskQuiz`, `MCRiskQuiz` | cards, attempts, streaks and points, their administration, and the screen of the phone |
| `RiskQuiz_proofs` | points add up, streaks are paid, results fit their cards |
| `Scenarios`, `MCScenarios` | the stations of a realization: cloned, edited, swapped and dropped |
| `Scenarios_proofs` | rows never change hands, nothing is left behind, codes are the ones saved |
| `Outbox` | what the offline queue promises: a saved result stays saved until the server gave a verdict, and gets one |
| `OfflineQueue` | the hook of the phone that keeps that queue: React state, closures, device storage, calls that overlap, a network that fails |
| `OfflineQueue_proofs` | types in every interleaving; the safety part of `Outbox` for one call at a time |
| `StationPlay` | one station on the screen: puzzle, lock, time limit, popup, and the calls in flight |
| `StationPlay_proofs` | types, and that a locked puzzle is submitted once at a time |
| `GameClock` | when a realization runs and when it is over: the admin, the deadline, and a phone that waits, plays, counts down and restarts |
| `GameClock_proofs` | types, what the admin decided, when a phone gives its session up |

### TeamTasks

| Variable | In the code |
|---|---|
| `progress[t][s]` | the `TeamTaskProgress` row: status, `pointsAwarded`, whether `startedAt` is set; `id` is the identity of the row, so that an update of a deleted row can fail |
| `scans`, `photos`, `claims`, `live` | `TeamStationScan`, `TeamPhoto` (TASK_PROOF), `PointsQrCodeClaim`, `PointsQrCode` |
| `tally[t]` | `Team.points` and `Team.taskDone`, kept as the *inputs* they were computed from, so that the proofs need no summation |
| `latest`, `kept` | the newest outcome event of a task since the last reset event, among all events and among the admin's: `getFailedTaskStationIds` replays the log, the model keeps the result |
| `ended` | the realization is done, or its deadline has passed |
| `pc[r]`, `job[r]` | where the handler in slot `r` awaits, and its local variables |
| `disturbed` | history: the teams for which two handlers overlapped, one was cut off by a crash, or claims went away without a recalculation |

A handler is a chain of actions. `completeMobileTask`, for example, is
`ReceiveTask` → `ReadComplete` (session, gameplay and row checks; the verdict of the
points decay) → `CheckBonus` → `Finalize` (update by id, or create) → `LogOutcome`
(event) → `ReadTasks` → `ReadClaims` → `WriteTotal`. Several reads in a row are one
action only where nothing written between them could change the result of the later
one in a way the handler tells apart. `Save` models the two shapes of the write: an
update by the id that was read (throws if a reset deleted the row) and a create (throws
on the unique key if a sibling created it first); a thrown handler stops where it is and
keeps what it has written. The two upserts of the photo and scan handlers never throw
and do not look at the status again; that difference is in the model.

Bounds: `MaxRequests` requests per behaviour, `MaxResets` realization resets,
`MaxCrashes` crashes. They bound `served`, `epoch` and `crashes` only; everything else
is finite by itself. The theorems hold for every value of them.

### OfflineQueue

| Variable | In the code (`use-expedition-session.ts`) |
|---|---|
| `queue`, `flushing` | React state `pendingTaskMutations`, `isFlushingPendingMutations` |
| `rendered` | the two as the callbacks of the last render captured them; `Render` brings it up to date |
| `stored`, `writes` | the queue in AsyncStorage, and the `setItem`/`removeItem` calls on their way to it |
| `shown` | `sessionState.tasks`: the statuses on the screen |
| `call[c]` | a call in flight: where it awaits (`pc`), what it sends (`m`, `net`), the copy of the queue a flush works on (`local`), the queue its refresh applies (`view`), the answer of the refresh (`snap`) |
| `server`, `settled`, `late` | the rows of the team on the backend, the results it gave a verdict on, and requests the phone gave up that may still arrive |

`Tap` is `startStationTask`, `completeStationTask` and `failStationTask` up to the answer;
`TapAccepted`, `TapRefused`, `TapUnanswered` and `TapTimedOut` are what they do with it.
`Poll` is `flushPendingTaskMutations().then(refreshSessionState)`, by either timer or by
the effect that runs when the callbacks change; the `Flush...` actions are the branches of
its loop, `Written` the end of the storage write it awaits, `Fetch` and `Apply` the
refresh. `Switch` is a change of the app's language, a render after which the queue is read from
storage once more. `Verdict` is how the handlers of `TeamTasks` decide, for one team.

Two constants say what the code does not guarantee. With `RenderFirst` a tap or timer
finds the callbacks of the newest render. A single element in `Calls` means that no call
starts while another awaits. `TimeoutIsRetriable` is whether the timeout message of the
app's language is recognised as a network failure, and `Throttles` whether the backend
may answer 429 or 503. Bounds: `MaxTaps` results and switches, `MaxFaults` lost answers, timeouts
and throttled requests together, `MaxKills` restarts.

### Sessions

| Variable | In the code |
|---|---|
| `teamCount`, `team[s]` | `Realization.teamCount`; the `Team` row of slot `s`, its id and whether its status is `ACTIVE` |
| `rows` | `TeamAssignment`: device, team, token, and whether `expiresAt` lies ahead (`live`) |
| `phone[d]` | the token the device holds; `ReceiveSession` looks a row up by it |
| `pc[r]`, `job[r]` | where the handler in slot `r` awaits, and its local variables |
| `doubled`, `misread`, `contested`, `resized` | history: the circumstances the properties name |

`joinMobileSession` is `ReceiveJoin` -> `ReadTeams` (-> `Trim` or `CreateTeam`, slot by slot)
-> `FindRow`, and then one of two ways: `Rotate` -> `Answer` for a device whose session is
alive, or `Place` -> (`JoinRivals` -> `Oust` -> `Clear` for a known device, `Probe` team by
team for a new one) -> `CreateRow` -> `Activate` -> `Answer`. Every other request starts with
`requireSession`: `Touch` renews by id, `Drop` deletes what expired; `select` goes on with
`SelectRivals` -> `Oust` -> `Move` -> `Release` -> `Activate`. Unique keys and foreign keys are
what makes a statement throw: `CreateTeam` on a slot that exists, an update by the id of
a row that is gone, an assignment of a deleted team.

`Expire` never takes a session that a handler in flight has renewed: sessions live 12
hours. `ExpiresInFlight` says whether one may expire between the statement that reads it
and the one that renews it.

### TeamProfiles

`name`, `color`, `badge` and `selfie` are the columns of `Team`, `photo` the selfie's row,
`objects` the files in the media storage. A badge is an icon in one of two notations: the
emoji, or the older key that `normalizeTeamBadgeKey` maps to it (`Normal`). A call is a
request with its handler and its answer: `sent`, then the handler's read
(`ReadClaim`, `ReadCustomize`, `ReadRandomize`), its write (`WriteProfile`, which the unique
keys may refuse), then what the phone does with the answer (`HearLive`, `HearClaim`,
`HearPoll`). `requireSession`'s read of the team and the read of its peers that follows are
one step, and the occupied colours an answer carries are read with the write: between
them only a peer's colour can change, which the phone then has from a moment earlier.
`Pick` is a live save with its number and the colour to go back to; `Poll` the timer.
`wanted` is history: what the last accepted request stands for.

### RiskQuiz

`cards`, `attempts`, `pools`, `deck` and `categories` are the tables, `points` is
`Team.points`. `slug` is what the name of a category becomes in the code of a card; two
names may have one slug. `scanCard` is `FindCard` -> `Draw`, `submitAnswer` is `CheckPool` ->
`CheckTried` -> `ReadStreak` -> `CreateAttempt` -> `Pay`. `draw`, `result` and `closing` are the
screen: the card shown, the result shown on it, and the animation after which both are
cleared. `Paid` is the multiplier `min(1 + 0.25 max(0, streak - 1), 2)` and `Math.round`, in
integers. `Overwrite` stands for the writes of other features to the same column.

### Scenarios

`station`, `scenario` and `realization` are the tables; ids are positions, so that a new row
is an `Append` and a deleted one is marked. `createRealization` and `updateRealization` are
`StartUpdate` -> `Discard` (when the scenario is swapped) -> `ReadSource` -> `CloneStation`, one
by one -> `AddScenario` -> `ReadCurrent` -> `ApplyDraft`, one by one -> `Prune` -> `Replace` ->
`SaveRealization` -> `DropScenario`. `CodeFor` is the retry loop of the QR entry code: the
code asked for, a generated one on a conflict, and the old one if none was asked for.
`Without` is a delete with its cascades and `SetNull`, `Refers` the foreign key of a station to its
template, which makes a clone or a save throw when the template is gone; `Edited` keeps the
template a station came from unless the draft names one. `Forms` are the lists of drafts the
admin form can send. `MaxStations` and `MaxScenarios` are never reached with two requests.

### StationPlay

| Variable | In the code |
|---|---|
| `ui` | React state of the overlay: the station to show (`open`) and shown (`at`, `status`), tries, the solution that stays on the screen, `isSubmitting...` flags, the wordle reveal, the popup |
| `rendered` | what the last render saw of it; taps and effects work on this |
| `prev`, `timedOut` | refs `previousStatusByStationIdRef`, `timeoutPopupShownRef` |
| `locks` | `activePuzzleSubmitLocks`, a set outside React |
| `call`, `queue` | results in flight and queued (`OfflineQueue` in short) |
| `server`, `shown` | the team's rows, and `sessionState.tasks`; `overdue` is a row in progress whose time limit is past on the server, `Effective` what the server reports of a row |
| `late` | stations whose time limit is past on the phone |
| `dropped` | history: stations whose last result the phone gave up: a fail without a location, a fail refused, a queued result dropped on an error that is not retriable |

The twenty kinds of puzzles differ, for what can go wrong here, in five ways, which are
the elements of `Kinds`: whether the solution stays on the screen, can be typed again, is
revealed first, or is sent without a lock (password, verification code). `Solve` and `Miss`
are the right and the wrong input. `Render` runs the effects of a render in their order:
the popup for a task decided elsewhere (`Transition`), the station that is displayed, the
reset of the puzzle, and the time limit (`RunsOut`).

### GameClock

| Variable | In the code |
|---|---|
| `now` | the clock of server and phones, in units of the schedule |
| `row` | `status`, `scheduledAt` and `durationMinutes` of `Realization` |
| `done`, `begun`, `lapsed` | the team's `DONE` rows; the tasks it has started; those of them whose time limit is past, which the server reports as failed (`Decided`) without writing it |
| `seated` | whether the session of the phone exists |
| `job[h]` | an admin request between its read (`Accept`: the status it saw, when it began) and its write |
| `form` | the values in the open edit panel |
| `app` | the screen, and the onboarding session with the schedule the phone got when it joined; while the phone waits or plays this is also what AsyncStorage holds |
| `view`, `open`, `queue` | `sessionState` of the stage screen, the open overlay, unsent results |
| `net` | the answer of a poll that the phone has not applied yet |
| `held`, `since`, `raced` | history: what the last admin request decided, and whether two overlapped |

`Normalized` is `normalizeStatus`, `EndReason` is `resolveSessionEndState`, `ShowsEnd` is what the
stage screen makes of both with its own countdown. `CompleteOnboarding` decides between waiting
and playing by the status of the bootstrap; `HearWaiting` is the poll of the waiting screen;
`Goes` is every change of the screen, which drops what the old one showed and asked.
`Minute` is what the form rounds to: a save moves `scheduledAt` to the start of its minute.
`Decided` is what `resolveEffectiveTaskStatus` makes of the rows; `Poll` answers it, `EndReason` does
not look at it, and the difference is the subject of `StageAgrees`. `Result` and `Flush` have the
branches of the hook: answered, unanswered and queued, given up on an error that is not
retriable. The clocks of phone and server are equal here; a time limit that runs out on one
before the other is in `StationPlay`.
Bounds: `MaxTime` of the clock, `MaxOps` of what people do (admin requests, saves, reopened
tasks, exits), `MaxFaults` of lost calls and restarts.

## 3. Runs

| Run | Instance | What it shows |
|---|---|---|
| `tasks_serial` | 2 teams, a code station with bonus and a shared, decaying QR hunt of 2 labels, one first-team code, 1 handler at a time, 4 requests | the handlers implement `TaskBoard` (refinement), and `ExclusiveUse`, `FirstsOnce`, `ScansExplained`, `DevicesNeverReopen` |
| `tasks_concurrent` | 2 teams, a timed decaying station and a photo station, a points code, 2 handlers, 3 requests, a realization reset, a crash, the end of the game, a deleted code | `TypeOK`, `TotalsExplained`, `OutcomesExplained`, `NothingStuck` under every interleaving |
| `queue_serial` | one call at a time, a timed station, 3 results or switches of the language, 3 lost answers, a restart | `OfflineQueue` implements `Outbox`, liveness included, and `TypeOK`, `QueueKept` |
| `queue_overlap` | 2 calls that overlap, callbacks of old renders, 2 results or switches of the language, 2 faults of any kind | `Settles` |
| `sessions_serial` | 3 devices, 2 teams, 1 handler at a time, 4 requests, 2 expiries, a reset, a resize, a lost answer | joins and moves implement `Seats` (refinement); `ActiveWhenPlayed` |
| `sessions_overlap` | 2 devices, 2 teams, 2 handlers, 3 requests, one each of the above, expiry in flight | `TypeOK`, `SessionHeld`, `SharedTeamsExplained`, `SlotsContiguous` |
| `profiles` | 2 teams, 2 colours, 2 names, 2 icons in both notations, a phone, 2 calls, 3 requests, a lost call or a crash, a reset | `TypeOK`, `NamesDistinct`, `LastAcceptedStands`, `SelfieStored`, and `ScreenConverges` under fairness |
| `risk_quiz` | a team with 2 phones, 2 categories with possibly one slug, 3 places in pools, 2 calls, 4 requests, a fault | `TypeOK`, `PointsAreAttempts`, `StreaksArePaid`, `ResultOfThisCard` |
| `scenarios` | a library of 2 stations, 2 templates, a realization, 2 calls, 2 requests with up to 2 drafts, a crash | `TypeOK`, `StationsOwned`, `NothingLeft`, `CodesAsSaved` |
| `station_play` | a station of each kind, decay, location required, 2 wrong answers fail, 2 calls, 2 taps, 2 openings, a fault | `TypeOK`, `OneSubmit`, and under fairness `ToldIsDecided`: a task whose popup says it is over is decided for the server in the end, unless the phone gave the result up |
| `game_clock` | a station, 1 admin request at a time and saves that overlap it, 2 durations, 5 moments, 2 things people do, 2 faults | `TypeOK`, `DecisionsHold`, `Resumes`, and under fairness `TasksAgree` (the tasks on the screen are those of the server) and `ScreenAgrees` (the screen is the one the state of the game asks for) |
| `queue_lost` | the smallest instance | a disagreement between the code and what the repository says of it (section 5) |

Eight more configurations are not among the runs. `TeamTasksClaims_points`, `_scans`, `_bonus`
and `_hunts`, `OfflineQueue_unsaved`, `StationPlay_location`, `GameClock_reopened` and `GameClock_lapsed`
each end with the counterexample of a finding of section 5.

Why the bounds are enough. The races are between two handlers; two teams are enough for
every cross-team check, and a third request is what it takes to see the consequence of a
race (two overlapping writers, then a reader). The serial run of tasks needs four requests
for the longest protocol: two scans of a hunt, a reset, a scan. A crash, a realization
reset or a change of the team count are each a single event whose effect is on the handlers
then in flight. For seats, three devices at two teams are the smallest full game with one
device too many. Two phones of a team are what a race about a streak takes, and one
station at a time is what an overlay shows. A clock of four or five moments is before, at and
after a deadline, its grace and a schedule that a minute's truncation moves; two of what people
do are a decision and its reversal, or a save of a form opened before; two faults are a result
that is queued and a flush or a restart that fails it.

`ExclusiveUse`, `FirstsOnce` and `DevicesNeverReopen` are checked with one
handler at a time because they do not hold otherwise: each rests on a check that a later,
separate statement relies on. A comment in `finalizeMobileTaskCompletion` (1637-1641)
accepts this for the bonus. What the serial run adds is that the *protocol* is right: no
sequence of complete requests, resets and reviews breaks them. The refinements of `Seats`
and `ActiveWhenPlayed` are serial for the same reason.

`TotalsExplained` and `OutcomesExplained` are stated for teams that are idle and not
`disturbed`. This is the strongest form the code supports: the total of a team is right
whenever this team's own handlers did not overlap, whatever the handlers of other teams
did. Phones of one team do overlap, which is what `TeamTasksClaims_points` shows.

The same form, a history variable that names the circumstance and a property about
everything else, is used where the code has a window: `doubled` (two joins of one device
at once), `contested` (a device placed on a team while another handler was placing one
there, a renewal of a session that had expired, a full game), `resized`, `raced` (one name or one
team's answers at the same time), `left` (a card the player left), `cut`, `touched`,
`dropped`, and `raced` in `GameClock` (two admin requests at once). None of them is set by an
ordinary request alone, and each is a sentence about requests, not about the state a property
looks at. Without it the property is violated: those are findings of section 5, or hazards
with a note.

The refinement of `Outbox` is checked with one call at a time because it does not hold
otherwise (`queue_lost`); three results and three faults fill the queue to its bound and
leave a flush half done when the app restarts. What survives every overlap is weaker:
whatever is in the queue in the end is sent, and the screen ends up right. `queue_overlap`
takes one kind of result, `complete` of a task that needs no start: the order of a start
and a completion is the subject of the serial run.

Deadlock is not checked where the bounds on requests end every behaviour.

Fairness. `TeamTasks`, `Sessions`, `RiskQuiz` and `Scenarios` are about safety only and
assume none: a handler has no loops, so it ends or the process crashes. `OfflineQueue`
assumes weak fairness of what a call does next when the network does not fail it
(`Proceed`), of React's render, of the storage writes, and of polling by *some* call: the
timers of 3 s and 15 s fire as long as the screen is mounted. `TeamProfiles` assumes it of
handlers and answers, which end, and of the poll, which the code schedules again when it
is over. `StationPlay` assumes it of render, the reveal's timers, answers (a request that is
not answered times out), the flush and the refresh. `GameClock` assumes it of the phone's polls,
their answers and its flushes; the admin may never start, and time may stop. Nothing makes a fault, a restart, a
tap, the end of a time limit or a late request happen. `MaxFaults` bounds the faults of a
behaviour, so "once the network works" is the case the liveness properties are about.

## 4. Proofs

TLAPS checks the theorems below, each for every value of the constants that meets the
assumption its module states of them (`ConstantsAssumption`, `SessionsAssumption`,
`ProfilesAssumption` and `InputsAssumption`, `RiskAssumption`, `ScenariosAssumption`,
`QueueAssumption`, `PlayAssumption`, `ClockAssumption`). These say what kind of value a
constant is and that a value which stands for "none" is not also a real one; `ScenariosAssumption`
adds that the bounds leave room for the rows the library starts with. Every invariant that
a passing run checks is stated by a theorem.

| Theorem | States | Hypothesis |
|---|---|---|
| `TeamTasks_proofs`: `TypeCorrect`, `TotalsCorrect`, `NobodyStuck`, `OutcomesCorrect`, `ScansCorrect` | `TypeOK`, `TotalsExplained`, `NothingStuck`, `OutcomesExplained`, `ScansExplained` | |
| `TeamTasks_proofs`: `ExclusiveCorrect`, `FirstsCorrect`, `DecisionsStand` | `ExclusiveUse`, `FirstsOnce`, `DevicesNeverReopen` | `OneAtATime` |
| `TeamTasks_proofs`: `TasksKeepBoard` | `BoardSpec` | `OneAtATime`, `Uncut` |
| `Sessions_proofs`: `TypeCorrect`, `SessionCorrect`, `SeatsCorrect`, `SlotsCorrect` | `TypeOK`, `SessionHeld`, `SharedTeamsExplained`, `SlotsContiguous` | |
| `Sessions_proofs`: `ActiveCorrect` | `ActiveWhenPlayed` | `OneAtATime` |
| `Sessions_proofs`: `JoinsKeepSeats` | `SeatsSpec` | `OneAtATime`, `~ExpiresInFlight` |
| `TeamProfiles_proofs`: `TypeCorrect`, `SelfieKept`, `NamesApart`, `AcceptedStands` | `TypeOK`, `SelfieStored`, `NamesDistinct`, `LastAcceptedStands` | |
| `RiskQuiz_proofs`: `TypeCorrect`, `PointsCorrect`, `StreaksCorrect`, `ResultFits` | `TypeOK`, `PointsAreAttempts`, `StreaksArePaid`, `ResultOfThisCard` | |
| `Scenarios_proofs`: `TypeCorrect`, `OwnedCorrect`, `NothingLeftCorrect`, `CodesCorrect` | `TypeOK`, `StationsOwned`, `NothingLeft`, `CodesAsSaved` | |
| `OfflineQueue_proofs`: `TypeCorrect`; `UnansweredIsQueued` | `TypeOK`; a result that got no answer is in the queue | the second: `TimeoutIsRetriable` |
| `OfflineQueue_proofs`: `QueueCorrect` | `QueueKept` | `Serial` |
| `OfflineQueue_proofs`: `OutboxKept`, `SavedStays` | the safety part of `Outbox`; `SavedIsSent` | `Serial`, `~Throttles` |
| `StationPlay_proofs`: `TypeCorrect`, `SubmitOnce` | `TypeOK`, `OneSubmit` | |
| `GameClock_proofs`: `TypeCorrect`, `AdminDecides`, `ResumesCorrect` | `TypeOK`, `DecisionsHold`, `Resumes` | |

A hypothesis is there where the property needs it, and where it is left out the code
breaks the property. `OneAtATime` says that there is one handler: the checks it is about
and the writes that rely on them are separate statements. `Serial` says that one call is
in flight at a time and finds the callbacks of the newest render; with two calls
`QueueKept` fails, and with callbacks of an older render `SavedIsSent` fails with one call.
`Throttles` and `TimeoutIsRetriable` are the findings of `OfflineQueue_unsaved` and `FlushRefused`.

### TeamTasks

`TotalsExplained` is not inductive: it says nothing while a handler is at work. `IInv`
adds, for each team that is not disturbed, that at most one handler is busy with it (a
bulk operation is busy with all of them), and what that handler knows at each place
(`Phase`): before its write the total is exact and the row it holds is still the row in
the database; having read the tasks it holds the awards of the current rows; having read
the claims, all of what it will write; a bulk reset has found every decided row before it
resets, and teams it has no longer to recalculate are exact. `Coherent` ties the place to
the kind of request.

The step lemma has two halves. A step of a handler that is busy with one team
(`LocalStep`) touches only what concerns that team, so the invariant of the others is
framed; a step of a bulk operation (`GlobalStep`) has to re-establish it for all. Then
there is one lemma per group of actions (`TaskLocal`, `SubmissionLocal`, `ClaimLocal`,
`Totals`, `ResetGlobal`), and `AcceptStep`, `QuietStep`, `CrashStep` for arrivals,
handler-less steps and crashes: these may only add to `disturbed`.

`NothingStuck` holds in every interleaving, so `StuckInv` says nothing of who else is at work: a
row in progress is `Awaited` (by its photo or its timer), and what a handler is about to save
is `Prepared` for that.

`StoryInv` stands on both. For a team left alone, what the newest outcome event and the scans
say fits the rows (`Fits`) whenever it is idle; while a handler is busy with it, `Story` says how
far the handler is with the statements that make them fit again, a bulk reset included.

`SerialInv` adds what only one handler at a time can know (`KnowsAt`): no other team is in progress
when it starts, nobody has the bonus when it finalizes with it, nobody holds the code it claims;
and `Fair`, the three properties, with the fact that makes them inductive: an open row is
worth nothing.

`TasksKeepBoard` is the refinement, step by step. The board shows a field as its row is and
counts what is earned, not yet what is stored, so each request has one statement that is a
step of `TaskBoard` and all its other statements are stutters: `PutIs` says what one written row
does to the board, `SaveShows` the same of the common `Save`, `QuietGo` and `Unseen` when nothing shows, and one
lemma per group of actions cites them. `BoardInv` adds to `SerialInv` that what a handler is
about to write is an award of its station (`WorthAt`), and that between the write of a bulk
reset and its event, an outcome that still says failed belongs to a reset row
(`Forgotten`). `Uncut` leaves out crashes, which cut handlers off between row and event, and
the two requests that do not keep the board's promise: `resetGame` sets totals to zero while
the claims stay, `deleteCode` takes claims away and recalculates nothing. `tasks_serial` is an
instance of both hypotheses.

### Sessions

`BaseInv` is types, with what kind of request awaits where (`Fits`), and keys (`KeyInv`): ids and
tokens are handed out once, each belongs to one device, and the ids a handler holds, like the
token a phone holds, are of rows of its own device, or of rows that are gone (`Owns`,
`PhoneOwns`). What a statement does to the table is one of three things (`Effect`: it removes rows,
it replaces a row by one of the same id and device, it adds a row with a fresh id), which is
what the frame lemmas are about.

On it stand four invariants, each for the part of the state nobody raced for. `SeatInv`: a live
row on a team that is not contested is the only one there (`Alone`), and a handler that is
placing a device on such a team has it empty, but for the rows it is about to remove
(`Seated`, `Sits`). `SessionInv`, for a device without overlapping joins: one join, one row, and
what the join knows of that row at each statement (`Joins`), down to the token it is about
to answer with. `TeamInv`: team ids are used once; unless the count changed under a
handler that is not the only one (`Steady`), the slots are contiguous and a handler that is creating or trimming teams has counted
right (`Ensures`). `ActiveInv`, for one handler: a team somebody plays for is `Awake`, or the handler
is on its way to wake it (`Exempt`, `Knows`).

`JoinsKeepSeats` is the refinement: with the seat of a device read off its live row and the
slot of the row's team (`Seat`), every step of a lone handler is a step of `Seats` or none.
`TakesInv` is what it rests on besides: what that handler knows, between its statements, of the
team it will give its device - nobody sits at it, or every team was probed and taken and the
device gets the first one (`Takes`). `~ExpiresInFlight` is needed because a session that
expires while a handler probes leaves a game that is not full when its device is given the
first team, and one that expires before its renewal is put back at a team it may share.
`BoardInv` sums up what makes a seat a function of the tables: one row per device, one slot
per team, contiguous slots. The lemmas `StandsUp`, `SitsDown` and `Reseated` state the three
steps of `Seats` once, in terms of `SitsAt`, and each handler's statement cites one of them.

### TeamProfiles

`TypeInv` adds to the types the unique keys and that a phone has exactly one poll while one is out.
`SelfieInv` follows the files: each has one owner, a row or an upload in progress (`PhotosApart`,
`FilesFresh`), and the file an upload has found and will discard is no longer pointed at by the
time it does (`FoundOld`). `ProfileInv` is about a call between read and write: unless its team
or a peer was disturbed, what it compared is still true (`Compared`) and what it keeps is
still what is stored (`Current`).

### RiskQuiz

`ScreenInv`: the card whose answer is in flight is the one on the screen, unless the player
left it. `StreakInv`: a team that answers one card at a time has one answer under way, which has
read what is still the history (`Ready`). `PointsInv` is the property itself, points plus what is
about to be paid; its steps need the sum over calls and over attempts to change by exactly
one term.

### Scenarios

`OwnInv` holds whatever overlaps or breaks off: a row never changes hands (`Stays`), so the ids
that a handler read are of rows of its realization, or of deleted ones (`Mine`), and a row it
takes over was nobody's (`Adopts`). `LeftInv` is about a realization whose requests come one after
the other: which rows it has at each stage of the handler (`Progress`), what the codes of its
stations can be by then (`Given`), and that between requests it is `Complete` and `Answered`. `Same` is
the frame: a statement leaves every realization alone whose rows it does not write. TLC
found `OwnInv` and `LeftInv` to hold on the instance of the run, and on one with two realizations
(10,696,083 states), before they were proved.

### OfflineQueue, StationPlay, GameClock

`OfflineQueue`: `TypeInv` has that a call waiting for the storage has exactly one write under way.
`QueueInv`, for one call, is that memory and storage differ by that write only, and that
the copy a flush works on is the queue; `Accounted` says which verdict an answer or a write
stands for, from which each step of the queue is a step of `Outbox` or none.

`OneSubmit` needs only that calls are records (`CallsAreRecords`) to be inductive, because
it states both directions: the locks are exactly the stations of the completions in
flight, so a controller that takes the lock finds none, and one that hears its answer was
the only one. `TypeInv` of `StationPlay` adds what a reveal and a replayed queue need.

`DecisionsHold` says nothing of a request that has read and not written. `RequestsKnow` adds,
while nothing overlapped, that such a request is the only one, and that the status it read is
still true, except that the clock may have made it `done`; then a start that read `planned`
finds a game nobody finished. `TickKeeps` is where it matters that time only ever ends a game.
`Resumes` is about single steps and needs the types only, in which an overlay is open and a
result queued on the stage screen alone.

### Folds

The folds of the models are recursive functions (`Total`, `TeamsBySlot`, `Replayed`, `ShowsAll`, `Kept`).
What the proofs need of them is proved by least counterexample: `Least` is the well-foundedness of
`<` on `Nat`, `UpTo` what follows of a set of numbers, and each fold gets one lemma per fact
(a sum changes by what one of its terms does, the list of teams names each existing team
once and in order, a filtered list keeps what is not removed).

### Left to TLC

`Settles`, `ToldIsDecided`, `ScreenConverges`, `TasksAgree`, `ScreenAgrees` and the fairness of `OutboxSpec` are liveness,
which needs `ENABLED`. What the claims of section 5 sum up is computed by `RECURSIVE` operators in `TeamTasksClaims`, which no theorem can use.

## 5. Where the code and what is said of it differ

Shown by a run:

* `queue_lost`: "your progress was saved on this device and will be sent": two calls that
  overlap each store the queue they captured plus or minus one result, and the later
  write erases what the earlier one saved.

Shown by a configuration kept beside the runs:

* `TeamTasksClaims_points`: "team points = sum of `pointsAwarded` over done rows" (MVP specification):
  two overlapping completions of one team can leave a stored total that misses one.
* `GameClock_reopened`: "Realization is already completed and cannot be started again": a start that
  overlaps a finish starts the finished game again.
* `TeamTasksClaims_scans`: the bulk reset says it clears the scan log so that no stale
  scans stay; the scans of a hunt that begins between its find and its update stay.
* `TeamTasksClaims_bonus`: "extra points for the first team that completes this station": a
  team that *failed* there first takes the bonus away from everybody.
* `TeamTasksClaims_hunts`: "does not concern QR stations, which already work concurrently":
  starting a hunt is refused when another team has it in progress.
* `OfflineQueue_unsaved`: a timeout counts as retriable only if its message has English
  words in it; in Polish, Ukrainian and Russian a result that timed out is not queued. The
  same reading of the text drops a queued result that was answered 429 or 503
  (`FlushRefused`).
* `StationPlay_location`: "Task was not passed." is shown while the fail was neither sent nor
  queued, because the phone had no location. The same happens to a fail, and to a queued
  result, that ends with an error which is not retriable (429 or 503 with a text of its own,
  500, a timeout that is not worded in English): the phone gives it up, and `ToldIsDecided` names
  it (`dropped`).
* `GameClock_lapsed`: the reported status "also treats an IN_PROGRESS task as 'failed' once its
  time limit has elapsed"; the end of the session, in the same answer, does not. When only
  such tasks are left, the screen, which counts done or failed tasks, says that all tasks are
  completed and closes the game; the server counts `DONE` rows, and the team plays on for it
  until the deadline. `StageAgrees` is stated with this difference in it. The row also stays
  `IN_PROGRESS` for `startMobileTask`, so an exclusive station stays in use.

Stated in a module, not part of a run:

* `IconsDistinct` (`TeamProfiles`): "Team icon already taken" does not cover an icon stored in
  its other notation, which `randomizeMobileTeam` draws.
* Team names are "unique within a realization"; two requests at once store the same one
  (`raced`).
* `NeverTheWrongQuestion` (`RiskQuiz`): a late result is shown on, and dismisses, another card.
* `generateMissingCards` is "idempotent": not after a category was renamed, and it breaks
  off half way when two categories have one slug.
* `CodesAsSaved` (`Scenarios`) leaves out codes that another station had when the save began:
  swapping two codes silently ends with a random one. So does reusing the code of a station
  that the same save removes.
* A completed wordle, quiz, hangman, memory, mastermind, matching or simon puzzle whose
  completion was refused cannot be sent again, which a test says it can.

Seen while modelling, and not contradicted by a document: two joins of one device leave
two sessions; a full game joins the first team although "No free team slots" exists; a
change of the team count while teams are created leaves a gap of slots on which every
later join fails; `select` releases a team somebody else may still play for; a save from the
phone without a badge erases the badge; an update that breaks off after the old stations
are gone leaves a realization without stations; a reset of the realization keeps the risk
attempts, so their stations stay tried; the popup of a station may open over another one.
A game that is started and finished between two polls leaves a phone on the waiting screen
until a reset. The stored session keeps the schedule of the bootstrap: of a game that is
started much later than planned, a restart of the app drops the session, and the stage shows
the end until its first refresh. A save from a panel that was opened before a start or a finish
undoes it, and every save drops the seconds of the schedule, which moves the deadline. The
server does not refuse play before the start. A result made in time and flushed after the
deadline is refused and dropped, which the player is told. The queue is stored under a key that
holds the session token, so what is left when the device joins again is never sent.

## 6. Plan

Done: `TeamTasks` with `TaskBoard` and its proofs; `OfflineQueue` with `Outbox`; `Sessions` with
`Seats`; `TeamProfiles`; `RiskQuiz`; `Scenarios`; `StationPlay`; `GameClock`; proofs of every invariant
the runs check, and of the refinements of `TaskBoard`, `Seats` and the safety part of `Outbox`.

Next: what the refinements say of requests served two at a time, of which the safety
properties of `tasks_concurrent` and `sessions_overlap` are a part now.

## 7. Not modelled, and why

Login, users, chat, gallery and translation are one statement or one external call per
request. Object storage has no state of its own but the files of selfies. Other screens,
forms and the public site render state or call endpoints that are modelled. Texts,
coordinates, translations and media are data no property tells apart. Locations are
checked before a task starts and only refuse it, which the guard of arrival covers; what
they do to a result is in `StationPlay`. Changing the points of a bonus code after it was
claimed is left out; its effect on totals is that of deleting the code.

The clock is `GameClock`'s alone: in `TeamTasks` it is the flag `ended`, in `Scenarios` `running`.
Events of the log, which no one reads, and the leaderboard's hiding times are left out of it.

`resolveTeamStationOrder`, `computeLinearTimePoints`, the leaderboard and the rules of the
puzzles are functions of one request's data, with unit tests of their own; what they decide
is a choice in the models (`Judge`, `Solve`, `Miss`). The one whose input is a history, the
streak of the risk quiz, is modelled (`Streak`, `Paid`).

Details that change nothing the properties look at: `resolveEffectiveTaskStatus` is in
`StationPlay` and `GameClock` and not in `TaskBoard`'s fields, which are rows and events; the re-hash
of session tokens that older versions stored raw. In `TeamProfiles` a handler that goes on after the
phone stopped waiting is done by the time the phone hears that its call failed. In `Scenarios`
a draft that the normalizer throws on ends the request like a process that stops there
(`Fail`).

`StationPlay` shortens the hook of `OfflineQueue`: results are queued one after the other and
a refresh is one step, so what overlapping calls do to the queue is not among its behaviours; the
opening of a station includes its start. What a lost *wrong* verification code shows is
left out of `ToldIsDecided`: the phone shows the task as done until the next refresh.
