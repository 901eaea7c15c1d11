---------------------------- MODULE StationPlay -----------------------------
(***************************************************************************)
(* A station on the screen of a phone: the puzzle, its submit lock, the    *)
(* time limit, the popup with the outcome, and the calls that complete or  *)
(* fail the task (station-controllers.ts, preview.tsx and its hooks,       *)
(* use-expedition-stage-overlay-flow.ts). The calls are those of the hook  *)
(* OfflineQueue models; here they are short: a lost one is queued and the  *)
(* queue is flushed, one result at a time.                                 *)
(*                                                                         *)
(* A tap sees what was rendered last; setters change `ui`, and an effect   *)
(* runs after a render, on what was rendered.                              *)
(***************************************************************************)
EXTENDS Integers, Sequences

CONSTANTS
  Stations,
  Kinds,                \* of puzzles, see below
  Decay,                \* points decay with time, and a completion in overtime fails
  LocationRequired,     \* a result is only sent after the team's location
  Limit,                \* wrong answers that fail a puzzle
  Calls, MaxTaps, MaxFaults, MaxOpens   \* bounds

\* kept: the solution stays on the screen (quiz, hangman, memory, mastermind, simon,
\* matching); typed: it can be sent again (anagram, caesar, rebus, boggle, open quiz,
\* sudoku); wordle: stays too, and each guess is revealed first; password, code: no lock.
ASSUME PlayAssumption ==
  /\ Kinds \subseteq {"kept", "typed", "wordle", "password", "code"} /\ Kinds # {}
  /\ {Decay, LocationRequired} \subseteq BOOLEAN /\ Limit \in Nat \ {0}
  /\ {MaxTaps, MaxFaults, MaxOpens} \subseteq Nat /\ "none" \notin Stations

VARIABLES
  kind,       \* the kind of each station
  server,     \* the rows of the team's tasks; "overdue" is in progress with its time up
  late,       \* stations whose time is up, by the clock of the phone
  shown,      \* sessionState.tasks of the phone
  ui,         \* React state of the overlay
  rendered,   \* ui, shown and the time as the last render saw them
  prev, timedOut,   \* refs: previousStatusByStationIdRef, timeoutPopupShownRef
  locks,      \* activePuzzleSubmitLocks
  call,       \* calls in flight
  queue,      \* results that could not be sent
  taps, faults, opens,
  dropped     \* history: stations whose result the phone gave up (see Fail, NotServed, Flush)

refs == <<prev, timedOut>>
counts == <<taps, faults, opens, dropped>>
vars == <<kind, server, late, shown, ui, rendered, refs, locks, call, queue, counts>>

-----------------------------------------------------------------------------
None == "none"
Decided == {"done", "failed"}
Statuses == {"todo", "in-progress"} \cup Decided
Rows == Statuses \cup {"overdue"}
NoPopup == [of |-> None, what |-> None]

\* open: the station that is to be shown; at, status: the one that is (displayedStation).
Closed == [open |-> None, at |-> None, status |-> "todo", tries |-> 0, solved |-> FALSE,
           busy |-> {}, reveal |-> None, popup |-> NoPopup]
NoCall == [op |-> None, of |-> None, net |-> None, right |-> FALSE, late |-> FALSE, closes |-> FALSE]
Nets == {"out", "ok", "overtime", "decided", "wrong", "refused", "lost", "saved"}

TypeOK ==
  /\ kind \in [Stations -> Kinds] /\ server \in [Stations -> Rows] /\ shown \in [Stations -> Statuses]
  /\ late \subseteq Stations /\ ui.busy \subseteq Stations /\ ui.tries \in 0..Limit
  /\ {ui.open, ui.at} \subseteq Stations \cup {None}
  /\ ui.reveal \in {None, "right", "wrong", "last"} /\ (ui.reveal # None => rendered.ui.at # None)
  /\ ui.popup.what \in {None, "success", "failed", "timeout"}
  /\ \A c \in Calls : call[c] = NoCall \/ (call[c].op \in {"complete", "fail"} /\ call[c].net \in Nets)
  /\ \A i \in DOMAIN queue : queue[i].of \in Stations

Snapshot(u, s) == [ui |-> u, shown |-> s, late |-> u.at \in late]

Init ==
  /\ kind \in [Stations -> Kinds]
  /\ server = [s \in Stations |-> "todo"] /\ shown = server /\ late = {}
  /\ ui = Closed /\ rendered = [ui |-> Closed, shown |-> shown, late |-> FALSE]
  /\ prev = [s \in Stations |-> None] /\ timedOut = FALSE
  /\ locks = {} /\ call = [c \in Calls |-> NoCall] /\ queue = <<>>
  /\ taps = 0 /\ faults = 0 /\ opens = 0 /\ dropped = {}

Locked(s) == kind[s] \in {"kept", "typed", "wordle"}
Flagged(s) == kind[s] # "password"        \* a flag says that it is being submitted
Free(c) ==
  LET idle == {d \in Calls : call[d] = NoCall}
  IN idle # {} /\ c = CHOOSE d \in idle : TRUE
SomeFree == \E c \in Calls : call[c] = NoCall
Popup(s, what) == [of |-> s, what |-> what]
Sent(op, s) == [NoCall EXCEPT !.op = op, !.of = s, !.net = "out", !.late = Decay /\ s \in late]
Post(r) == \E c \in Calls : Free(c) /\ call' = [call EXCEPT ![c] = r]
Fault == faults < MaxFaults /\ faults' = faults + 1
\* A fail is sent after ensureLocationRequirement, or not at all: the phone has no
\* location, or cannot send it.
Fail(r) ==
  \/ Post(r) /\ dropped' = dropped \ {r.of} /\ UNCHANGED faults
  \/ /\ LocationRequired /\ Fault
     /\ dropped' = dropped \cup {r.of} /\ UNCHANGED call

-----------------------------------------------------------------------------
\* The player opens a station that is not decided; its start is on record.
Open(s) ==
  /\ opens < MaxOpens /\ ui.open = None
  /\ shown[s] \notin Decided /\ server[s] \notin Decided
  /\ opens' = opens + 1
  /\ ui' = [ui EXCEPT !.open = s]
  /\ server' = [server EXCEPT ![s] = IF @ = "overdue" THEN @ ELSE "in-progress"]
  /\ shown' = [shown EXCEPT ![s] = "in-progress"]
  /\ UNCHANGED <<kind, late, rendered, refs, locks, call, queue, taps, faults, dropped>>

\* A time limit is counted from the start, whether or not the station is on the screen, by
\* two clocks: the countdown of the phone and the time of the server. Both stop mattering
\* when the task is decided, for the phone as for the server.
TimeIsUp(s) ==
  /\ \/ s \notin late /\ shown[s] = "in-progress" /\ late' = late \cup {s} /\ UNCHANGED server
     \/ server[s] = "in-progress" /\ server' = [server EXCEPT ![s] = "overdue"] /\ UNCHANGED late
  /\ UNCHANGED <<kind, shown, ui, rendered, refs, locks, call, queue, counts>>

\* What the buttons of the last render allow.
Enabled(s) ==
  LET r == rendered.ui
  IN /\ r.at = s /\ r.popup = NoPopup /\ r.status \notin Decided /\ ~rendered.late
     /\ s \notin r.busy /\ r.reveal = None /\ r.tries < Limit /\ ~r.solved

\* Mutant of Submit: without the lock.
SubmitUnlocked(s, u, right) ==
  IF rendered.shown[s] = "failed" THEN ui' = u /\ UNCHANGED <<locks, call>>
  ELSE /\ locks' = IF Locked(s) THEN locks \cup {s} ELSE locks
       /\ ui' = IF Flagged(s) THEN [u EXCEPT !.busy = @ \cup {s}] ELSE u
       /\ Post([Sent("complete", s) EXCEPT !.right = right])
\* The end of a controller: takes the lock, or leaves it to the one that has it. The
\* screen does not send it for a task that it showed as failed.
Submit(s, u, right) ==
  IF (Locked(s) /\ s \in locks) \/ rendered.shown[s] = "failed" THEN ui' = u /\ UNCHANGED <<locks, call>>
  ELSE /\ locks' = IF Locked(s) THEN locks \cup {s} ELSE locks
       /\ ui' = IF Flagged(s) THEN [u EXCEPT !.busy = @ \cup {s}] ELSE u
       /\ Post([Sent("complete", s) EXCEPT !.right = right])

\* The last wrong answer: onQuizFailed and the popup.
GiveUp(s, u) ==
  /\ ui' = [u EXCEPT !.popup = Popup(s, "failed")]
  /\ Fail(Sent("fail", s)) /\ UNCHANGED locks

Tap(s) ==
  /\ taps < MaxTaps /\ taps' = taps + 1
  /\ Enabled(s)
  /\ UNCHANGED <<kind, server, late, shown, rendered, refs, queue, opens>>

Solve(s) ==
  /\ Tap(s) /\ UNCHANGED <<faults, dropped>>
  /\ IF kind[s] = "wordle"
     THEN /\ ui' = [ui EXCEPT !.tries = rendered.ui.tries + 1, !.solved = TRUE, !.reveal = "right"]
          /\ UNCHANGED <<locks, call>>
     ELSE Submit(s, [ui EXCEPT !.solved = @ \/ kind[s] = "kept"], TRUE)

Miss(s) ==
  LET tries == rendered.ui.tries + 1
      u == [ui EXCEPT !.tries = tries]
      last == tries = Limit
  IN /\ Tap(s)
     /\ \/ kind[s] = "code" /\ Submit(s, ui, FALSE) /\ UNCHANGED <<faults, dropped>>
        \/ /\ kind[s] = "wordle" /\ UNCHANGED <<locks, call, faults, dropped>>
           /\ ui' = [u EXCEPT !.reveal = IF last THEN "last" ELSE "wrong"]
        \/ kind[s] \in {"kept", "typed"} /\ last /\ GiveUp(s, u)
        \/ kind[s] \in {"kept", "typed"} /\ ~last /\ ui' = u /\ UNCHANGED <<locks, call, faults, dropped>>

\* runWordleRevealSequence is over: the controller goes on with what it captured.
Revealed ==
  LET s == rendered.ui.at
      u == [ui EXCEPT !.reveal = None]
  IN /\ \/ ui.reveal = "right" /\ Submit(s, u, TRUE) /\ UNCHANGED <<faults, dropped>>
        \/ ui.reveal = "last" /\ GiveUp(s, u)
        \/ ui.reveal = "wrong" /\ ui' = u /\ UNCHANGED <<locks, call, faults, dropped>>
     /\ UNCHANGED <<kind, server, late, shown, rendered, refs, queue, taps, opens>>

\* The player closes the overlay and confirms: a task that is not decided is failed first.
CloseOverlay ==
  LET s == rendered.ui.at
  IN /\ taps < MaxTaps /\ taps' = taps + 1
     /\ s # None /\ ui.open = s /\ rendered.ui.popup = NoPopup
     /\ \/ /\ rendered.ui.status \in Decided
           /\ ui' = [ui EXCEPT !.open = None] /\ UNCHANGED <<call, faults, dropped>>
        \/ /\ rendered.ui.status \notin Decided /\ \A c \in Calls : ~call[c].closes
           /\ Fail([Sent("fail", s) EXCEPT !.closes = TRUE])
           /\ ui' = IF call' = call THEN [ui EXCEPT !.open = None] ELSE ui
     /\ UNCHANGED <<kind, server, late, shown, rendered, refs, locks, queue, opens>>

\* The popup and its action, onClose. It outlives the overlay it was shown over.
Dismiss ==
  /\ rendered.ui.popup # NoPopup /\ rendered.ui.at # None
  /\ ui' = [ui EXCEPT !.popup = NoPopup, !.open = None]
  /\ UNCHANGED <<kind, server, late, shown, rendered, refs, locks, call, queue, counts>>

\* The overlay has slid out.
Slide ==
  /\ ui.open = None /\ ui.at # None
  /\ ui' = [ui EXCEPT !.at = None]
  /\ UNCHANGED <<kind, server, late, shown, rendered, refs, locks, call, queue, counts>>

-----------------------------------------------------------------------------
\* What the server does with a result: see CompleteTask and FailTask of TeamTasks.
Verdict(r) ==
  IF server[r.of] \in Decided THEN IF r.op = "fail" /\ server[r.of] = "failed" THEN "ok" ELSE "decided"
  ELSE IF r.op = "complete" /\ kind[r.of] = "code" /\ ~r.right THEN "wrong"
  ELSE IF r.op = "complete" /\ r.late THEN "overtime"
  ELSE "ok"
Outcome(r) ==
  IF Verdict(r) \in {"decided", "wrong"} THEN server[r.of]
  ELSE IF r.op = "fail" \/ Verdict(r) = "overtime" THEN "failed"
  ELSE "done"

\* The result is served; its answer comes, or is lost, or is not told apart from a refusal:
\* a timeout is retriable only by its English text.
Serve(c) ==
  /\ call[c].net = "out"
  /\ server' = [server EXCEPT ![call[c].of] = Outcome(call[c])]
  /\ \/ call' = [call EXCEPT ![c].net = Verdict(call[c])] /\ UNCHANGED faults
     \/ \E net \in {"lost", "refused"} : call' = [call EXCEPT ![c].net = net] /\ Fault
  /\ UNCHANGED <<kind, late, shown, ui, rendered, refs, locks, queue, taps, opens, dropped>>

\* The request is lost, or ends with an error that is not retriable: a refusal, or, for a
\* completion, that the phone has no location. The hook returns it and keeps nothing.
NotServed(c) ==
  /\ Fault /\ call[c].net = "out"
  /\ \/ call' = [call EXCEPT ![c].net = "lost"] /\ UNCHANGED dropped
     \/ /\ call' = [call EXCEPT ![c].net = "refused"]
        /\ dropped' = IF call[c].op = "fail" THEN dropped \cup {call[c].of} ELSE dropped
  /\ UNCHANGED <<kind, server, late, shown, ui, rendered, refs, locks, queue, taps, opens>>

-----------------------------------------------------------------------------
Applied(sh, r) ==
  IF sh[r.of] \in Decided THEN sh
  ELSE [sh EXCEPT ![r.of] = IF r.op = "fail" \/ (r.late) THEN "failed" ELSE "done"]

\* setIsSubmitting...(false).
Freed(u, r) == [u EXCEPT !.busy = @ \ {r.of}]

\* The controller hears of its completion. The popup opens over any station, or none.
HearComplete(c) ==
  LET r == call[c]
      passed == [Freed(ui, r) EXCEPT !.popup = Popup(r.of, "success")]
  IN /\ r.op = "complete" /\ r.net \in Nets \ {"out", "lost"}
     /\ call' = [call EXCEPT ![c] = NoCall]
     /\ locks' = IF Locked(r.of) THEN locks \ {r.of} ELSE locks
     /\ shown' = IF r.net \in {"ok", "overtime"} THEN Applied(shown, r) ELSE shown
     /\ ui' = IF r.net \in {"wrong", "refused"} THEN Freed(ui, r) ELSE passed
     /\ UNCHANGED <<kind, server, late, rendered, refs, queue, counts>>

HearFail(c) ==
  LET r == call[c]
  IN /\ r.op = "fail" /\ r.net \in Nets \ {"out", "lost"}
     /\ call' = [call EXCEPT ![c] = NoCall]
     /\ shown' = IF r.net = "ok" THEN Applied(shown, r) ELSE shown
     /\ ui' = IF r.closes THEN [ui EXCEPT !.open = None] ELSE ui
     /\ UNCHANGED <<kind, server, late, rendered, refs, locks, queue, counts>>

\* Mutant of Keep: a lost result is shown and forgotten.
KeepNothing(r) == UNCHANGED queue
Keep(r) == queue' = Append(queue, [r EXCEPT !.closes = FALSE])
\* A retriable error: the result is shown, queued, and the controller told once it is saved.
HearLoss(c) ==
  /\ call[c].net = "lost"
  /\ shown' = Applied(shown, call[c])
  /\ Keep(call[c])
  /\ call' = [call EXCEPT ![c].net = "saved"]
  /\ UNCHANGED <<kind, server, late, ui, rendered, refs, locks, counts>>

\* The first of the queue is served, or given up for an error that is not retriable.
Flush ==
  /\ queue # <<>> /\ queue' = Tail(queue)
  /\ \/ /\ server' = [server EXCEPT ![Head(queue).of] = Outcome(Head(queue))]
        /\ UNCHANGED <<faults, dropped>>
     \/ Fault /\ dropped' = dropped \cup {Head(queue).of} /\ UNCHANGED server
  /\ UNCHANGED <<kind, late, shown, ui, rendered, refs, locks, call, taps, opens>>

\* resolveEffectiveTaskStatus: what the server answers for a task whose time is up and that
\* nobody failed. The row stays in progress.
Effective == [s \in Stations |-> IF server[s] = "overdue" THEN "failed" ELSE server[s]]
\* A poll, one step here: what the server says, and the results in the queue.
Replayed ==
  LET after[i \in 0..Len(queue)] == IF i = 0 THEN Effective ELSE Applied(after[i - 1], queue[i])
  IN after[Len(queue)]
Refresh ==
  /\ shown' = Replayed
  /\ UNCHANGED <<kind, server, late, ui, rendered, refs, locks, call, queue, counts>>

-----------------------------------------------------------------------------
\* Effects of a render r, in their order; each gets the state the ones before have set.
\* A task done or failed by something else than what the player does here.
Transition(r, u) ==
  LET s == r.ui.at
      was == prev[s]
  IN IF s = None \/ was = None THEN u
     ELSE IF r.ui.status = "done" /\ was # "done" /\ r.ui.popup.what # "success"
     THEN [u EXCEPT !.popup = Popup(s, "success")]
     ELSE IF r.ui.status = "failed" /\ was \notin Decided /\ r.ui.popup.what \notin {"failed", "timeout"}
     THEN [u EXCEPT !.popup = Popup(s, "failed")] ELSE u

\* The station that is open, as the screen shows it.
Display(r, u) ==
  IF r.ui.open = None THEN u ELSE [u EXCEPT !.at = r.ui.open, !.status = r.shown[r.ui.open]]

\* Mutant of Reset: the reveal's timers are not cleared.
ResetPuzzle(r, u) ==
  IF r.ui.at = rendered.ui.at THEN u
  ELSE [u EXCEPT !.tries = 0, !.solved = FALSE, !.busy = {}]
\* useStationOverlayReset: another station, or none. The reveal's timers are cleared.
Reset(r, u) ==
  IF r.ui.at = rendered.ui.at THEN u
  ELSE [u EXCEPT !.tries = 0, !.solved = FALSE, !.busy = {}, !.reveal = None]

\* pendingByType, and isSubmittingCode.
Pending(r) == r.ui.at \in r.ui.busy

\* useStationTimeoutOutcome.
SameTask(r) == <<r.ui.at, r.ui.status>> = <<rendered.ui.at, rendered.ui.status>>
RunsOut(r) ==
  /\ r.ui.at # None /\ r.late /\ r.ui.status \notin Decided
  /\ ~Pending(r) /\ ~(timedOut /\ SameTask(r))

Render ==
  LET r == Snapshot(ui, shown)
      u == Reset(r, Display(r, Transition(r, ui)))
  IN /\ r # rendered /\ rendered' = r
     /\ prev' = IF r.ui.at = None THEN prev ELSE [prev EXCEPT ![r.ui.at] = r.ui.status]
     /\ timedOut' = (RunsOut(r) \/ (timedOut /\ SameTask(r)))
     /\ \/ /\ RunsOut(r)
           /\ ui' = [u EXCEPT !.popup = Popup(r.ui.at, "timeout")]
           /\ Fail(Sent("fail", r.ui.at))
        \/ ~RunsOut(r) /\ ui' = u /\ UNCHANGED <<call, faults, dropped>>
     /\ UNCHANGED <<kind, server, late, shown, locks, queue, taps, opens>>

-----------------------------------------------------------------------------
Next ==
  \/ \E s \in Stations : Open(s) \/ TimeIsUp(s) \/ Solve(s) \/ Miss(s)
  \/ Revealed \/ CloseOverlay \/ Dismiss \/ Slide \/ Render
  \/ \E c \in Calls : Serve(c) \/ NotServed(c) \/ HearComplete(c) \/ HearFail(c) \/ HearLoss(c)
  \/ Flush \/ Refresh

\* React renders, timers run out, the server answers or the request times out, and the
\* hook polls and flushes. The player owes nothing.
Fairness ==
  /\ WF_vars(Render) /\ WF_vars(Revealed) /\ WF_vars(Flush) /\ WF_vars(Refresh)
  /\ \A c \in Calls : WF_vars(Serve(c)) /\ WF_vars(HearComplete(c) \/ HearFail(c) \/ HearLoss(c))

Spec == Init /\ [][Next]_vars /\ Fairness
SpecWithoutFairness == Init /\ [][Next]_vars

-----------------------------------------------------------------------------
\* A completion of a locked puzzle is out at most once, however often it is tapped between
\* two renders, and its lock is held exactly as long.
OneSubmit ==
  LET out == {c \in Calls : call[c].op = "complete" /\ Locked(call[c].of)}
  IN /\ locks = {call[c].of : c \in out}
     /\ \A c, d \in out : call[c].of = call[d].of => c = d

\* The phone says that the task is over. What a lost verification code shows is left out:
\* only the server knows whether the code was right.
Told(s) == ui.popup = Popup(s, "timeout") \/ (ui.popup = Popup(s, "failed") /\ kind[s] # "code")

\* A team that is told that it failed, or that its time is up, is not left with an open task:
\* the server comes to say so too, whatever is lost or answered late, unless the phone gave
\* the result up: it had no location, or an error was not retriable.
ToldIsDecided == \A s \in Stations : Told(s) ~> (Effective[s] \in Decided \/ s \in dropped)

\* The popup "Task was not passed." has no such condition.
ToldIsTrue == \A s \in Stations : Told(s) ~> Effective[s] \in Decided
=============================================================================
