---------------------------- MODULE OfflineQueue ----------------------------
(***************************************************************************)
(* The phone's queue of task results that could not be sent, as the hook   *)
(* use-expedition-session.ts keeps it in React state and in the storage of *)
(* the device, and what the screen shows meanwhile.                        *)
(*                                                                         *)
(* A callback sees the state of the render it was created in, not the      *)
(* state of the moment it runs: `rendered` is what the callbacks of the    *)
(* last render captured. Calls run on one thread and interleave at their   *)
(* awaits: one action below is what happens between two awaits.            *)
(***************************************************************************)
EXTENDS Integers, SequencesExt

CONSTANTS
  Stations,
  TimedStations,        \* the server refuses to complete these unless started
  Types,                \* kinds of results: "start", "complete", "fail"
  Calls,                \* calls that may be in flight at once
  RenderFirst,          \* taps and timers come after the render
  TimeoutIsRetriable,   \* the language of the app has "timeout" in its message
  Throttles,            \* the server may answer 429 or 503
  MaxTaps, MaxFaults, MaxKills   \* bounds

ASSUME QueueAssumption ==
  /\ TimedStations \subseteq Stations /\ Types \subseteq {"start", "complete", "fail"}
  /\ {RenderFirst, TimeoutIsRetriable, Throttles} \subseteq BOOLEAN
  /\ MaxTaps \in Nat /\ MaxFaults \in Nat /\ MaxKills \in Nat /\ Calls # {}

VARIABLES
  server,      \* status of the tasks of the team on the server
  settled,     \* history: the results on which the server gave a verdict
  late,        \* requests that the phone gave up and the server may still get
  queue, flushing,   \* React state: pendingTaskMutations, isFlushingPendingMutations
  rendered,    \* the two as the callbacks of the last render captured them
  shown,       \* sessionState.tasks: what the screen shows
  stored,      \* the queue in AsyncStorage
  writes,      \* writes to AsyncStorage that are under way, oldest first
  call,        \* the calls in flight
  taps, faults, kills

environment == <<server, settled, late>>
react  == <<queue, flushing>>
counts == <<taps, faults, kills>>
vars == <<environment, react, rendered, shown, stored, writes, call, counts>>

-----------------------------------------------------------------------------
Mutation == [id : 1..MaxTaps, type : Types, station : Stations]
NoMutation == [id |-> 0, type |-> "none", station |-> "none"]

Decided == {"done", "failed"}
Statuses == {"todo", "in-progress"} \cup Decided
Verdicts == {"ok", "conflict", "refused"}

PCs == {"idle", "hydrate", "hydrated", "tap", "flush", "saveTap", "saveNext", "saveLast", "fetch", "apply"}
Saving == {"saveTap", "saveNext", "saveLast"}

\* A call: what it sends and how far the request got, the queue it works on, the
\* queue its refresh will apply, and the answer of that refresh.
Call == [pc : PCs, m : Mutation \cup {NoMutation},
         net : {"none", "out", "throttled"} \cup Verdicts,
         local : Seq(Mutation), view : Seq(Mutation), snap : [Stations -> Statuses]]

AllTodo == [s \in Stations |-> "todo"]
NoCall == [pc |-> "idle", m |-> NoMutation, net |-> "none",
           local |-> <<>>, view |-> <<>>, snap |-> AllTodo]

TypeOK ==
  /\ server \in [Stations -> Statuses] /\ shown \in [Stations -> Statuses]
  /\ settled \subseteq 1..MaxTaps /\ late \subseteq Mutation
  /\ queue \in Seq(Mutation) /\ stored \in Seq(Mutation) /\ flushing \in BOOLEAN
  /\ rendered \in [queue : Seq(Mutation), flushing : BOOLEAN]
  /\ call \in [Calls -> Call]
  /\ \A c \in Calls : (call[c].pc \in Saving) <=> \E i \in DOMAIN writes : writes[i].by = c
  /\ \A c \in Calls : call[c].net = "none" <=> call[c].pc \notin {"tap", "flush"}

\* A new call takes a slot that is free; which one does not matter.
Free(c) ==
  LET idle == {d \in Calls : call[d].pc = "idle"}
  IN idle # {} /\ c = CHOOSE d \in idle : TRUE

\* The app starts: one call reads the stored queue.
Booted ==
  LET c == CHOOSE d \in Calls : TRUE
  IN [d \in Calls |-> IF d = c THEN [NoCall EXCEPT !.pc = "hydrate"] ELSE NoCall]
NotRendered == [queue |-> <<>>, flushing |-> FALSE]

Init ==
  /\ server = AllTodo /\ settled = {} /\ late = {}
  /\ queue = <<>> /\ flushing = FALSE /\ rendered = NotRendered
  /\ shown = AllTodo /\ stored = <<>> /\ writes = <<>>
  /\ call = Booted
  /\ taps = 0 /\ faults = 0 /\ kills = 0

-----------------------------------------------------------------------------
(* What a mutation does to the statuses on the screen, and on the server.  *)

\* applyPendingTaskMutationState: a decided task stays as it is. (A completion that
\* earns nothing any more counts as failed, which makes no difference to the queue.)
Shows(statuses, m) ==
  IF statuses[m.station] \in Decided THEN statuses
  ELSE [statuses EXCEPT ![m.station] =
          CASE m.type = "start" -> "in-progress"
            [] m.type = "complete" -> "done"
            [] m.type = "fail" -> "failed"]

ShowsAll(statuses, q) ==
  LET after[i \in 0..Len(q)] == IF i = 0 THEN statuses ELSE Shows(after[i - 1], q[i])
  IN after[Len(q)]

\* The answer to m. A start is refused too when another team is at the station.
Verdict(m) ==
  LET status == server[m.station]
  IN IF status \in Decided
     THEN IF m.type = "fail" /\ status = "failed" THEN {"ok"} ELSE {"conflict"}
     ELSE IF m.type = "start" THEN {"ok", "refused"}
     ELSE IF m.type = "complete" /\ m.station \in TimedStations /\ status = "todo" THEN {"refused"}
     ELSE {"ok"}

Decides(m, verdict) ==
  /\ server' = IF verdict = "ok" THEN Shows(server, m) ELSE server
  /\ settled' = settled \cup {m.id}

-----------------------------------------------------------------------------
(* What the callbacks of the last render captured may be out of date.     *)

Rendered == rendered = [queue |-> queue, flushing |-> flushing]
MayStart(c) == Free(c) /\ (RenderFirst => Rendered)

-----------------------------------------------------------------------------
(* Building blocks of a call.                                              *)

Goes(c, next) == call' = [call EXCEPT ![c] = next]
Ends(c) == Goes(c, NoCall)

\* Mutant of Persist: the queue is not written to the device.
PersistUnwritten(c, q) == queue' = q /\ UNCHANGED writes

\* Mutant of Persist: an empty queue is not removed from the device.
PersistNeverEmpty(c, q) ==
  /\ queue' = q
  /\ writes' = Append(writes, [by |-> c, queue |-> IF q = <<>> THEN queue ELSE q])

\* persistPendingTaskMutations: the state is set at once, the write takes a while.
Persist(c, q) ==
  /\ queue' = q
  /\ writes' = Append(writes, [by |-> c, queue |-> q])

\* The answer is lost or too late. A request on its way may still be served.
Fault(c) ==
  /\ faults < MaxFaults /\ faults' = faults + 1
  /\ late' = IF call[c].net = "out" THEN late \cup {call[c].m} ELSE late

\* flush().then(refresh): the refresh is of the render the call started from.
Refreshing(c) == [NoCall EXCEPT !.pc = "fetch", !.view = call[c].view]

\* The flush sends the first of the mutations it has left.
Flushing(c, left) ==
  [NoCall EXCEPT !.pc = "flush", !.m = Head(left), !.net = "out", !.local = left,
                 !.view = call[c].view]

-----------------------------------------------------------------------------
(* The app starts and reads the stored queue.                              *)

ReadStored(c) ==
  /\ call[c].pc = "hydrate"
  /\ Goes(c, [call[c] EXCEPT !.pc = "hydrated", !.local = stored])
  /\ UNCHANGED <<environment, react, rendered, shown, stored, writes, counts>>

\* What was read replaces the state, whatever has been queued since.
Hydrate(c) ==
  /\ call[c].pc = "hydrated"
  /\ queue' = call[c].local
  /\ Ends(c)
  /\ UNCHANGED <<environment, flushing, rendered, shown, stored, writes, counts>>

\* The player switches the language: a render whose effect reads the queue once more, and
\* cancels a read under way.
Switch(c) ==
  /\ Free(c) /\ taps < MaxTaps /\ taps' = taps + 1
  /\ rendered' = [queue |-> queue, flushing |-> flushing]
  /\ call' = [d \in Calls |->
               IF d = c THEN [NoCall EXCEPT !.pc = "hydrate"]
               ELSE IF call[d].pc \in {"hydrate", "hydrated"} THEN NoCall ELSE call[d]]
  /\ UNCHANGED <<environment, react, shown, stored, writes, faults, kills>>

Render ==
  /\ ~Rendered
  /\ rendered' = [queue |-> queue, flushing |-> flushing]
  /\ UNCHANGED <<environment, react, shown, stored, writes, call, counts>>

-----------------------------------------------------------------------------
(* The player starts, completes or fails a task: sent at once, past the    *)
(* queue, and queued only if there is no answer.                           *)

Tap(c, type, s) ==
  /\ MayStart(c) /\ taps < MaxTaps
  /\ shown[s] \notin Decided
  /\ taps' = taps + 1
  /\ Goes(c, [NoCall EXCEPT !.pc = "tap", !.net = "out", !.view = rendered.queue,
                            !.m = [id |-> taps + 1, type |-> type, station |-> s]])
  /\ UNCHANGED <<environment, react, rendered, shown, stored, writes, faults, kills>>

TapAccepted(c) ==
  /\ call[c].pc = "tap" /\ call[c].net = "ok"
  /\ shown' = Shows(shown, call[c].m)
  /\ Goes(c, Refreshing(c))
  /\ UNCHANGED <<environment, react, rendered, stored, writes, counts>>

\* Any other answer is an error message for the player.
TapRefused(c) ==
  /\ call[c].pc = "tap" /\ call[c].net \in {"conflict", "refused", "throttled"}
  /\ Ends(c)
  /\ UNCHANGED <<environment, react, rendered, shown, stored, writes, counts>>

\* Mutant of TapUnanswered: the newest result is queued first.
TapUnansweredQueuesFirst(c) ==
  /\ call[c].pc = "tap" /\ Fault(c)
  /\ shown' = Shows(shown, call[c].m)
  /\ Persist(c, <<call[c].m>> \o call[c].view)
  /\ Goes(c, [NoCall EXCEPT !.pc = "saveTap"])
  /\ UNCHANGED <<server, settled, flushing, rendered, stored, taps, kills>>

\* No connection: shown as done, and appended to the queue of the render of the tap.
TapUnanswered(c) ==
  /\ call[c].pc = "tap" /\ Fault(c)
  /\ shown' = Shows(shown, call[c].m)
  /\ Persist(c, Append(call[c].view, call[c].m))
  /\ Goes(c, [NoCall EXCEPT !.pc = "saveTap"])
  /\ UNCHANGED <<server, settled, flushing, rendered, stored, taps, kills>>

\* The message of a timeout is in the language of the app; isRetriableNetworkError
\* looks for English words in it, and what is not retriable is not queued.
TapTimedOut(c) ==
  /\ ~TimeoutIsRetriable /\ call[c].pc = "tap" /\ Fault(c)
  /\ Ends(c)
  /\ UNCHANGED <<server, settled, react, rendered, shown, stored, writes, taps, kills>>

-----------------------------------------------------------------------------
(* A timer, or a render that changed the callbacks, flushes and refreshes. *)

Poll(c) ==
  LET start == [NoCall EXCEPT !.pc = "fetch", !.view = rendered.queue]
  IN /\ MayStart(c)
     /\ IF rendered.flushing \/ rendered.queue = <<>>
        THEN Goes(c, start) /\ UNCHANGED flushing
        ELSE /\ flushing' = TRUE
             /\ Goes(c, [start EXCEPT !.pc = "flush", !.m = Head(rendered.queue),
                                      !.net = "out", !.local = rendered.queue])
     /\ UNCHANGED <<environment, queue, rendered, shown, stored, writes, counts>>

\* Mutant of FlushAnswered: "task already completed" is taken for a failed connection.
FlushAnsweredRetriesConflict(c) ==
  LET left == IF call[c].net = "ok" THEN Tail(call[c].local) ELSE call[c].local
  IN /\ call[c].pc = "flush" /\ call[c].net \in {"ok", "conflict"}
     /\ Persist(c, left)
     /\ Goes(c, [Refreshing(c) EXCEPT !.pc = "saveNext", !.local = left])
     /\ UNCHANGED <<environment, flushing, rendered, shown, stored, counts>>

\* Accepted, or "task already completed".
FlushAnswered(c) ==
  LET left == Tail(call[c].local)
  IN /\ call[c].pc = "flush" /\ call[c].net \in {"ok", "conflict"}
     /\ Persist(c, left)
     /\ Goes(c, [Refreshing(c) EXCEPT !.pc = "saveNext", !.local = left])
     /\ UNCHANGED <<environment, flushing, rendered, shown, stored, counts>>

\* Any other answer drops the mutation and ends the flush.
FlushRefused(c) ==
  LET left == Tail(call[c].local)
  IN /\ call[c].pc = "flush" /\ call[c].net \in {"refused", "throttled"}
     /\ Persist(c, left)
     /\ Goes(c, [Refreshing(c) EXCEPT !.pc = "saveLast"])
     /\ UNCHANGED <<environment, flushing, rendered, shown, stored, counts>>

\* Mutant of FlushUnanswered: what got no answer is dropped from the queue.
FlushUnansweredDrops(c) ==
  /\ call[c].pc = "flush" /\ Fault(c)
  /\ Persist(c, Tail(call[c].local))
  /\ Goes(c, [Refreshing(c) EXCEPT !.pc = "saveLast"])
  /\ UNCHANGED <<server, settled, flushing, rendered, shown, stored, taps, kills>>

\* No connection: everything stays queued for the next flush.
FlushUnanswered(c) ==
  /\ call[c].pc = "flush" /\ Fault(c)
  /\ flushing' = FALSE
  /\ Goes(c, Refreshing(c))
  /\ UNCHANGED <<server, settled, queue, rendered, shown, stored, writes, taps, kills>>

\* A write has reached the device, and the call that awaits it goes on.
Written ==
  LET c == Head(writes).by
      left == call[c].local
  IN /\ writes # <<>>
     /\ stored' = Head(writes).queue /\ writes' = Tail(writes)
     /\ IF call[c].pc = "saveTap" THEN Ends(c) /\ UNCHANGED flushing
        ELSE IF call[c].pc = "saveNext" /\ left # <<>>
             THEN Goes(c, Flushing(c, left)) /\ UNCHANGED flushing
             ELSE Goes(c, Refreshing(c)) /\ flushing' = FALSE
     /\ UNCHANGED <<environment, queue, rendered, shown, counts>>

Fetch(c) ==
  /\ call[c].pc = "fetch"
  /\ Goes(c, [call[c] EXCEPT !.pc = "apply", !.snap = server])
  /\ UNCHANGED <<environment, react, rendered, shown, stored, writes, counts>>

FetchUnanswered(c) ==
  /\ call[c].pc \in {"fetch", "apply"} /\ Fault(c)
  /\ Ends(c)
  /\ UNCHANGED <<server, settled, react, rendered, shown, stored, writes, taps, kills>>

\* Mutant of Apply: the queue is applied to what the screen shows already.
ApplyToShown(c) ==
  /\ call[c].pc = "apply"
  /\ shown' = ShowsAll(shown, call[c].view)
  /\ Ends(c)
  /\ UNCHANGED <<environment, react, rendered, stored, writes, counts>>

\* The screen shows the answer with the queue of the call's render applied to it.
Apply(c) ==
  /\ call[c].pc = "apply"
  /\ shown' = ShowsAll(call[c].snap, call[c].view)
  /\ Ends(c)
  /\ UNCHANGED <<environment, react, rendered, stored, writes, counts>>

-----------------------------------------------------------------------------
(* The server, the network, and the phone's owner.                         *)

Serve(c) ==
  /\ call[c].net = "out"
  /\ \E verdict \in Verdict(call[c].m) :
       /\ Decides(call[c].m, verdict)
       /\ Goes(c, [call[c] EXCEPT !.net = verdict])
  /\ UNCHANGED <<late, react, rendered, shown, stored, writes, counts>>

\* A request the phone gave up arrives all the same, or never.
ServeLate(m) ==
  /\ \/ \E verdict \in Verdict(m) : Decides(m, verdict)
     \/ UNCHANGED <<server, settled>>
  /\ late' = late \ {m}
  /\ UNCHANGED <<react, rendered, shown, stored, writes, call, counts>>

\* 429 or 503 with a message of its own, which is not one that is retried.
Throttle(c) ==
  /\ Throttles /\ call[c].net = "out" /\ faults < MaxFaults
  /\ faults' = faults + 1
  /\ Goes(c, [call[c] EXCEPT !.net = "throttled"])
  /\ UNCHANGED <<environment, react, rendered, shown, stored, writes, taps, kills>>

\* Another device of the team, or the admin, decides a task.
Elsewhere(s) ==
  /\ server[s] \notin Decided
  /\ \E status \in Decided : server' = [server EXCEPT ![s] = status]
  /\ UNCHANGED <<settled, late, react, rendered, shown, stored, writes, call, counts>>

\* The app is closed or dies, and starts again.
Kill ==
  /\ kills < MaxKills /\ kills' = kills + 1
  /\ late' = late \cup {call[c].m : c \in {d \in Calls : call[d].net = "out"}}
  /\ queue' = <<>> /\ flushing' = FALSE /\ rendered' = NotRendered
  /\ shown' = AllTodo /\ writes' = <<>>
  /\ call' = Booted
  /\ UNCHANGED <<server, settled, stored, taps, faults>>

-----------------------------------------------------------------------------
\* What call c does next unless the network fails it.
Proceed(c) ==
  \/ ReadStored(c) \/ Hydrate(c)
  \/ Serve(c) \/ TapAccepted(c) \/ TapRefused(c)
  \/ FlushAnswered(c) \/ FlushRefused(c) \/ Fetch(c) \/ Apply(c)

Trouble(c) ==
  \/ TapUnanswered(c) \/ TapTimedOut(c) \/ FlushUnanswered(c) \/ FetchUnanswered(c)
  \/ Throttle(c)

Next ==
  \/ \E c \in Calls : Proceed(c) \/ Trouble(c) \/ Poll(c) \/ Switch(c)
  \/ \E c \in Calls, type \in Types, s \in Stations : Tap(c, type, s)
  \/ Render \/ Written
  \/ \E m \in late : ServeLate(m)
  \/ \E s \in Stations : Elsewhere(s)
  \/ Kill

\* Requests are answered, writes land, React renders, and the timers keep firing.
Fairness ==
  /\ \A c \in Calls : WF_vars(Proceed(c))
  /\ WF_vars(\E c \in Calls : Poll(c))
  /\ WF_vars(Render) /\ WF_vars(Written)

Spec == Init /\ [][Next]_vars /\ Fairness

-----------------------------------------------------------------------------
Ids(q) == {q[i].id : i \in DOMAIN q}
Pending == Ids(stored) \ settled

\* The queue holds the results in the order the player produced them, so the start of
\* a task is sent before its completion, which the server would refuse otherwise.
QueueInOrder ==
  /\ \A i, j \in DOMAIN queue : i < j => queue[i].id < queue[j].id
  /\ \A i, j \in DOMAIN stored : i < j => stored[i].id < stored[j].id

\* Once the app has read its storage, memory and storage differ by writes under way only.
StoredIsQueue ==
  (\A c \in Calls : call[c].pc \notin {"hydrate", "hydrated"}) =>
    queue = IF writes = <<>> THEN stored ELSE Last(writes).queue

\* The queue is the same in memory and in storage, and in the order it will be sent.
QueueKept == QueueInOrder /\ StoredIsQueue

\* What was saved waits for the verdict of the server, and gets it: one call at a time,
\* the queue implements the outbox, across lost answers and restarts of the app.
Out == INSTANCE Outbox WITH Results <- 1..MaxTaps, pending <- Pending
OutboxSpec == Out!Spec

\* Once the player stops and the network works, the queue is sent to its end, however
\* the calls overlap.
Drains == <>[](queue = <<>>)

\* Once the player stops and the network works, the screen shows what the server has,
\* whatever the older answers that arrived in between.
Converges == <>[](shown = server)

\* Once the player stops and the network works, nothing is left to send or to show.
Settles == Drains /\ Converges

\* "Progress saved offline": a result leaves the device only with a verdict on it.
SavedIsSent == [][Pending \ Ids(stored)' \subseteq settled']_vars

\* A result that got no answer is queued.
UnansweredIsSaved ==
  [][\A c \in Calls :
       call[c].pc = "tap" /\ call'[c].pc # "tap" /\ faults' > faults =>
         call[c].m \in ToSet(queue')]_vars

=============================================================================
