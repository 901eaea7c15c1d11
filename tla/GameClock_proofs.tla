-------------------------- MODULE GameClock_proofs --------------------------
(***************************************************************************)
(* GameClock for any number of stations, requests and moments: what an     *)
(* admin decided holds, every variable keeps its type, and a restart drops *)
(* no session whose game goes on as planned.                               *)
(***************************************************************************)
EXTENDS GameClock, TLAPS

Clock == <<now, row, job, form, held, since, raced>>

PlanType == [status : Statuses, at : Int, dur : Int]
JobType  == [op : {"none", "start", "finish", "reset", "replan"},
             status : Statuses, began : Int]
ClockTypes ==
  /\ now \in Int /\ row \in PlanType /\ form \in PlanType \cup {NoForm}
  /\ job \in [Handlers -> JobType]

\* As long as nothing overlapped, the request under way is the only one, and what it read of
\* the status is still true, but for the clock that may have made it "done".
Alone(h) == \A g \in Handlers : job[g] # NoJob => g = h
ReadStillTrue(h) ==
  /\ job[h].status = "done" => Normalized(row) = "done"
  /\ job[h].status # "done" => job[h].status = row.status
  /\ held = "over" /\ job[h].op # "replan" => job[h].status = "done"
RequestsKnow ==
  ~raced => \A h \in Handlers : job[h] # NoJob => Alone(h) /\ (job[h].op # "replan" => ReadStillTrue(h))

IInv == ClockTypes /\ RequestsKnow /\ DecisionsHold

-----------------------------------------------------------------------------
LEMMA Constants ==
  Grace \in Nat /\ MaxTime \in Nat /\ Schedules \subseteq Int /\ Durations \subseteq Int
  /\ Minute \in Nat /\ Minute > 0
  <1>1. Grace \in Nat /\ MaxTime \in Nat /\ Minute \in Nat \ {0}
    BY ClockAssumption
  <1>2. 0..MaxTime \subseteq Int /\ Nat \ {0} \subseteq Int
    BY <1>1
  <1> QED
    BY <1>1, <1>2, ClockAssumption

LEMMA Truncates == ASSUME NEW t \in Int PROVE ToMinute(t) \in Int
  BY Constants DEF ToMinute

LEMMA StatusRead == ASSUME NEW r \in PlanType PROVE Normalized(r) \in Statuses
  BY DEF PlanType, Normalized, Statuses

LEMMA InitClock == Init => IInv
  <1> SUFFICES ASSUME Init PROVE IInv
    OBVIOUS
  <1>1. row \in PlanType
    BY Constants DEF Init, Plan, PlanType, Statuses
  <1>2. form \in PlanType \cup {NoForm}
    BY DEF Init
  <1>3. NoJob \in JobType
    BY DEF NoJob, JobType, Statuses
  <1>4. job \in [Handlers -> JobType]
    BY <1>3 DEF Init
  <1>5. RequestsKnow
    BY DEF Init, RequestsKnow
  <1>6. DecisionsHold
    BY DEF Init, DecisionsHold
  <1> QED
    BY <1>1, <1>2, <1>4, <1>5, <1>6 DEF IInv, ClockTypes, Init

LEMMA ClockKeeps == IInv /\ UNCHANGED Clock => IInv'
  BY DEF IInv, Clock, ClockTypes, RequestsKnow, Alone, ReadStillTrue, DecisionsHold,
         Normalized

\* The clock only ever makes a status "done".
LEMMA TickKeeps == IInv /\ Tick => IInv'
  <1> SUFFICES ASSUME IInv, Tick PROVE IInv'
    OBVIOUS
  <1> USE DEF Tick, history
  <1>1. ClockTypes'
    BY DEF IInv, ClockTypes
  <1>2. Normalized(row) = "done" => Normalized(row)' = "done"
    BY Constants DEF IInv, ClockTypes, PlanType, Normalized
  <1>3. RequestsKnow'
    BY <1>2 DEF IInv, RequestsKnow, Alone, ReadStillTrue
  <1>4. DecisionsHold'
    BY <1>2 DEF IInv, DecisionsHold
  <1> QED
    BY <1>1, <1>3, <1>4 DEF IInv

LEMMA AcceptKeeps ==
  ASSUME IInv, NEW h \in Handlers, NEW op \in {"start", "finish", "reset"}, Accept(h, op)
  PROVE  IInv'
  <1> USE DEF Accept, server
  <1> DEFINE j == [op |-> op, status |-> Normalized(row), began |-> now]
  <1>1. j \in JobType /\ job' = [job EXCEPT ![h] = j]
    BY StatusRead DEF IInv, ClockTypes, JobType
  <1>2. ClockTypes'
    BY <1>1 DEF IInv, ClockTypes
  <1>3. ASSUME ~raced' PROVE \A g \in Handlers : g # h => job'[g] = NoJob
    <2>1. ~Busy
      BY <1>3
    <2>2. \A g \in Handlers : g # h => job'[g] = job[g]
      BY DEF IInv, ClockTypes
    <2> QED
      BY <2>1, <2>2 DEF Busy
  <1>4. Normalized(row)' = Normalized(row)
    BY DEF Normalized
  <1>5. DecisionsHold'
    BY <1>4 DEF IInv, DecisionsHold
  <1>6. ASSUME ~raced' PROVE ReadStillTrue(h)'
    <2>1. job'[h] = j
      BY <1>1 DEF IInv, ClockTypes
    <2>2. Normalized(row) # "done" => Normalized(row) = row.status
      BY DEF Normalized
    <2> QED
      BY <2>1, <2>2, <1>4, <1>5, <1>6 DEF ReadStillTrue, DecisionsHold
  <1>7. RequestsKnow'
    BY <1>3, <1>6 DEF RequestsKnow, Alone
  <1> QED
    BY <1>2, <1>5, <1>7 DEF IInv

\* What is left to show when a handler ends: nothing is under way, unless something overlapped.
LEMMA LastWrite ==
  ASSUME IInv, NEW h \in Handlers, job[h] # NoJob, Finished(h), raced' = raced
  PROVE  job' \in [Handlers -> JobType] /\ RequestsKnow'
  <1>1. NoJob \in JobType
    BY DEF NoJob, JobType, Statuses
  <1>2. job' \in [Handlers -> JobType]
    BY <1>1 DEF IInv, ClockTypes, Finished
  <1>3. ASSUME ~raced PROVE \A g \in Handlers : job'[g] = NoJob
    BY <1>3 DEF IInv, ClockTypes, RequestsKnow, Alone, Finished
  <1> QED
    BY <1>2, <1>3 DEF RequestsKnow

LEMMA StartKeeps == ASSUME IInv, NEW h \in Handlers, StartWrites(h) PROVE IInv'
  <1> USE DEF StartWrites, Starts
  <1>1. job[h] \in JobType /\ job[h] # NoJob
    BY DEF IInv, ClockTypes, NoJob
  <1>2. row' \in PlanType
    BY <1>1 DEF IInv, ClockTypes, PlanType, JobType, Statuses
  <1>3. job' \in [Handlers -> JobType] /\ RequestsKnow'
    BY <1>1, LastWrite
  <1>4. ClockTypes'
    BY <1>2, <1>3 DEF IInv, ClockTypes
  <1>5. ASSUME ~raced PROVE ReadStillTrue(h)
    BY <1>1, <1>5 DEF IInv, RequestsKnow
  <1>6. DecisionsHold'
    <2> SUFFICES ASSUME ~raced
                 PROVE  /\ held' = "over" => Normalized(row)' = "done"
                        /\ held' = "running" => row'.status = "in-progress" /\ row'.at = since'
      BY DEF DecisionsHold
    <2>1. CASE job[h].status = "done"
      <3>1. row' = row /\ held' = held /\ since' = since /\ now' = now
        BY <2>1
      <3> QED
        BY <3>1 DEF IInv, DecisionsHold, Normalized
    <2>2. CASE job[h].status # "done"
      <3>1. held # "over" /\ job[h].status = row.status
        BY <1>5, <2>2 DEF ReadStillTrue
      <3>2. held' = "running"
        BY <3>1, <2>2
      <3>3. CASE held = "running"
        <4>1. row.status = "in-progress" /\ row.at = since
          BY <3>3 DEF IInv, DecisionsHold
        <4> QED
          BY <4>1, <3>1, <3>2, <3>3
      <3>4. CASE held # "running"
        <4>1. job[h].status \in {"planned", "in-progress"}
          BY <2>2, <3>1, <1>1, <1>5 DEF JobType, Statuses
        <4>2. row'.status = "in-progress"
          BY <4>1, <3>1 DEF IInv, ClockTypes, PlanType
        <4> QED
          BY <4>2, <3>1, <3>2, <3>4, <2>2
      <3> QED
        BY <3>3, <3>4
    <2> QED
      BY <2>1, <2>2
  <1> QED
    BY <1>3, <1>4, <1>6 DEF IInv

LEMMA FinishKeeps == ASSUME IInv, NEW h \in Handlers, FinishWrites(h) PROVE IInv'
  <1> USE DEF FinishWrites
  <1>1. job[h] # NoJob
    BY DEF NoJob
  <1>2. row' \in PlanType
    BY DEF IInv, ClockTypes, PlanType, Statuses
  <1>3. job' \in [Handlers -> JobType] /\ RequestsKnow'
    BY <1>1, LastWrite
  <1>4. ClockTypes'
    BY <1>2, <1>3 DEF IInv, ClockTypes
  <1>5. ASSUME ~raced, job[h].status = "done" PROVE Normalized(row)' = "done"
    <2>1. Normalized(row) = "done"
      BY <1>1, <1>5 DEF IInv, RequestsKnow, ReadStillTrue
    <2> QED
      BY <2>1, <1>5 DEF Normalized
  <1>6. ASSUME job[h].status # "done" PROVE Normalized(row)' = "done"
    BY <1>6 DEF IInv, ClockTypes, PlanType, Normalized
  <1>7. DecisionsHold'
    BY <1>5, <1>6 DEF DecisionsHold
  <1> QED
    BY <1>3, <1>4, <1>7 DEF IInv

LEMMA WipeKeeps == ASSUME IInv, NEW h \in Handlers, ResetWipes(h) PROVE IInv'
  <1> USE DEF ResetWipes, history
  <1>1. job[h] # NoJob /\ job[h] \in JobType
    BY DEF NoJob, IInv, ClockTypes
  <1>2. job' \in [Handlers -> JobType] /\ job'[h].op = "replan"
    BY <1>1 DEF IInv, ClockTypes, JobType
  <1>3. \A g \in Handlers : g # h => job'[g] = job[g]
    BY DEF IInv, ClockTypes
  <1>4. RequestsKnow'
    BY <1>1, <1>2, <1>3 DEF IInv, RequestsKnow, Alone
  <1>5. DecisionsHold'
    BY DEF IInv, DecisionsHold, Normalized
  <1> QED
    BY <1>2, <1>4, <1>5 DEF IInv, ClockTypes

LEMMA ReplanKeeps == ASSUME IInv, NEW h \in Handlers, ResetReplans(h) PROVE IInv'
  <1> USE DEF ResetReplans
  <1>1. job[h] # NoJob /\ job[h] \in JobType
    BY DEF NoJob, IInv, ClockTypes
  <1>2. row' \in PlanType
    BY <1>1 DEF IInv, ClockTypes, PlanType, JobType, Statuses
  <1>3. job' \in [Handlers -> JobType] /\ RequestsKnow'
    BY <1>1, LastWrite
  <1> QED
    BY <1>2, <1>3 DEF IInv, ClockTypes, DecisionsHold

LEMMA OpenFormKeeps == ASSUME IInv, OpenForm PROVE IInv'
  <1> USE DEF OpenForm, server, history
  <1>1. form' \in PlanType
    BY StatusRead, Truncates DEF IInv, ClockTypes, PlanType, Plan
  <1>2. ClockTypes'
    BY <1>1 DEF IInv, ClockTypes
  <1>3. RequestsKnow' /\ DecisionsHold'
    BY DEF IInv, RequestsKnow, Alone, ReadStillTrue, DecisionsHold, Normalized
  <1> QED
    BY <1>2, <1>3 DEF IInv

LEMMA SaveKeeps == ASSUME IInv, Save PROVE IInv'
  <1> USE DEF Save
  <1>1. PICK p \in {form} \cup {[form EXCEPT !.status = s] : s \in Statuses}
                     \cup {[form EXCEPT !.at = ToMinute(now)]}
                     \cup {[form EXCEPT !.dur = d] : d \in Durations} :
          form' = p /\ row' = [p EXCEPT !.status = Normalized(p)]
    OBVIOUS
  <1>2. p \in PlanType
    <2>1. form \in PlanType /\ ToMinute(now) \in Int /\ Durations \subseteq Int
      BY Truncates, Constants DEF IInv, ClockTypes
    <2> QED
      BY <1>1, <2>1 DEF PlanType
  <1>3. row' \in PlanType /\ form' \in PlanType
    BY <1>1, <1>2, StatusRead DEF PlanType
  <1>4. RequestsKnow'
    BY DEF RequestsKnow, Busy
  <1> QED
    BY <1>3, <1>4 DEF IInv, ClockTypes, DecisionsHold

\* Nothing the phone does, and no correction of a result, touches the plan.
LEMMA PhoneKeeps ==
  ASSUME IInv,
         \/ Bootstrap \/ Join \/ CompleteOnboarding \/ Poll \/ HearWaiting \/ HearStage
         \/ HearInvalid \/ Restart \/ Exit
         \/ \E s \in Stations :
              Reopen(s) \/ Open(s) \/ Begin(s) \/ Result(s) \/ Flush(s) \/ FlushUnanswered(s)
  PROVE  IInv'
  <1>1. UNCHANGED Clock
    BY DEF Clock, server, history, counts, Bootstrap, Join, CompleteOnboarding, Poll, HearWaiting,
           HearStage, HearInvalid, Restart, Exit, Reopen, Open, Begin, Result, Flush, FlushUnanswered
  <1> QED
    BY <1>1, ClockKeeps

LEMMA StepKeeps == IInv /\ [Next]_vars => IInv'
  <1> SUFFICES ASSUME IInv, [Next]_vars PROVE IInv'
    OBVIOUS
  <1>1. CASE UNCHANGED vars
    BY <1>1, ClockKeeps DEF vars, Clock, server, history
  <1>2. ASSUME NEW h \in Handlers, NEW op \in {"start", "finish", "reset"}, Accept(h, op)
        PROVE  IInv'
    BY <1>2, AcceptKeeps
  <1>3. ASSUME NEW h \in Handlers,
               StartWrites(h) \/ FinishWrites(h) \/ ResetWipes(h) \/ ResetReplans(h)
        PROVE  IInv'
    BY <1>3, StartKeeps, FinishKeeps, WipeKeeps, ReplanKeeps
  <1>4. CASE Tick \/ OpenForm \/ Save
    BY <1>4, TickKeeps, OpenFormKeeps, SaveKeeps
  <1> QED
    BY <1>1, <1>2, <1>3, <1>4, PhoneKeeps DEF Next

\* Admin operations that do not overlap hold until the next reset or save, for any number of
\* requests, stations and any duration: startMobileAdminRealization and its siblings.
THEOREM AdminDecides == Spec => []DecisionsHold
  <1>1. IInv => DecisionsHold
    BY DEF IInv
  <1> QED
    BY InitClock, StepKeeps, <1>1, PTL DEF Spec

-----------------------------------------------------------------------------
(* Types, and what an open overlay or a queued result says of the screen.  *)

Screens == {"code", "boot", "team", "waiting", "stage"}
Plans   == [status : Statuses \cup {"none"}, at : Times, dur : Nat]
AppType  == [screen : Screens, status : Statuses \cup {"none"}, at : Times, dur : Nat]
ViewType == [at : Times, dur : Nat, done : SUBSET Stations, reason : Reasons]
NetType  == [kind : {"none", "state", "invalid"}, status : Statuses \cup {"none"}, view : ViewType]
Jobs == [op : {"none", "start", "finish", "reset", "replan"}, status : Statuses, began : Times]

TaskTypes == done \subseteq Stations /\ lapsed \subseteq begun /\ begun \subseteq Stations
ServerTypes ==
  /\ now \in Times /\ row \in Plans /\ row.status # "none"
  /\ form \in Plans /\ (form = NoForm \/ form.status # "none")
  /\ TaskTypes /\ seated \in BOOLEAN
  /\ job \in [Handlers -> Jobs] /\ \A h \in Handlers : job[h].began <= now
PhoneTypes ==
  /\ app \in AppType /\ view \in ViewType /\ net \in NetType
  /\ open \in Stations \cup {Nowhere} /\ queue \subseteq Stations
  /\ (open # Nowhere \/ queue # {} => app.screen = "stage")
TypeInv == ServerTypes /\ PhoneTypes

LEMMA TypeInvImplies == TypeInv => TypeOK
  BY DEF TypeInv, ServerTypes, TaskTypes, PhoneTypes, TypeOK, Plans, AppType, ViewType, NetType, Jobs,
         PlanOK, ViewOK, Screens

LEMMA Bounds ==
  /\ Grace \in Nat /\ StaleGrace \in Nat /\ MaxTime \in Nat /\ Minute \in Nat /\ Minute > 0
  /\ Schedules \subseteq Times /\ Durations \subseteq Nat /\ 0 \in Times /\ Times \subseteq Nat
  BY ClockAssumption DEF Times

LEMMA Truncated == ASSUME NEW t \in Times PROVE ToMinute(t) \in Times
  <1>1. t \in Nat /\ Minute \in Nat /\ Minute > 0 /\ t <= MaxTime /\ MaxTime \in Nat
    BY Bounds DEF Times
  <1>2. t % Minute \in 0..(Minute - 1)
    BY <1>1
  <1>3. t - (t % Minute) >= 0
    BY <1>1
  <1> QED BY <1>1, <1>2, <1>3 DEF ToMinute, Times

LEMMA Nothing == NoApp \in AppType /\ NoView \in ViewType /\ NoAnswer \in NetType /\ NoForm \in Plans
  BY Bounds DEF NoApp, App, AppType, NoView, View, ViewType, NoAnswer, Answer, NetType, NoForm, Plan, Plans,
         Screens, Reasons

LEMMA Read == ASSUME NEW r \in Plans, r.status # "none" PROVE Normalized(r) \in Statuses
  BY DEF Plans, Normalized, Statuses

LEMMA TypeInit == Init => TypeInv
  <1> SUFFICES ASSUME Init PROVE TypeInv
    OBVIOUS
  <1>1. row \in Plans /\ row.status # "none"
    BY Bounds DEF Init, Plan, Plans, Statuses
  <1>2. NoJob \in Jobs /\ NoJob.began = 0
    BY Bounds DEF NoJob, Jobs, Statuses
  <1>3. now \in Times /\ 0 <= 0 /\ now = 0
    BY Bounds DEF Init
  <1>4. job \in [Handlers -> Jobs] /\ \A h \in Handlers : job[h].began <= now
    BY <1>2, <1>3 DEF Init
  <1>5. form \in Plans /\ form = NoForm /\ TaskTypes /\ seated \in BOOLEAN
    BY Nothing DEF Init, TaskTypes
  <1>6. ServerTypes
    BY <1>1, <1>3, <1>4, <1>5 DEF ServerTypes
  <1>7. PhoneTypes
    BY Nothing DEF Init, PhoneTypes
  <1> QED BY <1>6, <1>7 DEF TypeInv

LEMMA TypeTick == TypeInv /\ Tick => TypeInv'
  <1> SUFFICES ASSUME TypeInv, Tick PROVE TypeInv'
    OBVIOUS
  <1>1. now' \in Times /\ now' >= now /\ now \in Nat
    BY Bounds DEF TypeInv, ServerTypes, Tick, Times
  <1>2. \A h \in Handlers : job[h].began \in Nat /\ job[h].began <= now
    BY Bounds DEF TypeInv, ServerTypes, Jobs
  <1>3. \A h \in Handlers : job[h].began <= now'
    BY <1>1, <1>2, Bounds
  <1>4. TaskTypes'
    BY DEF TypeInv, ServerTypes, TaskTypes, Tick
  <1> QED BY <1>1, <1>3, <1>4 DEF TypeInv, ServerTypes, PhoneTypes, Tick, phone

LEMMA TypeAccept ==
  ASSUME TypeInv, NEW h \in Handlers, NEW op \in {"start", "finish", "reset"}, Accept(h, op)
  PROVE  TypeInv'
  <1> DEFINE j == [op |-> op, status |-> Normalized(row), began |-> now]
  <1>1. j \in Jobs /\ j.began = now
    BY Read DEF TypeInv, ServerTypes, Jobs
  <1>2. now \in Int
    BY Bounds DEF TypeInv, ServerTypes
  <1>3. job' = [job EXCEPT ![h] = j]
    BY DEF Accept
  <1> HIDE DEF j
  <1>4. job' \in [Handlers -> Jobs] /\ \A g \in Handlers : job'[g].began <= now
    BY <1>1, <1>2, <1>3 DEF TypeInv, ServerTypes
  <1> QED BY <1>4 DEF TypeInv, ServerTypes, TaskTypes, PhoneTypes, Accept, server, tasks, phone

LEMMA TypeJobs ==
  ASSUME TypeInv, NEW h \in Handlers,
         StartWrites(h) \/ FinishWrites(h) \/ ResetWipes(h) \/ ResetReplans(h)
  PROVE  TypeInv'
  <1>1. PICK j : j = job[h]
    OBVIOUS
  <1>2. j \in Jobs /\ j.began \in Times /\ j.began <= now
    BY <1>1 DEF TypeInv, ServerTypes, Jobs
  <1>3. row' \in Plans /\ row'.status # "none"
    <2>1. row' \in {row, [row EXCEPT !.status = "in-progress", !.at = j.began],
                    [row EXCEPT !.status = "done"], [row EXCEPT !.status = "planned", !.at = j.began]}
      BY <1>1 DEF StartWrites, FinishWrites, ResetWipes, ResetReplans
    <2> QED BY <1>2, <2>1 DEF TypeInv, ServerTypes, Plans, Statuses
  <1>4. job' \in [Handlers -> Jobs] /\ \A g \in Handlers : job'[g].began <= now
    <2>1. NoJob \in Jobs /\ NoJob.began <= now
      BY Bounds DEF NoJob, Jobs, Statuses, TypeInv, ServerTypes, Times
    <2> DEFINE q == [j EXCEPT !.op = "replan"]
    <2>2. q \in Jobs /\ q.began <= now
      BY <1>2 DEF Jobs
    <2>3. job' = [job EXCEPT ![h] = NoJob] \/ job' = [job EXCEPT ![h] = q]
      BY <1>1 DEF StartWrites, FinishWrites, ResetWipes, ResetReplans, Finished, TypeInv, ServerTypes
    <2> HIDE DEF q
    <2> QED BY <2>1, <2>2, <2>3 DEF TypeInv, ServerTypes
  <1>5. now' = now /\ form' = form /\ seated' \in BOOLEAN /\ UNCHANGED phone
    BY DEF StartWrites, FinishWrites, ResetWipes, ResetReplans, TypeInv, ServerTypes
  <1>6. TaskTypes'
    BY DEF StartWrites, FinishWrites, ResetWipes, ResetReplans, TypeInv, ServerTypes, TaskTypes, tasks
  <1> QED BY <1>3, <1>4, <1>5, <1>6 DEF TypeInv, ServerTypes, PhoneTypes, phone

LEMMA TypeForm == ASSUME TypeInv, OpenForm \/ Save PROVE TypeInv'
  <1>1. CASE OpenForm
    <2>1. Normalized(row) \in Statuses /\ ToMinute(row.at) \in Times
      BY Read, Truncated DEF TypeInv, ServerTypes, Plans
    <2>2. form' \in Plans /\ form'.status # "none"
      BY <1>1, <2>1 DEF OpenForm, Plan, Plans, TypeInv, ServerTypes, Statuses
    <2> QED BY <1>1, <2>2 DEF OpenForm, TypeInv, ServerTypes, TaskTypes, PhoneTypes, server, tasks, phone
  <1>2. CASE Save
    <2>1. PICK p \in {form} \cup {[form EXCEPT !.status = s] : s \in Statuses}
                       \cup {[form EXCEPT !.at = ToMinute(now)]}
                       \cup {[form EXCEPT !.dur = d] : d \in Durations} :
            form' = p /\ row' = [p EXCEPT !.status = Normalized(p)]
      BY <1>2 DEF Save
    <2>2. form \in Plans /\ ToMinute(now) \in Times /\ form.status # "none"
      BY <1>2, Truncated DEF TypeInv, ServerTypes, Save
    <2>3. p \in Plans /\ p.status # "none"
      BY <2>1, <2>2, Bounds DEF Plans, Statuses
    <2>4. Normalized(p) \in Statuses
      BY <2>3, Read
    <2>5. [p EXCEPT !.status = Normalized(p)] \in Plans
          /\ [p EXCEPT !.status = Normalized(p)].status # "none"
      BY <2>3, <2>4 DEF Plans, Statuses
    <2>6. UNCHANGED <<now, tasks, seated, job, phone>>
      BY <1>2 DEF Save
    <2>7. form' \in Plans /\ form'.status # "none" /\ row' \in Plans /\ row'.status # "none"
      BY <2>1, <2>3, <2>5
    <2> QED BY <2>6, <2>7 DEF TypeInv, ServerTypes, TaskTypes, PhoneTypes, tasks, phone
  <1> QED BY <1>1, <1>2

\* What a step of the phone leaves of the server's part, and the other way round.
LEMMA TypeServer ==
  ASSUME TypeInv, UNCHANGED <<now, row, form, job>>, TaskTypes', seated' \in BOOLEAN
  PROVE  ServerTypes'
  BY DEF TypeInv, ServerTypes

LEMMA ReasonTyped == EndReason \in Reasons
  BY DEF EndReason, Reasons

LEMMA EnteredTyped == ASSUME NEW a \in AppType PROVE Entered(a) \in ViewType
  BY Nothing DEF Entered, AppType, View, ViewType, Reasons

LEMMA GoesTypes ==
  ASSUME NEW a \in AppType, NEW kept \in SUBSET Stations, kept # {} => a.screen = "stage", Goes(a, kept)
  PROVE  PhoneTypes'
  <1>1. app' \in AppType /\ view' \in ViewType /\ net' \in NetType
    BY EnteredTyped, Nothing DEF Goes
  <1>2. open' = Nowhere /\ queue' = kept /\ app' = a
    BY DEF Goes
  <1> QED BY <1>1, <1>2 DEF PhoneTypes

LEMMA TypeJoining == ASSUME TypeInv, Bootstrap \/ Join \/ CompleteOnboarding PROVE TypeInv'
  <1>1. CASE Bootstrap
    <2>1. Normalized(row) \in Statuses
      BY Read DEF TypeInv, ServerTypes
    <2>2. row.at \in Times /\ row.dur \in Nat
      BY DEF TypeInv, ServerTypes, Plans
    <2>3. app' \in AppType /\ open = Nowhere /\ queue = {}
      BY <1>1, <2>1, <2>2 DEF Bootstrap, App, AppType, Screens, TypeInv, PhoneTypes
    <2>4. ServerTypes'
      BY <1>1, TypeServer DEF Bootstrap, server, tasks, TypeInv, ServerTypes, TaskTypes
    <2> QED BY <1>1, <2>3, <2>4 DEF Bootstrap, TypeInv, PhoneTypes
  <1>2. CASE Join
    <2>1. app' \in AppType /\ open = Nowhere /\ queue = {}
      BY <1>2, Nothing DEF Join, AppType, Screens, TypeInv, PhoneTypes
    <2>2. ServerTypes'
      BY <1>2, TypeServer DEF Join, tasks, TypeInv, ServerTypes, TaskTypes
    <2> QED BY <1>2, <2>1, <2>2 DEF Join, TypeInv, PhoneTypes
  <1>3. CASE CompleteOnboarding
    <2> DEFINE a == App(IF app.status = "planned" THEN "waiting" ELSE "stage", "none", app.at, app.dur)
    <2>1. a \in AppType
      BY DEF App, AppType, Screens, TypeInv, PhoneTypes
    <2>2. Goes(a, {})
      BY <1>3 DEF CompleteOnboarding
    <2> HIDE DEF a
    <2>3. PhoneTypes'
      BY <2>1, <2>2, GoesTypes
    <2>4. ServerTypes'
      BY <1>3, TypeServer DEF CompleteOnboarding, server, tasks, TypeInv, ServerTypes, TaskTypes
    <2> QED BY <2>3, <2>4 DEF TypeInv
  <1> QED BY <1>1, <1>2, <1>3

LEMMA TypeHearing == ASSUME TypeInv, Poll \/ HearWaiting \/ HearStage \/ HearInvalid PROVE TypeInv'
  <1>1. ServerTypes'
    BY TypeServer DEF Poll, HearWaiting, HearStage, HearInvalid, server, tasks, TypeInv, ServerTypes, TaskTypes
  <1>2. CASE Poll
    <2>1. Normalized(row) \in Statuses /\ row.at \in Times /\ row.dur \in Nat
          /\ Decided \cup queue \subseteq Stations
      BY Read DEF TypeInv, ServerTypes, TaskTypes, PhoneTypes, Plans, Decided
    <2>2. View(row.at, row.dur, Decided \cup queue, EndReason) \in ViewType
      BY <2>1, ReasonTyped DEF View, ViewType
    <2>3. net' \in NetType
      BY <1>2, <2>1, <2>2, Nothing DEF Poll, Answer, NetType
    <2> QED BY <1>1, <1>2, <2>3 DEF Poll, TypeInv, PhoneTypes
  <1>3. CASE HearWaiting
    <2>1. CASE Begins(net)
      <3>1. Goes([app EXCEPT !.screen = "stage"], queue)
        BY <1>3, <2>1 DEF HearWaiting
      <3>2. [app EXCEPT !.screen = "stage"] \in AppType /\ [app EXCEPT !.screen = "stage"].screen = "stage"
        BY DEF TypeInv, PhoneTypes, AppType, Screens
      <3>3. queue \in SUBSET Stations
        BY DEF TypeInv, PhoneTypes
      <3> QED BY <1>1, <3>1, <3>2, <3>3, GoesTypes DEF TypeInv
    <2>2. CASE ~Begins(net)
      BY <1>1, <1>3, <2>2, Nothing DEF HearWaiting, Heard, TypeInv, PhoneTypes
    <2> QED BY <2>1, <2>2
  <1>4. CASE HearStage
    BY <1>1, <1>4, Nothing DEF HearStage, Refreshed, Heard, TypeInv, PhoneTypes, NetType
  <1>5. CASE HearInvalid
    BY <1>1, <1>5, Nothing, GoesTypes DEF HearInvalid, TypeInv
  <1> QED BY <1>2, <1>3, <1>4, <1>5

LEMMA TypePlaying ==
  ASSUME TypeInv, NEW s \in Stations,
         Reopen(s) \/ Open(s) \/ Begin(s) \/ Result(s) \/ Flush(s) \/ FlushUnanswered(s)
  PROVE  TypeInv'
  <1> USE DEF Reopen, Open, Begin, Result, Flush, FlushUnanswered
  <1>1. TaskTypes' /\ seated' \in BOOLEAN /\ UNCHANGED <<now, row, form, job>>
    BY DEF Recorded, server, tasks, TypeInv, ServerTypes, TaskTypes
  <1>2. ServerTypes'
    BY <1>1, TypeServer
  <1>3. Shown(s) \in ViewType
    BY DEF Shown, TypeInv, PhoneTypes, ViewType
  <1>4. view' \in ViewType /\ UNCHANGED <<app, net>>
    BY <1>3 DEF phone, TypeInv, PhoneTypes
  <1>5. open' \in {open, s, Nowhere} /\ queue' \subseteq queue \cup {s}
    BY DEF phone
  <1>6. open' # Nowhere \/ queue' # {} => app.screen = "stage"
    <2>1. s # Nowhere
      BY ClockAssumption DEF Nowhere
    <2>2. open = s => app.screen = "stage"
      BY <2>1 DEF TypeInv, PhoneTypes
    <2>3. queue # {} => app.screen = "stage"
      BY DEF TypeInv, PhoneTypes
    <2>4. CASE Reopen(s)
      BY <2>4 DEF phone, TypeInv, PhoneTypes
    <2>5. CASE Open(s) \/ Begin(s)
      BY <2>5 DEF phone, TypeInv, PhoneTypes
    <2>6. CASE Result(s)
      BY <2>2, <2>6
    <2>7. CASE Flush(s) \/ FlushUnanswered(s)
      BY <2>3, <2>7 DEF phone, TypeInv, PhoneTypes
    <2> QED BY <2>4, <2>5, <2>6, <2>7
  <1> QED BY <1>2, <1>4, <1>5, <1>6 DEF TypeInv, PhoneTypes

LEMMA TypeLeaving == ASSUME TypeInv, Restart \/ Exit PROVE TypeInv'
  <1>1. ServerTypes'
    BY TypeServer DEF Restart, Exit, server, tasks, TypeInv, ServerTypes, TaskTypes
  <1>2. CASE Exit
    BY <1>1, <1>2, Nothing, GoesTypes DEF Exit, TypeInv
  <1>3. CASE Restart
    <2> DEFINE a == IF InSession(app) /\ ~IsStale(app) THEN app ELSE NoApp
               kept == IF a = NoApp THEN {} ELSE queue
    <2>1. a \in AppType /\ kept \in SUBSET Stations /\ Goes(a, kept)
      BY <1>3, Nothing DEF Restart, TypeInv, PhoneTypes
    <2>2. kept # {} => a.screen = "stage"
      BY DEF TypeInv, PhoneTypes
    <2> HIDE DEF a, kept
    <2> QED BY <1>1, <2>1, <2>2, GoesTypes DEF TypeInv
  <1> QED BY <1>2, <1>3

LEMMA TypeStep == TypeInv /\ [Next]_vars => TypeInv'
  <1> SUFFICES ASSUME TypeInv, [Next]_vars PROVE TypeInv'
    OBVIOUS
  <1>1. CASE UNCHANGED vars
    BY <1>1 DEF vars, server, tasks, phone, TypeInv, ServerTypes, TaskTypes, PhoneTypes
  <1>2. CASE Tick \/ OpenForm \/ Save
    BY <1>2, TypeTick, TypeForm
  <1>3. ASSUME NEW h \in Handlers, NEW op \in {"start", "finish", "reset"}, Accept(h, op)
        PROVE  TypeInv'
    BY <1>3, TypeAccept
  <1>4. ASSUME NEW h \in Handlers,
               StartWrites(h) \/ FinishWrites(h) \/ ResetWipes(h) \/ ResetReplans(h)
        PROVE  TypeInv'
    BY <1>4, TypeJobs
  <1>5. CASE \/ Bootstrap \/ Join \/ CompleteOnboarding \/ Poll \/ HearWaiting \/ HearStage
             \/ HearInvalid \/ Restart \/ Exit
    BY <1>5, TypeJoining, TypeHearing, TypeLeaving
  <1>6. ASSUME NEW s \in Stations,
               Reopen(s) \/ Open(s) \/ Begin(s) \/ Result(s) \/ Flush(s) \/ FlushUnanswered(s)
        PROVE  TypeInv'
    BY <1>6, TypePlaying
  <1> QED BY <1>1, <1>2, <1>3, <1>4, <1>5, <1>6 DEF Next

\* Every variable keeps its type, no request began in the future, and an overlay is open or a
\* result queued only while the phone is on the stage screen.
THEOREM TypeCorrect == Spec => []TypeOK
  <1> QED BY TypeInit, TypeStep, TypeInvImplies, PTL DEF Spec

-----------------------------------------------------------------------------
(* What a restart may give up.                                             *)

\* Of the steps with a fault only a restart ends a session, and only one that is stale.
LEMMA ResumesStep ==
  ASSUME TypeInv, [Next]_vars, faults' # faults, InSession(app), app' = NoApp,
         row.at = app.at, row.dur = app.dur
  PROVE  Ended
  <1>1. app # NoApp /\ app.screen # "boot"
    BY DEF InSession, NoApp, App
  <1>2. Restart
    <2>1. app' # app
      BY <1>1
    <2>2. ~UNCHANGED vars /\ ~Tick /\ ~OpenForm /\ ~Save /\ ~Bootstrap /\ ~Join /\ ~CompleteOnboarding
      BY <2>1, <1>1 DEF vars, counts, phone, Tick, OpenForm, Save, Bootstrap, Join, CompleteOnboarding
    <2>3. ~Poll /\ ~HearWaiting /\ ~HearStage /\ ~HearInvalid /\ ~Exit
      BY DEF counts, Poll, HearWaiting, HearStage, HearInvalid, Exit
    <2>4. ASSUME NEW h \in Handlers,
                 \/ StartWrites(h) \/ FinishWrites(h) \/ ResetWipes(h) \/ ResetReplans(h)
                 \/ \E op \in {"start", "finish", "reset"} : Accept(h, op)
          PROVE  FALSE
      BY <2>4 DEF StartWrites, FinishWrites, ResetWipes, ResetReplans, Accept, counts
    <2>5. ASSUME NEW t \in Stations,
                 Reopen(t) \/ Open(t) \/ Begin(t) \/ Result(t) \/ Flush(t) \/ FlushUnanswered(t)
          PROVE  FALSE
      BY <2>5, <2>1 DEF Reopen, Open, Begin, Result, Flush, FlushUnanswered, counts, phone
    <2> QED BY <2>2, <2>3, <2>4, <2>5 DEF Next
  <1>3. IsStale(app)
    BY <1>1, <1>2 DEF Restart, Goes
  <1>4. row.at \in Nat /\ row.dur \in Nat /\ now \in Nat /\ StaleGrace \in Nat
    BY Bounds DEF TypeInv, ServerTypes, Plans
  <1>5. Over(row)
    BY <1>3, <1>4 DEF IsStale, Over
  <1> QED BY <1>5 DEF Ended, EndReason

\* A phone that is started again asks for the join code only when the game it was in is over,
\* or was given another schedule after the team joined: isPersistedSessionStale.
THEOREM ResumesCorrect == Spec => Resumes
  <1>1. TypeInv /\ [Next]_vars =>
          [faults' # faults /\ InSession(app) /\ app' = NoApp
             => Ended \/ <<row.at, row.dur>> # <<app.at, app.dur>>]_vars
    BY ResumesStep
  <1> QED BY TypeInit, TypeStep, <1>1, PTL DEF Spec, Resumes
=============================================================================
