------------------------- MODULE OfflineQueue_proofs -------------------------
(***************************************************************************)
(* Proofs about OfflineQueue for any number of stations, calls and faults: *)
(* types, with one write to the device per call that waits for it; and,    *)
(* when one call is in flight at a time, that memory and storage hold the  *)
(* same results in the order they were produced, and that the queue keeps  *)
(* the promise of Outbox.                                                  *)
(***************************************************************************)
EXTENDS OfflineQueue, WellFoundedInduction, TLAPS

-----------------------------------------------------------------------------
(* A fold over a sequence, as a function of the steps it takes.            *)

LEMMA Least ==
  ASSUME NEW S, S \subseteq Nat, S # {}
  PROVE  \E n \in S : \A m \in S : n <= m
<1> DEFINE R == OpToRel(<, Nat)
<1>1. PICK n \in S : \A m \in S : ~(<<m, n>> \in R)
  BY WFMin, NatLessThanWellFounded
<1>2. \A m \in S : ~(m < n)
  BY <1>1 DEF OpToRel
<1> QED BY <1>2

\* A set with 0 and with the successor of every number it has below N has all up to N.
LEMMA UpTo ==
  ASSUME NEW N \in Nat, NEW S, 0 \in S, \A n \in 0..N : n \in S /\ n < N => n + 1 \in S
  PROVE  \A n \in 0..N : n \in S
<1> SUFFICES ASSUME NEW k \in 0..N, k \notin S PROVE FALSE
  OBVIOUS
<1> DEFINE Missing == {n \in 0..N : n \notin S}
<1>0. Missing \subseteq Nat /\ Missing # {}
  OBVIOUS
<1>1. PICK n \in Missing : \A m \in Missing : n <= m
  <2> HIDE DEF Missing
  <2> QED BY <1>0, Least
<1>2. n # 0 /\ n - 1 \in 0..N /\ n - 1 < N
  BY <1>1
<1>3. n - 1 \in S
  BY <1>1, <1>2
<1>4. n - 1 + 1 \in S
  BY <1>2, <1>3
<1> QED BY <1>1, <1>4

Fold(f, A, b, N, g) == f \in [0..N -> A] /\ f[0] = b /\ \A i \in 1..N : f[i] = g[i][f[i - 1]]

LEMMA FoldExists ==
  ASSUME NEW A, NEW b \in A, NEW N \in Nat, NEW g \in [1..N -> [A -> A]]
  PROVE  \E f : Fold(f, A, b, N, g)
<1> DEFINE S == {n \in 0..N : \E f : Fold(f, A, b, n, g)}
<1>1. 0 \in S
  <2> DEFINE first == [i \in 0..0 |-> b]
  <2>1. Fold(first, A, b, 0, g)
    BY DEF Fold
  <2> HIDE DEF first
  <2>2. \E f : Fold(f, A, b, 0, g)
    BY <2>1
  <2> QED BY <2>2
<1>2. \A n \in 0..N : n \in S /\ n < N => n + 1 \in S
  <2> SUFFICES ASSUME NEW n \in 0..N, n \in S, n < N PROVE n + 1 \in S
    OBVIOUS
  <2>1. PICK f : Fold(f, A, b, n, g)
    OBVIOUS
  <2>2. f \in [0..n -> A] /\ f[0] = b /\ f[n] \in A /\ n + 1 \in 1..N /\ n + 1 \in 0..N
    BY <2>1 DEF Fold
  <2>3. g[n + 1][f[n]] \in A
    BY <2>2
  <2> DEFINE last == g[n + 1][f[n]]
             h == [i \in 0..(n + 1) |-> IF i = n + 1 THEN last ELSE f[i]]
  <2> HIDE DEF S
  <2>4. h \in [0..(n + 1) -> A] /\ h[0] = b
    <3>1. 0 \in 0..(n + 1) /\ n + 1 # 0 /\ \A i \in 0..(n + 1) : i = n + 1 \/ i \in 0..n
      OBVIOUS
    <3>2. last \in A
      BY <2>3
    <3> HIDE DEF last
    <3>3. \A i \in 0..(n + 1) : (IF i = n + 1 THEN last ELSE f[i]) \in A
      BY <2>2, <3>1, <3>2
    <3> QED BY <2>2, <3>1, <3>3
  <2>5. \A i \in 1..(n + 1) : h[i] = g[i][h[i - 1]]
    <3> TAKE i \in 1..(n + 1)
    <3>1. CASE i = n + 1
      <4>1. h[i] = last /\ h[i - 1] = f[n]
        BY <3>1
      <4> QED BY <3>1, <4>1
    <3>2. CASE i \in 1..n
      <4>1. f[i] = g[i][f[i - 1]]
        BY <2>1, <3>2 DEF Fold
      <4>2. h[i] = f[i] /\ h[i - 1] = f[i - 1]
        BY <3>2
      <4> QED BY <4>1, <4>2
    <3> QED BY <3>1, <3>2
  <2> HIDE DEF h
  <2>6. \E k : Fold(k, A, b, n + 1, g)
    BY <2>4, <2>5 DEF Fold
  <2> QED BY <2>2, <2>6 DEF S
<1>3. \A n \in 0..N : n \in S
  <2> HIDE DEF S
  <2> QED BY <1>1, <1>2, UpTo, Zenon
<1>4. N \in 0..N
  OBVIOUS
<1> QED BY <1>3, <1>4

Screen == [Stations -> Statuses]

LEMMA ShowsTyped ==
  ASSUME QueueAssumption, NEW sh \in Screen, NEW m \in Mutation
  PROVE  Shows(sh, m) \in Screen
<1>1. m.type \in {"start", "complete", "fail"} /\ m.station \in Stations
  BY DEF Mutation, QueueAssumption
<1> QED BY <1>1 DEF Shows, Screen, Statuses, Decided

LEMMA ShowsAllTyped ==
  ASSUME QueueAssumption, NEW sh0 \in Screen, NEW q \in Seq(Mutation)
  PROVE  ShowsAll(sh0, q) \in Screen
<1>1. sh0 \in Screen /\ q \in Seq(Mutation)
  OBVIOUS
<1>2. PICK N \in Nat : N = Len(q)
  BY <1>1
<1>3. \A i \in 1..N : q[i] \in Mutation
  BY <1>1, <1>2
<1> DEFINE g == [i \in 1..N |-> [sh \in Screen |-> Shows(sh, q[i])]]
           Body(f) == [i \in 0..Len(q) |-> IF i = 0 THEN sh0 ELSE Shows(f[i - 1], q[i])]
           after == CHOOSE f : f = Body(f)
<1>4. g \in [1..N -> [Screen -> Screen]]
  BY <1>3, ShowsTyped
<1>5. PICK f : Fold(f, Screen, sh0, N, g)
  <2> HIDE DEF g
  <2> QED BY <1>1, <1>4, FoldExists
<1>6. f = Body(f)
  <2>1. f \in [0..N -> Screen] /\ f[0] = sh0 /\ \A i \in 1..N : f[i] = g[i][f[i - 1]]
    BY <1>5 DEF Fold
  <2>2. \A i \in 1..N : i - 1 \in 0..N
    OBVIOUS
  <2>3. \A i \in 1..N : f[i - 1] \in Screen
    BY <2>1, <2>2
  <2>4. \A i \in 1..N : f[i] = Shows(f[i - 1], q[i])
    BY <2>1, <2>3
  <2>5. \A i \in 0..N : f[i] = IF i = 0 THEN sh0 ELSE Shows(f[i - 1], q[i])
    <3> TAKE i \in 0..N
    <3>1. i = 0 \/ i \in 1..N
      OBVIOUS
    <3> QED BY <2>1, <2>4, <3>1
  <2> HIDE DEF g
  <2> QED BY <1>2, <2>1, <2>5
<1>7. after = Body(after)
  BY <1>6, Zenon
<1>8. ShowsAll(sh0, q) = after[Len(q)]
  BY DEF ShowsAll
<1> DEFINE S == {i \in 0..N : after[i] \in Screen}
<1>9. 0 \in S
  <2>1. Body(after)[0] = sh0
    BY <1>2
  <2>2. after[0] = sh0
    BY <1>7, <2>1, Zenon
  <2> HIDE DEF after
  <2> QED BY <1>1, <2>2
<1>10. \A n \in 0..N : n \in S /\ n < N => n + 1 \in S
  <2> HIDE DEF after
  <2> SUFFICES ASSUME NEW n \in 0..N, after[n] \in Screen, n < N PROVE after[n + 1] \in Screen /\ n + 1 \in 0..N
    OBVIOUS
  <2>1. n + 1 \in 0..N /\ n + 1 \in 1..N /\ n + 1 # 0 /\ n + 1 - 1 = n
    OBVIOUS
  <2>2. Body(after)[n + 1] = Shows(after[n], q[n + 1])
    BY <1>2, <2>1
  <2>3. after[n + 1] = Shows(after[n], q[n + 1])
    BY <1>7, <2>2, Zenon
  <2> QED BY <1>3, <2>1, <2>3, ShowsTyped
<1>11. \A n \in 0..N : n \in S
  <2> HIDE DEF S
  <2> QED BY <1>9, <1>10, UpTo, Zenon
<1>12. N \in 0..N
  OBVIOUS
<1> HIDE DEF after
<1> QED BY <1>2, <1>8, <1>11, <1>12

-----------------------------------------------------------------------------
(* Types. A call that waits for a write has exactly one under way, a       *)
(* request is out for a mutation, and a flush sends the first it has left. *)

Write == [by : Calls, queue : Seq(Mutation)]

Typing ==
  /\ server \in Screen /\ shown \in Screen
  /\ settled \subseteq 1..MaxTaps /\ late \subseteq Mutation
  /\ queue \in Seq(Mutation) /\ stored \in Seq(Mutation) /\ flushing \in BOOLEAN
  /\ rendered \in [queue : Seq(Mutation), flushing : BOOLEAN]
  /\ call \in [Calls -> Call]
  /\ writes \in Seq(Write)
  /\ taps \in 0..MaxTaps

Sound(q) ==
  /\ q.net = "none" <=> q.pc \notin {"tap", "flush"}
  /\ q.pc \in {"tap", "flush"} => q.m \in Mutation
  /\ q.pc = "flush" => q.local # <<>> /\ q.m = Head(q.local)

Waits(c) == \E i \in DOMAIN writes : writes[i].by = c
Awaited == \A c \in Calls : (call[c].pc \in Saving) <=> Waits(c)
OneWriteEach == \A i, j \in DOMAIN writes : writes[i].by = writes[j].by => i = j

TypeInv == Typing /\ Awaited /\ OneWriteEach /\ \A c \in Calls : Sound(call[c])

LEMMA TypeInvIsTypeOK == ASSUME TypeInv PROVE TypeOK
  BY DEF TypeInv, Typing, TypeOK, Awaited, Waits, Sound, Screen

\* The record of a call.
LEMMA Fields ==
  ASSUME NEW q \in Call
  PROVE  /\ q.pc \in PCs /\ q.m \in Mutation \cup {NoMutation}
         /\ q.net \in {"none", "out", "throttled"} \cup Verdicts
         /\ q.local \in Seq(Mutation) /\ q.view \in Seq(Mutation) /\ q.snap \in Screen
  BY DEF Call, Screen

LEMMA NoCallTyped == NoCall \in Call /\ Sound(NoCall) /\ NoCall.pc = "idle"
<1>1. AllTodo \in [Stations -> Statuses]
  BY DEF AllTodo, Statuses
<1>2. NoCall \in Call
  BY <1>1 DEF NoCall, Call, PCs
<1>3. NoCall.net = "none" /\ NoCall.pc = "idle"
  BY DEF NoCall
<1> QED BY <1>2, <1>3 DEF Sound

\* A call that goes on without waiting for a write.
LEMMA Going ==
  ASSUME TypeInv, NEW c \in Calls, NEW q \in Call, Goes(c, q), Sound(q),
         call[c].pc \notin Saving, q.pc \notin Saving, UNCHANGED writes
  PROVE  /\ call' \in [Calls -> Call] /\ writes' \in Seq(Write)
         /\ Awaited' /\ OneWriteEach' /\ \A d \in Calls : Sound(call[d])'
<1>1. call \in [Calls -> Call] /\ writes \in Seq(Write)
  BY DEF TypeInv, Typing
<1>2. call' \in [Calls -> Call] /\ call'[c] = q /\ \A d \in Calls \ {c} : call'[d] = call[d]
  BY <1>1 DEF Goes
<1>3. Awaited'
  BY <1>2 DEF TypeInv, Awaited, Waits
<1>4. OneWriteEach'
  BY DEF TypeInv, OneWriteEach
<1>5. \A d \in Calls : Sound(call'[d])
  BY <1>2 DEF TypeInv
<1>6. \A d \in Calls : Sound(call[d])'
  BY <1>5 DEF Sound
<1> QED BY <1>1, <1>2, <1>3, <1>4, <1>6

\* A call that writes, and waits for it.
LEMMA Persisting ==
  ASSUME TypeInv, NEW c \in Calls, NEW q \in Call, Goes(c, q), Sound(q), NEW x \in Seq(Mutation),
         call[c].pc \notin Saving, q.pc \in Saving, Persist(c, x)
  PROVE  /\ call' \in [Calls -> Call] /\ writes' \in Seq(Write) /\ queue' \in Seq(Mutation)
         /\ Awaited' /\ OneWriteEach' /\ \A d \in Calls : Sound(call[d])'
<1> DEFINE w == [by |-> c, queue |-> x]
<1>1. call \in [Calls -> Call] /\ writes \in Seq(Write)
  BY DEF TypeInv, Typing
<1>2. call' \in [Calls -> Call] /\ call'[c] = q /\ \A d \in Calls \ {c} : call'[d] = call[d]
  BY <1>1 DEF Goes
<1>3. w \in Write /\ w.by = c
  BY DEF Write
<1>4. writes' = Append(writes, w) /\ queue' = x
  BY DEF Persist
<1> HIDE DEF w
<1>5. PICK N \in Nat : N = Len(writes)
  BY <1>1
<1>6. /\ writes' \in Seq(Write) /\ DOMAIN writes' = 1..(N + 1) /\ DOMAIN writes = 1..N
      /\ writes'[N + 1] = w /\ \A i \in 1..N : writes'[i] = writes[i]
  BY <1>1, <1>3, <1>4, <1>5
<1>7. \A d \in Calls : Waits(d)' <=> (Waits(d) \/ d = c)
  BY <1>3, <1>6 DEF Waits
<1>8. Awaited'
  BY <1>2, <1>7 DEF TypeInv, Awaited
<1>9. ~Waits(c)
  BY DEF TypeInv, Awaited
<1>10. OneWriteEach'
  <2> SUFFICES ASSUME NEW i \in 1..(N + 1), NEW j \in 1..(N + 1), writes'[i].by = writes'[j].by PROVE i = j
    BY <1>6 DEF OneWriteEach
  <2>1. \A k \in 1..N : writes'[k].by # c
    BY <1>6, <1>9 DEF Waits
  <2>2. \A k \in 1..(N + 1) : k \in 1..N \/ k = N + 1
    OBVIOUS
  <2>3. CASE i \in 1..N /\ j \in 1..N
    BY <1>6, <2>3 DEF TypeInv, OneWriteEach
  <2>4. CASE i = N + 1 \/ j = N + 1
    BY <1>3, <1>6, <2>1, <2>2, <2>4
  <2> QED BY <2>2, <2>3, <2>4
<1>11. \A d \in Calls : Sound(call'[d])
  BY <1>2 DEF TypeInv
<1>12. \A d \in Calls : Sound(call[d])'
  BY <1>11 DEF Sound
<1> QED BY <1>2, <1>4, <1>6, <1>8, <1>10, <1>12

\* The oldest write lands: its call waits no more, the others still do.
LEMMA Landing ==
  ASSUME TypeInv, writes # <<>>, NEW q \in Call, Goes(Head(writes).by, q), Sound(q),
         q.pc \notin Saving, writes' = Tail(writes)
  PROVE  /\ call' \in [Calls -> Call] /\ writes' \in Seq(Write)
         /\ Awaited' /\ OneWriteEach' /\ \A d \in Calls : Sound(call[d])'
<1>1. call \in [Calls -> Call] /\ writes \in Seq(Write)
  BY DEF TypeInv, Typing
<1>2. PICK N \in Nat \ {0} : N = Len(writes)
  BY <1>1
<1>3. /\ Head(writes) = writes[1] /\ writes[1] \in Write
      /\ writes' \in Seq(Write) /\ DOMAIN writes' = 1..(N - 1) /\ DOMAIN writes = 1..N
      /\ \A i \in 1..(N - 1) : writes'[i] = writes[i + 1]
  BY <1>1, <1>2
<1>4. PICK c \in Calls : c = Head(writes).by /\ c = writes[1].by
  BY <1>3 DEF Write
<1>5. call' \in [Calls -> Call] /\ call'[c] = q /\ \A d \in Calls \ {c} : call'[d] = call[d]
  BY <1>1, <1>4 DEF Goes
<1>6. \A i \in 2..N : writes[i].by # c
  <2>1. 1 \in 1..N /\ \A i \in 2..N : i \in 1..N /\ i # 1
    BY <1>2
  <2> QED BY <1>3, <1>4, <2>1 DEF TypeInv, OneWriteEach
<1>7. ~Waits(c)'
  <2>1. \A i \in 1..(N - 1) : i + 1 \in 2..N
    BY <1>2
  <2> QED BY <1>3, <1>6, <2>1 DEF Waits
<1>8. ASSUME NEW d \in Calls \ {c} PROVE Waits(d)' <=> Waits(d)
  <2>1. ASSUME NEW i \in 1..N, writes[i].by = d PROVE Waits(d)'
    <3>1. i # 1
      BY <1>4, <2>1
    <3>2. i - 1 \in 1..(N - 1) /\ i - 1 + 1 = i
      BY <1>2, <3>1
    <3> QED BY <1>3, <2>1, <3>2 DEF Waits
  <2>2. ASSUME NEW i \in 1..(N - 1), writes'[i].by = d PROVE Waits(d)
    <3>1. i + 1 \in 1..N
      BY <1>2
    <3> QED BY <1>3, <2>2, <3>1 DEF Waits
  <2> QED BY <1>3, <2>1, <2>2 DEF Waits
<1>9. Awaited'
  BY <1>5, <1>7, <1>8 DEF TypeInv, Awaited
<1>10. OneWriteEach'
  <2> SUFFICES ASSUME NEW i \in 1..(N - 1), NEW j \in 1..(N - 1), writes'[i].by = writes'[j].by PROVE i = j
    BY <1>3 DEF OneWriteEach
  <2>1. i + 1 \in 1..N /\ j + 1 \in 1..N /\ (i + 1 = j + 1 => i = j)
    BY <1>2
  <2>2. writes[i + 1].by = writes[j + 1].by
    BY <1>3
  <2> QED BY <1>3, <2>1, <2>2 DEF TypeInv, OneWriteEach
<1>11. \A d \in Calls : Sound(call'[d])
  BY <1>5 DEF TypeInv
<1>12. \A d \in Calls : Sound(call[d])'
  BY <1>11 DEF Sound
<1> QED BY <1>3, <1>5, <1>9, <1>10, <1>12

-----------------------------------------------------------------------------
\* A call that is free, and what may start.
LEMMA FreeIsIdle == ASSUME NEW c \in Calls, Free(c) PROVE call[c].pc = "idle"
<1>1. c \in {d \in Calls : call[d].pc = "idle"}
  BY DEF Free
<1> QED BY <1>1

LEMMA AtCall ==
  ASSUME TypeInv, NEW c \in Calls
  PROVE  /\ call[c] \in Call /\ Sound(call[c]) /\ call[c].view \in Seq(Mutation) /\ call[c].local \in Seq(Mutation)
         /\ call[c].net # "none" => call[c].m \in Mutation
<1>1. call[c] \in Call /\ Sound(call[c])
  BY DEF TypeInv, Typing
<1> QED BY <1>1, Fields DEF Sound

LEMMA RefreshingTyped ==
  ASSUME TypeInv, NEW c \in Calls
  PROVE  /\ Refreshing(c) \in Call /\ Sound(Refreshing(c)) /\ Refreshing(c).pc = "fetch"
         /\ \A left \in Seq(Mutation), p \in {"saveNext", "saveLast"} :
              LET q == [Refreshing(c) EXCEPT !.pc = p, !.local = left] IN q \in Call /\ Sound(q) /\ q.pc = p
         /\ LET q == [Refreshing(c) EXCEPT !.pc = "saveLast"] IN q \in Call /\ Sound(q) /\ q.pc = "saveLast"
<1>1. NoCall \in Call /\ NoCall.net = "none"
  BY NoCallTyped DEF NoCall
<1>2. call[c].view \in Seq(Mutation)
  BY AtCall
<1> DEFINE f == Refreshing(c)
<1>3. f \in Call /\ f.pc = "fetch" /\ f.net = "none"
  <2>1. f = [NoCall EXCEPT !.pc = "fetch", !.view = call[c].view]
    BY DEF Refreshing
  <2>2. "fetch" \in PCs
    BY DEF PCs
  <2> QED BY <1>1, <1>2, <2>1, <2>2 DEF Call
<1> HIDE DEF f
<1>4. ASSUME NEW left \in Seq(Mutation), NEW p \in {"saveNext", "saveLast"}
      PROVE  LET q == [f EXCEPT !.pc = p, !.local = left] IN q \in Call /\ q.net = "none" /\ q.pc = p
  <2>1. p \in PCs
    BY DEF PCs
  <2> QED BY <1>3, <2>1 DEF Call
<1>5. LET q == [f EXCEPT !.pc = "saveLast"] IN q \in Call /\ q.net = "none" /\ q.pc = "saveLast"
  <2>1. "saveLast" \in PCs
    BY DEF PCs
  <2> QED BY <1>3, <2>1 DEF Call
<1> QED BY <1>3, <1>4, <1>5 DEF Sound, f

LEMMA FlushingTyped ==
  ASSUME NEW left \in Seq(Mutation), left # <<>>, NEW view \in Seq(Mutation)
  PROVE  LET q == [NoCall EXCEPT !.pc = "flush", !.m = Head(left), !.net = "out", !.local = left, !.view = view]
         IN q \in Call /\ Sound(q) /\ q.pc = "flush"
<1> DEFINE q == [NoCall EXCEPT !.pc = "flush", !.m = Head(left), !.net = "out", !.local = left, !.view = view]
<1>1. NoCall \in Call
  BY NoCallTyped
<1>2. PICK h \in Mutation : h = Head(left)
  OBVIOUS
<1>3. q = [NoCall EXCEPT !.pc = "flush", !.m = h, !.net = "out", !.local = left, !.view = view]
  BY <1>2
<1>4. "flush" \in PCs
  BY DEF PCs
<1>5. /\ q \in Call /\ q.pc = "flush" /\ q.net = "out" /\ q.m = h /\ q.local = left
  BY <1>1, <1>3, <1>4 DEF Call
<1> HIDE DEF q
<1>6. Sound(q)
  BY <1>2, <1>5 DEF Sound
<1> QED BY <1>5, <1>6 DEF q

-----------------------------------------------------------------------------
\* The actions of a call.
LEMMA ReadStoredTyped ==
  ASSUME TypeInv, NEW c \in Calls, ReadStored(c)
  PROVE  TypeInv'
<1> DEFINE q == [call[c] EXCEPT !.pc = "hydrated", !.local = stored]
<1>1. call[c].pc = "hydrate" /\ Goes(c, q) /\ UNCHANGED <<environment, react, rendered, shown, stored, writes, counts>>
  BY DEF ReadStored
<1>2. call[c] \in Call /\ Sound(call[c]) /\ stored \in Seq(Mutation) /\ "hydrated" \in PCs
  BY AtCall DEF TypeInv, Typing, PCs
<1>3. q \in Call /\ q.pc = "hydrated" /\ q.net = call[c].net
  BY <1>2 DEF Call
<1> HIDE DEF q
<1>4. Sound(q)
  BY <1>1, <1>2, <1>3 DEF Sound
<1>5. call[c].pc \notin Saving /\ q.pc \notin Saving
  BY <1>1, <1>3 DEF Saving
<1>6. UNCHANGED writes
  BY <1>1
<1> QED BY <1>1, <1>3, <1>4, <1>5, <1>6, Going DEF TypeInv, Typing, environment, react, counts

LEMMA EndsTyped ==
  ASSUME TypeInv, NEW c \in Calls, Ends(c), call[c].pc \notin Saving, UNCHANGED writes
  PROVE  /\ call' \in [Calls -> Call] /\ writes' \in Seq(Write)
         /\ Awaited' /\ OneWriteEach' /\ \A d \in Calls : Sound(call[d])'
<1>1. NoCall.pc \notin Saving
  BY NoCallTyped DEF Saving
<1> QED BY <1>1, NoCallTyped, Going DEF Ends

LEMMA HydrateTyped ==
  ASSUME TypeInv, NEW c \in Calls, Hydrate(c)
  PROVE  TypeInv'
<1>1. /\ call[c].pc \notin Saving /\ Ends(c) /\ queue' = call[c].local
      /\ UNCHANGED <<environment, flushing, rendered, shown, stored, writes, counts>>
  BY DEF Hydrate, Saving
<1>2. UNCHANGED writes
  BY <1>1
<1>3. call[c].local \in Seq(Mutation)
  BY AtCall
<1> QED BY <1>1, <1>2, <1>3, EndsTyped DEF TypeInv, Typing, environment, counts

LEMMA TapTyped ==
  ASSUME TypeInv, QueueAssumption, NEW c \in Calls, NEW type \in Types, NEW s \in Stations, Tap(c, type, s)
  PROVE  TypeInv'
<1> DEFINE m == [id |-> taps + 1, type |-> type, station |-> s]
           q == [NoCall EXCEPT !.pc = "tap", !.net = "out", !.view = rendered.queue, !.m = m]
<1>1. /\ Free(c) /\ taps < MaxTaps /\ taps' = taps + 1 /\ Goes(c, q)
      /\ UNCHANGED <<environment, react, rendered, shown, stored, writes, faults, kills>>
  BY DEF Tap, MayStart
<1>2. taps \in 0..MaxTaps /\ MaxTaps \in Nat /\ rendered.queue \in Seq(Mutation)
  BY DEF TypeInv, Typing, QueueAssumption
<1>3. taps' \in 0..MaxTaps /\ taps + 1 \in 1..MaxTaps
  BY <1>1, <1>2
<1>4. m \in Mutation
  BY <1>3 DEF Mutation
<1> HIDE DEF m
<1>5. q \in Call /\ q.pc = "tap" /\ q.net = "out" /\ q.m = m
  <2>1. NoCall \in Call /\ "tap" \in PCs
    BY NoCallTyped DEF PCs
  <2> QED BY <1>2, <1>4, <2>1 DEF Call
<1> HIDE DEF q
<1>6. Sound(q)
  BY <1>4, <1>5 DEF Sound
<1>7. call[c].pc \notin Saving /\ q.pc \notin Saving
  BY <1>1, <1>5, FreeIsIdle DEF Saving
<1>8. UNCHANGED writes
  BY <1>1
<1> QED BY <1>1, <1>3, <1>5, <1>6, <1>7, <1>8, Going DEF TypeInv, Typing, environment, react

LEMMA TapAcceptedTyped ==
  ASSUME TypeInv, QueueAssumption, NEW c \in Calls, TapAccepted(c)
  PROVE  TypeInv'
<1>1. /\ call[c].pc = "tap" /\ call[c].net = "ok" /\ shown' = Shows(shown, call[c].m) /\ Goes(c, Refreshing(c))
      /\ UNCHANGED <<environment, react, rendered, stored, writes, counts>>
  BY DEF TapAccepted
<1>2. call[c].m \in Mutation /\ shown \in Screen
  BY <1>1, AtCall DEF TypeInv, Typing
<1>3. shown' \in Screen
  BY <1>1, <1>2, ShowsTyped
<1>4. Refreshing(c) \in Call /\ Sound(Refreshing(c)) /\ Refreshing(c).pc = "fetch"
  BY RefreshingTyped
<1>5. call[c].pc \notin Saving /\ Refreshing(c).pc \notin Saving /\ UNCHANGED writes
  BY <1>1, <1>4 DEF Saving
<1> QED BY <1>1, <1>3, <1>4, <1>5, Going DEF TypeInv, Typing, environment, react, counts

LEMMA TapRefusedTyped ==
  ASSUME TypeInv, NEW c \in Calls, TapRefused(c)
  PROVE  TypeInv'
<1>1. /\ call[c].pc \notin Saving /\ Ends(c) /\ UNCHANGED writes
      /\ UNCHANGED <<environment, react, rendered, shown, stored, counts>>
  BY DEF TapRefused, Saving
<1> QED BY <1>1, EndsTyped DEF TypeInv, Typing, environment, react, counts

\* A fault leaves what is sent to arrive late.
LEMMA FaultTyped ==
  ASSUME TypeInv, NEW c \in Calls, Fault(c)
  PROVE  late' \subseteq Mutation
<1>1. call[c].net = "out" => call[c].m \in Mutation
  BY AtCall
<1> QED BY <1>1 DEF Fault, TypeInv, Typing

LEMMA TapUnansweredTyped ==
  ASSUME TypeInv, QueueAssumption, NEW c \in Calls, TapUnanswered(c)
  PROVE  TypeInv'
<1> DEFINE x == Append(call[c].view, call[c].m)
           q == [NoCall EXCEPT !.pc = "saveTap"]
<1>1. /\ call[c].pc = "tap" /\ Fault(c) /\ shown' = Shows(shown, call[c].m) /\ Persist(c, x) /\ Goes(c, q)
      /\ UNCHANGED <<server, settled, flushing, rendered, stored, taps, kills>>
  BY DEF TapUnanswered
<1>2. call[c].m \in Mutation /\ call[c].view \in Seq(Mutation) /\ shown \in Screen /\ call[c].pc \notin Saving
  BY <1>1, AtCall DEF TypeInv, Typing, Sound, Saving
<1>3. shown' \in Screen
  BY <1>1, <1>2, ShowsTyped
<1>4. x \in Seq(Mutation)
  BY <1>2
<1>5. q \in Call /\ q.pc = "saveTap" /\ q.net = "none"
  <2>1. NoCall \in Call /\ "saveTap" \in PCs /\ NoCall.net = "none"
    BY NoCallTyped DEF PCs, NoCall
  <2> QED BY <2>1 DEF Call
<1> HIDE DEF x, q
<1>6. Sound(q) /\ q.pc \in Saving
  BY <1>5 DEF Sound, Saving
<1>7. late' \subseteq Mutation
  BY <1>1, FaultTyped
<1> QED BY <1>1, <1>2, <1>3, <1>4, <1>5, <1>6, <1>7, Persisting DEF TypeInv, Typing

LEMMA GivenUpTyped ==
  ASSUME TypeInv, NEW c \in Calls, TapTimedOut(c) \/ FetchUnanswered(c)
  PROVE  TypeInv'
<1>1. /\ Fault(c) /\ Ends(c) /\ call[c].pc \notin Saving /\ UNCHANGED writes
      /\ UNCHANGED <<server, settled, react, rendered, shown, stored, taps, kills>>
  BY DEF TapTimedOut, FetchUnanswered, Saving
<1>2. late' \subseteq Mutation
  BY <1>1, FaultTyped
<1> QED BY <1>1, <1>2, EndsTyped DEF TypeInv, Typing, react

LEMMA PollTyped ==
  ASSUME TypeInv, NEW c \in Calls, Poll(c)
  PROVE  TypeInv'
<1> DEFINE start == [NoCall EXCEPT !.pc = "fetch", !.view = rendered.queue]
           q == [start EXCEPT !.pc = "flush", !.m = Head(rendered.queue), !.net = "out", !.local = rendered.queue]
<1>1. /\ Free(c) /\ UNCHANGED <<environment, queue, rendered, shown, stored, writes, counts>>
      /\ \/ Goes(c, start) /\ UNCHANGED flushing
         \/ rendered.queue # <<>> /\ flushing' = TRUE /\ Goes(c, q)
  BY DEF Poll, MayStart
<1>2. rendered.queue \in Seq(Mutation) /\ flushing \in BOOLEAN
  BY DEF TypeInv, Typing
<1>3. NoCall \in Call /\ "fetch" \in PCs /\ NoCall.net = "none"
  BY NoCallTyped DEF PCs, NoCall
<1>4. start \in Call /\ start.pc = "fetch" /\ start.net = "none"
  BY <1>2, <1>3 DEF Call
<1>5. rendered.queue # <<>> => q \in Call /\ Sound(q) /\ q.pc = "flush"
  <2>1. q = [NoCall EXCEPT !.pc = "flush", !.m = Head(rendered.queue), !.net = "out", !.local = rendered.queue,
                           !.view = rendered.queue]
    <3> DEFINE h == Head(rendered.queue)
    <3> HIDE DEF h
    <3>1. [start EXCEPT !.pc = "flush", !.m = h, !.net = "out", !.local = rendered.queue]
            = [NoCall EXCEPT !.pc = "flush", !.m = h, !.net = "out", !.local = rendered.queue, !.view = rendered.queue]
      BY DEF NoCall
    <3> QED BY <3>1 DEF h
  <2> HIDE DEF q
  <2> QED BY <1>2, <2>1, FlushingTyped
<1> HIDE DEF start, q
<1>6. call[c].pc \notin Saving /\ UNCHANGED writes
  BY <1>1, FreeIsIdle DEF Saving
<1>7. CASE Goes(c, start) /\ UNCHANGED flushing
  <2>1. Sound(start) /\ start.pc \notin Saving
    BY <1>4 DEF Sound, Saving
  <2> QED BY <1>1, <1>4, <1>6, <1>7, <2>1, Going DEF TypeInv, Typing, environment, counts
<1>8. CASE rendered.queue # <<>> /\ flushing' = TRUE /\ Goes(c, q)
  <2>1. q.pc \notin Saving
    BY <1>5, <1>8 DEF Saving
  <2> QED BY <1>1, <1>5, <1>6, <1>8, <2>1, Going DEF TypeInv, Typing, environment, counts
<1> QED BY <1>1, <1>7, <1>8

LEMMA TailTyped ==
  ASSUME TypeInv, NEW c \in Calls, call[c].pc = "flush"
  PROVE  Tail(call[c].local) \in Seq(Mutation)
<1>1. call[c].local \in Seq(Mutation) /\ call[c].local # <<>>
  BY AtCall DEF Sound
<1> QED BY <1>1

LEMMA FlushAnsweredTyped ==
  ASSUME TypeInv, NEW c \in Calls, FlushAnswered(c)
  PROVE  TypeInv'
<1> DEFINE left == Tail(call[c].local)
           q == [Refreshing(c) EXCEPT !.pc = "saveNext", !.local = left]
<1>1. /\ call[c].pc = "flush" /\ Persist(c, left) /\ Goes(c, q)
      /\ UNCHANGED <<environment, flushing, rendered, shown, stored, counts>>
  BY DEF FlushAnswered
<1>2. left \in Seq(Mutation)
  BY <1>1, TailTyped
<1>3. q \in Call /\ Sound(q) /\ q.pc = "saveNext"
  <2> HIDE DEF left
  <2> QED BY <1>2, RefreshingTyped
<1> HIDE DEF q, left
<1>4. call[c].pc \notin Saving /\ q.pc \in Saving
  BY <1>1, <1>3 DEF Saving
<1> QED BY <1>1, <1>2, <1>3, <1>4, Persisting DEF TypeInv, Typing, environment, counts

LEMMA FlushRefusedTyped ==
  ASSUME TypeInv, NEW c \in Calls, FlushRefused(c)
  PROVE  TypeInv'
<1> DEFINE left == Tail(call[c].local)
           q == [Refreshing(c) EXCEPT !.pc = "saveLast"]
<1>1. /\ call[c].pc = "flush" /\ Persist(c, left) /\ Goes(c, q)
      /\ UNCHANGED <<environment, flushing, rendered, shown, stored, counts>>
  BY DEF FlushRefused
<1>2. left \in Seq(Mutation)
  BY <1>1, TailTyped
<1>3. q \in Call /\ Sound(q) /\ q.pc = "saveLast"
  BY RefreshingTyped
<1> HIDE DEF q, left
<1>4. call[c].pc \notin Saving /\ q.pc \in Saving
  BY <1>1, <1>3 DEF Saving
<1> QED BY <1>1, <1>2, <1>3, <1>4, Persisting DEF TypeInv, Typing, environment, counts

LEMMA FlushUnansweredTyped ==
  ASSUME TypeInv, NEW c \in Calls, FlushUnanswered(c)
  PROVE  TypeInv'
<1>1. /\ call[c].pc = "flush" /\ Fault(c) /\ flushing' = FALSE /\ Goes(c, Refreshing(c)) /\ UNCHANGED writes
      /\ UNCHANGED <<server, settled, queue, rendered, shown, stored, taps, kills>>
  BY DEF FlushUnanswered
<1>2. late' \subseteq Mutation
  BY <1>1, FaultTyped
<1>3. Refreshing(c) \in Call /\ Sound(Refreshing(c)) /\ Refreshing(c).pc = "fetch"
  BY RefreshingTyped
<1>4. call[c].pc \notin Saving /\ Refreshing(c).pc \notin Saving
  BY <1>1, <1>3 DEF Saving
<1> QED BY <1>1, <1>2, <1>3, <1>4, Going DEF TypeInv, Typing

\* The call whose write lands.
LEMMA Lands ==
  ASSUME TypeInv, writes # <<>>
  PROVE  LET c == Head(writes).by IN c \in Calls /\ call[c].pc \in Saving /\ Head(writes).queue \in Seq(Mutation)
<1>1. writes \in Seq(Write)
  BY DEF TypeInv, Typing
<1>2. Head(writes) = writes[1] /\ 1 \in DOMAIN writes /\ writes[1] \in Write
  BY <1>1
<1>3. writes[1].by \in Calls /\ writes[1].queue \in Seq(Mutation)
  BY <1>2 DEF Write
<1>4. Waits(writes[1].by)
  BY <1>2 DEF Waits
<1> QED BY <1>2, <1>3, <1>4 DEF TypeInv, Awaited

LEMMA WrittenTyped ==
  ASSUME TypeInv, Written
  PROVE  TypeInv'
<1> DEFINE c == Head(writes).by
           left == call[c].local
           q == IF call[c].pc = "saveTap" THEN NoCall
                ELSE IF call[c].pc = "saveNext" /\ left # <<>> THEN Flushing(c, left) ELSE Refreshing(c)
<1>1. /\ writes # <<>> /\ stored' = Head(writes).queue /\ writes' = Tail(writes)
      /\ Goes(c, q) /\ flushing' \in {flushing, FALSE}
      /\ UNCHANGED <<environment, queue, rendered, shown, counts>>
  BY DEF Written, Ends
<1>2. c \in Calls /\ call[c].pc \in Saving /\ stored' \in Seq(Mutation)
  BY <1>1, Lands
<1>3. left \in Seq(Mutation) /\ call[c].view \in Seq(Mutation)
  BY <1>2, AtCall
<1>4. q \in Call /\ Sound(q) /\ q.pc \notin Saving
  <2>1. CASE q = NoCall
    BY <2>1, NoCallTyped DEF Saving
  <2>2. CASE left # <<>> /\ q = Flushing(c, left)
    <3> HIDE DEF q, left, c
    <3>1. Flushing(c, left) \in Call /\ Sound(Flushing(c, left)) /\ Flushing(c, left).pc = "flush"
      BY <1>3, <2>2, FlushingTyped DEF Flushing
    <3> QED BY <2>2, <3>1 DEF Saving
  <2>3. CASE q = Refreshing(c)
    <3>1. Refreshing(c) \in Call /\ Sound(Refreshing(c)) /\ Refreshing(c).pc = "fetch"
      BY <1>2, RefreshingTyped
    <3> QED BY <2>3, <3>1 DEF Saving
  <2> QED BY <2>1, <2>2, <2>3
<1>5. /\ call' \in [Calls -> Call] /\ writes' \in Seq(Write)
      /\ Awaited' /\ OneWriteEach' /\ \A d \in Calls : Sound(call[d])'
  <2> HIDE DEF q
  <2> QED BY <1>1, <1>4, Landing
<1> QED BY <1>1, <1>2, <1>5 DEF TypeInv, Typing, environment, counts

LEMMA FetchTyped ==
  ASSUME TypeInv, NEW c \in Calls, Fetch(c)
  PROVE  TypeInv'
<1> DEFINE q == [call[c] EXCEPT !.pc = "apply", !.snap = server]
<1>1. call[c].pc = "fetch" /\ Goes(c, q) /\ UNCHANGED <<environment, react, rendered, shown, stored, writes, counts>>
  BY DEF Fetch
<1>2. call[c] \in Call /\ Sound(call[c]) /\ server \in [Stations -> Statuses] /\ "apply" \in PCs
  BY AtCall DEF TypeInv, Typing, PCs, Screen
<1>3. q \in Call /\ q.pc = "apply" /\ q.net = call[c].net
  BY <1>2 DEF Call
<1> HIDE DEF q
<1>4. Sound(q)
  BY <1>1, <1>2, <1>3 DEF Sound
<1>5. call[c].pc \notin Saving /\ q.pc \notin Saving
  BY <1>1, <1>3 DEF Saving
<1>6. UNCHANGED writes
  BY <1>1
<1> QED BY <1>1, <1>3, <1>4, <1>5, <1>6, Going DEF TypeInv, Typing, environment, react, counts

LEMMA ApplyTyped ==
  ASSUME TypeInv, QueueAssumption, NEW c \in Calls, Apply(c)
  PROVE  TypeInv'
<1>1. /\ shown' = ShowsAll(call[c].snap, call[c].view) /\ Ends(c) /\ call[c].pc \notin Saving /\ UNCHANGED writes
      /\ UNCHANGED <<environment, react, rendered, stored, counts>>
  BY DEF Apply, Saving
<1>2. call[c].snap \in Screen /\ call[c].view \in Seq(Mutation)
  BY AtCall, Fields
<1>3. shown' \in Screen
  BY <1>1, <1>2, ShowsAllTyped
<1> QED BY <1>1, <1>3, EndsTyped DEF TypeInv, Typing, environment, react, counts

-----------------------------------------------------------------------------
\* The server, the network and the owner of the phone.
LEMMA DecidesTyped ==
  ASSUME TypeInv, QueueAssumption, NEW m \in Mutation, NEW verdict \in Verdict(m), Decides(m, verdict)
  PROVE  server' \in Screen /\ settled' \subseteq 1..MaxTaps /\ verdict \in Verdicts
<1>1. server \in Screen /\ settled \subseteq 1..MaxTaps /\ m.id \in 1..MaxTaps
  BY DEF TypeInv, Typing, Mutation
<1>2. Shows(server, m) \in Screen
  BY <1>1, ShowsTyped
<1>3. verdict \in Verdicts
  BY DEF Verdict, Verdicts
<1> QED BY <1>1, <1>2, <1>3 DEF Decides

\* A request is answered.
LEMMA Answering ==
  ASSUME TypeInv, NEW c \in Calls, call[c].net = "out", NEW x \in {"throttled"} \cup Verdicts,
         Goes(c, [call[c] EXCEPT !.net = x]), UNCHANGED writes
  PROVE  /\ call' \in [Calls -> Call] /\ writes' \in Seq(Write)
         /\ Awaited' /\ OneWriteEach' /\ \A d \in Calls : Sound(call[d])'
<1> DEFINE q == [call[c] EXCEPT !.net = x]
<1>1. call[c] \in Call /\ Sound(call[c]) /\ x # "none"
  BY AtCall DEF Verdicts
<1>2. q \in Call /\ q.pc = call[c].pc /\ q.net = x /\ q.m = call[c].m /\ q.local = call[c].local
  BY <1>1 DEF Call
<1>3. Goes(c, q)
  OBVIOUS
<1> HIDE DEF q
<1>4. call[c].pc \in {"tap", "flush"}
  BY <1>1 DEF Sound
<1>5. Sound(q) /\ q.pc \notin Saving /\ call[c].pc \notin Saving
  BY <1>1, <1>2, <1>4 DEF Sound, Saving
<1> QED BY <1>2, <1>3, <1>5, Going

LEMMA ServeTyped ==
  ASSUME TypeInv, QueueAssumption, NEW c \in Calls, Serve(c)
  PROVE  TypeInv'
<1>1. PICK verdict \in Verdict(call[c].m) :
        Decides(call[c].m, verdict) /\ Goes(c, [call[c] EXCEPT !.net = verdict])
  BY DEF Serve
<1>2. call[c].net = "out" /\ UNCHANGED writes /\ UNCHANGED <<late, react, rendered, shown, stored, counts>>
  BY DEF Serve
<1>3. call[c].m \in Mutation
  BY <1>2, AtCall
<1>4. server' \in Screen /\ settled' \subseteq 1..MaxTaps /\ verdict \in Verdicts
  BY <1>1, <1>3, DecidesTyped
<1>5. /\ call' \in [Calls -> Call] /\ writes' \in Seq(Write)
      /\ Awaited' /\ OneWriteEach' /\ \A d \in Calls : Sound(call[d])'
  BY <1>1, <1>2, <1>4, Answering
<1> QED BY <1>2, <1>4, <1>5 DEF TypeInv, Typing, react, counts

LEMMA ThrottleTyped ==
  ASSUME TypeInv, NEW c \in Calls, Throttle(c)
  PROVE  TypeInv'
<1>1. /\ call[c].net = "out" /\ UNCHANGED writes /\ Goes(c, [call[c] EXCEPT !.net = "throttled"])
      /\ UNCHANGED <<environment, react, rendered, shown, stored, taps, kills>>
  BY DEF Throttle
<1>2. /\ call' \in [Calls -> Call] /\ writes' \in Seq(Write)
      /\ Awaited' /\ OneWriteEach' /\ \A d \in Calls : Sound(call[d])'
  BY <1>1, Answering
<1> QED BY <1>1, <1>2 DEF TypeInv, Typing, environment, react

\* Nothing that a call waits for is touched.
LEMMA SameCalls ==
  ASSUME TypeInv, UNCHANGED <<call, writes>>
  PROVE  /\ call' \in [Calls -> Call] /\ writes' \in Seq(Write)
         /\ Awaited' /\ OneWriteEach' /\ \A d \in Calls : Sound(call[d])'
  BY DEF TypeInv, Typing, Awaited, OneWriteEach, Waits, Sound

LEMMA ServeLateTyped ==
  ASSUME TypeInv, QueueAssumption, NEW m \in late, ServeLate(m)
  PROVE  TypeInv'
<1>1. /\ UNCHANGED <<server, settled>> \/ \E verdict \in Verdict(m) : Decides(m, verdict)
      /\ late' = late \ {m} /\ UNCHANGED <<react, rendered, shown, stored, counts>>
      /\ UNCHANGED <<call, writes>>
  BY DEF ServeLate
<1>2. m \in Mutation
  BY DEF TypeInv, Typing
<1>3. server' \in Screen /\ settled' \subseteq 1..MaxTaps
  BY <1>1, <1>2, DecidesTyped DEF TypeInv, Typing
<1> QED BY <1>1, <1>3, SameCalls DEF TypeInv, Typing, react, counts

LEMMA ElsewhereTyped ==
  ASSUME TypeInv, NEW s \in Stations, Elsewhere(s)
  PROVE  TypeInv'
<1>1. /\ \E status \in Decided : server' = [server EXCEPT ![s] = status]
      /\ UNCHANGED <<settled, late, react, rendered, shown, stored, counts>> /\ UNCHANGED <<call, writes>>
  BY DEF Elsewhere
<1>2. server' \in Screen
  BY <1>1 DEF TypeInv, Typing, Screen, Statuses
<1> QED BY <1>1, <1>2, SameCalls DEF TypeInv, Typing, react, counts

LEMMA QueueRenderTyped ==
  ASSUME TypeInv, Render
  PROVE  TypeInv'
<1>1. rendered' \in [queue : Seq(Mutation), flushing : BOOLEAN]
  BY DEF TypeInv, Typing, Render
<1> QED BY <1>1, SameCalls DEF Render, TypeInv, Typing, environment, react, counts

\* A call that the app starts with, or that is reset when it dies.
LEMMA BootedTyped ==
  /\ Booted \in [Calls -> Call]
  /\ \A d \in Calls : Sound(Booted[d]) /\ Booted[d].pc \in {"idle", "hydrate"}
<1> DEFINE q == [NoCall EXCEPT !.pc = "hydrate"]
<1>1. NoCall \in Call /\ Sound(NoCall) /\ NoCall.pc = "idle" /\ NoCall.net = "none"
  BY NoCallTyped DEF NoCall
<1>2. q \in Call /\ q.pc = "hydrate" /\ q.net = "none"
  <2>1. "hydrate" \in PCs
    BY DEF PCs
  <2> QED BY <1>1, <2>1 DEF Call
<1> HIDE DEF q
<1>3. Sound(q)
  BY <1>2 DEF Sound
<1>4. \A d \in Calls : Booted[d] = q \/ Booted[d] = NoCall
  BY DEF Booted, q
<1>5. Booted = [d \in Calls |-> Booted[d]]
  BY DEF Booted
<1> QED BY <1>1, <1>2, <1>3, <1>4, <1>5

LEMMA Boots ==
  ASSUME call' = Booted, writes' = <<>>
  PROVE  /\ call' \in [Calls -> Call] /\ writes' \in Seq(Write)
         /\ Awaited' /\ OneWriteEach' /\ \A d \in Calls : Sound(call[d])'
<1>1. call' \in [Calls -> Call] /\ writes' \in Seq(Write) /\ OneWriteEach' /\ \A d \in Calls : ~Waits(d)'
  BY BootedTyped DEF OneWriteEach, Waits
<1>2. \A d \in Calls : Sound(call'[d]) /\ call'[d].pc \notin Saving
  BY BootedTyped DEF Saving
<1> QED BY <1>1, <1>2 DEF Awaited, Sound

LEMMA EmptyQueue == <<>> \in Seq(Mutation)
  OBVIOUS

LEMMA KillTyped ==
  ASSUME TypeInv, Kill
  PROVE  TypeInv'
<1>1. late' \subseteq Mutation
  <2>1. \A d \in Calls : call[d].net = "out" => call[d].m \in Mutation
    BY AtCall
  <2> QED BY <2>1 DEF Kill, TypeInv, Typing
<1>2. /\ call' = Booted /\ writes' = <<>> /\ queue' = <<>> /\ flushing' = FALSE /\ rendered' = NotRendered
      /\ shown' = AllTodo /\ UNCHANGED <<server, settled, stored, taps, faults>>
  BY DEF Kill
<1>3. rendered' \in [queue : Seq(Mutation), flushing : BOOLEAN] /\ shown' \in Screen
  BY <1>2 DEF NotRendered, AllTodo, Screen, Statuses
<1>4. /\ call' \in [Calls -> Call] /\ writes' \in Seq(Write)
      /\ Awaited' /\ OneWriteEach' /\ \A d \in Calls : Sound(call[d])'
  BY <1>2, Boots
<1>5. queue' \in Seq(Mutation) /\ flushing' \in BOOLEAN
  BY <1>2, EmptyQueue
<1> QED BY <1>1, <1>2, <1>3, <1>4, <1>5 DEF TypeInv, Typing

\* The language is switched: one call reads the queue, and no other does.
LEMMA Switched ==
  ASSUME TypeInv, NEW c \in Calls, Switch(c)
  PROVE  /\ call' \in [Calls -> Call] /\ call'[c].pc = "hydrate" /\ call'[c].net = "none"
         /\ \A d \in Calls : Sound(call'[d])
         /\ \A d \in Calls : (call'[d].pc \in Saving) <=> (call[d].pc \in Saving)
<1> DEFINE q == [NoCall EXCEPT !.pc = "hydrate"]
<1>1. q \in Call /\ q.pc = "hydrate" /\ q.net = "none"
  <2>1. NoCall \in Call /\ NoCall.net = "none" /\ "hydrate" \in PCs
    BY NoCallTyped DEF NoCall, PCs
  <2> QED BY <2>1 DEF Call
<1>2. Free(c) /\ call' = [d \in Calls |-> IF d = c THEN q
                                       ELSE IF call[d].pc \in {"hydrate", "hydrated"} THEN NoCall ELSE call[d]]
  BY DEF Switch
<1> HIDE DEF q
<1>3. Sound(q) /\ q.pc \notin Saving
  BY <1>1 DEF Sound, Saving
<1>4. call[c].pc \notin Saving
  BY <1>2, FreeIsIdle DEF Saving
<1>5. call'[c] = q
  BY <1>2
<1>6. \A d \in Calls \ {c} : call'[d] = IF call[d].pc \in {"hydrate", "hydrated"} THEN NoCall ELSE call[d]
  BY <1>2
<1>7. ASSUME NEW d \in Calls \ {c}
      PROVE  /\ call'[d] \in Call /\ Sound(call'[d])
             /\ (call'[d].pc \in Saving) <=> (call[d].pc \in Saving)
  <2>1. CASE call[d].pc \in {"hydrate", "hydrated"}
    BY <1>6, <2>1, NoCallTyped DEF Saving
  <2>2. CASE call[d].pc \notin {"hydrate", "hydrated"}
    BY <1>6, <2>2, AtCall
  <2> QED BY <2>1, <2>2
<1>8. \A d \in Calls : call'[d] \in Call
  BY <1>1, <1>5, <1>7
<1>9. call' \in [Calls -> Call]
  BY <1>2, <1>8
<1> QED BY <1>1, <1>3, <1>4, <1>5, <1>7, <1>9

LEMMA SwitchTyped ==
  ASSUME TypeInv, QueueAssumption, NEW c \in Calls, Switch(c)
  PROVE  TypeInv'
<1>1. /\ taps < MaxTaps /\ taps' = taps + 1 /\ rendered' = [queue |-> queue, flushing |-> flushing]
      /\ UNCHANGED <<environment, react, shown, stored, writes>>
  BY DEF Switch
<1>2. taps' \in 0..MaxTaps
  BY <1>1 DEF TypeInv, Typing, QueueAssumption
<1>3. rendered' \in [queue : Seq(Mutation), flushing : BOOLEAN]
  BY <1>1 DEF TypeInv, Typing
<1>4. call' \in [Calls -> Call] /\ \A d \in Calls : Sound(call'[d])
  BY Switched, Zenon
<1>5. Awaited'
  <2>1. \A d \in Calls : (call'[d].pc \in Saving) <=> (call[d].pc \in Saving)
    BY Switched, Zenon
  <2> QED BY <1>1, <2>1 DEF TypeInv, Awaited, Waits
<1>6. OneWriteEach'
  BY <1>1 DEF TypeInv, OneWriteEach
<1>7. \A d \in Calls : Sound(call[d])'
  BY <1>4 DEF Sound
<1> QED BY <1>1, <1>2, <1>3, <1>4, <1>5, <1>6, <1>7 DEF TypeInv, Typing, environment, react

LEMMA TypeStart ==
  ASSUME Init, QueueAssumption
  PROVE  TypeInv
<1>1. server \in Screen /\ shown \in Screen /\ taps \in 0..MaxTaps
  BY DEF Init, AllTodo, Screen, Statuses, QueueAssumption
<1>2. /\ settled \subseteq 1..MaxTaps /\ late \subseteq Mutation /\ queue \in Seq(Mutation) /\ stored \in Seq(Mutation)
      /\ flushing \in BOOLEAN
  <2>1. settled = {} /\ late = {} /\ queue = <<>> /\ stored = <<>> /\ flushing = FALSE
    BY DEF Init
  <2> QED BY <2>1, EmptyQueue
<1>3. rendered \in [queue : Seq(Mutation), flushing : BOOLEAN]
  BY DEF Init, NotRendered
<1>4. /\ call \in [Calls -> Call] /\ writes \in Seq(Write) /\ OneWriteEach /\ \A d \in Calls : ~Waits(d)
      /\ \A d \in Calls : Sound(call[d]) /\ call[d].pc \notin Saving
  BY BootedTyped DEF Init, OneWriteEach, Waits, Saving
<1> QED BY <1>1, <1>2, <1>3, <1>4 DEF TypeInv, Typing, Awaited

LEMMA TypeStep ==
  ASSUME TypeInv, QueueAssumption, [Next]_vars
  PROVE  TypeInv'
<1>1. ASSUME NEW c \in Calls, Proceed(c) PROVE TypeInv'
  BY <1>1, ReadStoredTyped, HydrateTyped, ServeTyped, TapAcceptedTyped, TapRefusedTyped, FlushAnsweredTyped,
     FlushRefusedTyped, FetchTyped, ApplyTyped DEF Proceed
<1>2. ASSUME NEW c \in Calls, Trouble(c) PROVE TypeInv'
  BY <1>2, TapUnansweredTyped, GivenUpTyped, FlushUnansweredTyped, ThrottleTyped DEF Trouble
<1>3. ASSUME NEW c \in Calls, Poll(c) \/ Switch(c) PROVE TypeInv'
  BY <1>3, PollTyped, SwitchTyped
<1>4. ASSUME NEW c \in Calls, NEW type \in Types, NEW s \in Stations, Tap(c, type, s) PROVE TypeInv'
  BY <1>4, TapTyped
<1>5. CASE Render \/ Written \/ Kill
  BY <1>5, QueueRenderTyped, WrittenTyped, KillTyped
<1>6. ASSUME NEW m \in late, ServeLate(m) PROVE TypeInv'
  BY <1>6, ServeLateTyped
<1>7. ASSUME NEW s \in Stations, Elsewhere(s) PROVE TypeInv'
  BY <1>7, ElsewhereTyped
<1>8. CASE UNCHANGED vars
  BY <1>8, SameCalls DEF vars, TypeInv, Typing, environment, react, counts
<1> QED BY <1>1, <1>2, <1>3, <1>4, <1>5, <1>6, <1>7, <1>8 DEF Next

\* Whatever overlaps, is lost or dies: every call that waits for a write to the device has
\* exactly one under way, and a request is out exactly while its call waits for the answer.
THEOREM TypeCorrect == Spec => []TypeOK
<1>1. Init => TypeInv
  BY TypeStart, QueueAssumption
<1>2. TypeInv /\ [Next]_vars => TypeInv'
  BY TypeStep, QueueAssumption
<1>3. TypeInv => TypeOK
  BY TypeInvIsTypeOK
<1> QED BY <1>1, <1>2, <1>3, PTL DEF Spec

-----------------------------------------------------------------------------
(* One call at a time, which starts after the render: what it works on is  *)
(* what the phone has in memory, and what is under way to storage too.     *)

Serial == RenderFirst /\ \A c, d \in Calls : c = d

Ordered(q) == \A i, j \in DOMAIN q : i < j => q[i].id < q[j].id
Below(q, n) == \A i \in DOMAIN q : q[i].id < n

Holds(j) ==
  /\ j.pc = "hydrated" => j.local = stored
  /\ j.pc = "tap" => j.view = queue /\ j.m.id <= taps /\ Below(queue, j.m.id)
  /\ j.pc \in {"flush", "saveNext"} => j.local = queue

Hydrating == \E c \in Calls : call[c].pc \in {"hydrate", "hydrated"}

QueueInv ==
  /\ Ordered(queue) /\ Ordered(stored) /\ Below(queue, taps + 1) /\ Below(stored, taps + 1)
  /\ \A c \in Calls : Holds(call[c])
  /\ writes = <<>> /\ ~Hydrating => queue = stored
  /\ \A i \in DOMAIN writes : writes[i].queue = queue

\* What an answer or a write under way says about the verdicts of the server.
Accounts(j) ==
  /\ j.net # "throttled" /\ (j.net \in Verdicts => j.m.id \in settled)
  /\ j.pc = "saveTap" => \E m \in Mutation : queue = Append(stored, m)
  /\ j.pc \in {"saveNext", "saveLast"} => stored # <<>> /\ queue = Tail(stored) /\ Head(stored).id \in settled
Accounted == \A c \in Calls : Accounts(call[c])

\* There is one call, so a write under way is its own, and there is one.
LEMMA Alone ==
  ASSUME TypeInv, Serial, NEW c \in Calls, NEW q, Goes(c, q)
  PROVE  \A d \in Calls : d = c /\ call'[d] = q
  BY DEF Serial, Goes, TypeInv, Typing

LEMMA NoWrites ==
  ASSUME TypeInv, Serial, NEW c \in Calls, call[c].pc \notin Saving
  PROVE  writes = <<>>
<1>1. writes \in Seq(Write)
  BY DEF TypeInv, Typing
<1>2. SUFFICES ASSUME writes # <<>> PROVE FALSE
  OBVIOUS
<1>3. 1 \in DOMAIN writes /\ writes[1] \in Write
  BY <1>1, <1>2
<1>4. writes[1].by = c
  BY <1>3 DEF Write, Serial
<1>5. Waits(c)
  BY <1>3, <1>4 DEF Waits
<1> QED BY <1>5 DEF TypeInv, Awaited

LEMMA Empty == ASSUME NEW S, NEW q \in Seq(S), Len(q) = 0 PROVE q = <<>>
  OBVIOUS

LEMMA OneWrite ==
  ASSUME TypeInv, Serial, writes # <<>>
  PROVE  /\ Len(writes) = 1 /\ DOMAIN writes = {1} /\ Head(writes) = writes[1] /\ Last(writes) = writes[1]
         /\ Tail(writes) = <<>>
<1>1. writes \in Seq(Write)
  BY DEF TypeInv, Typing
<1>2. PICK N \in Nat \ {0} : N = Len(writes)
  BY <1>1
<1>3. \A i \in 1..N : writes[i] \in Write /\ i \in DOMAIN writes
  BY <1>1, <1>2
<1>4. \A i \in 1..N : i = 1
  <2>1. 1 \in 1..N
    BY <1>2
  <2>2. \A i \in 1..N : writes[i].by = writes[1].by
    BY <1>3, <2>1 DEF Write, Serial
  <2> QED BY <1>3, <2>1, <2>2 DEF TypeInv, OneWriteEach
<1>5. N = 1
  <2>1. N \in 1..N
    BY <1>2
  <2> QED BY <1>4, <2>1
<1>6. Len(writes) = 1
  BY <1>2, <1>5
<1>7. DOMAIN writes = {1}
  <2>1. DOMAIN writes = 1..1
    BY <1>1, <1>6
  <2> QED BY <2>1
<1>8. Head(writes) = writes[1] /\ Last(writes) = writes[1]
  BY <1>1, <1>6 DEF Last
<1>9. Tail(writes) = <<>>
  <2>1. Tail(writes) \in Seq(Write) /\ Len(Tail(writes)) = 0
    BY <1>1, <1>6
  <2> QED BY <2>1, Empty
<1> QED BY <1>6, <1>7, <1>8, <1>9

\* Order and bounds of what is appended, and of what is left.
LEMMA OrderedTail ==
  ASSUME NEW q \in Seq(Mutation), q # <<>>, Ordered(q), NEW n \in Int, Below(q, n)
  PROVE  Ordered(Tail(q)) /\ Below(Tail(q), n)
<1>1. PICK N \in Nat \ {0} : N = Len(q)
  OBVIOUS
<1>2. DOMAIN q = 1..N /\ DOMAIN Tail(q) = 1..(N - 1) /\ \A i \in 1..(N - 1) : Tail(q)[i] = q[i + 1]
  BY <1>1
<1>3. \A i \in 1..(N - 1) : i + 1 \in 1..N
  BY <1>1
<1>4. \A i, j \in 1..(N - 1) : i < j => i + 1 < j + 1
  OBVIOUS
<1>5. Ordered(Tail(q))
  BY <1>2, <1>3, <1>4 DEF Ordered
<1>6. Below(Tail(q), n)
  BY <1>2, <1>3 DEF Below
<1> QED BY <1>5, <1>6

LEMMA OrderedAppend ==
  ASSUME NEW q \in Seq(Mutation), NEW m \in Mutation, Ordered(q), Below(q, m.id)
  PROVE  Ordered(Append(q, m)) /\ Below(Append(q, m), m.id + 1)
<1> DEFINE a == Append(q, m)
<1>1. PICK N \in Nat : N = Len(q)
  OBVIOUS
<1>2. /\ DOMAIN q = 1..N /\ DOMAIN a = 1..(N + 1) /\ a[N + 1] = m
      /\ \A i \in 1..N : a[i] = q[i] /\ q[i] \in Mutation
  BY <1>1
<1> HIDE DEF a
<1>3. m.id \in Int /\ \A i \in 1..N : q[i].id \in Int /\ q[i].id < m.id
  BY <1>2, SMTT(30) DEF Mutation, Below
<1>4. \A i \in 1..(N + 1) : i \in 1..N \/ i = N + 1
  OBVIOUS
<1>5. ASSUME NEW i \in 1..(N + 1), NEW j \in 1..(N + 1), i < j PROVE a[i].id < a[j].id
  <2>1. i \in 1..N
    BY <1>5
  <2>2. CASE j \in 1..N
    BY <1>2, <1>5, <2>1, <2>2 DEF Ordered
  <2>3. CASE j = N + 1
    BY <1>2, <1>3, <2>1, <2>3
  <2> QED BY <1>4, <2>2, <2>3
<1>6. Ordered(a)
  BY <1>2, <1>5 DEF Ordered
<1>7. Below(a, m.id + 1)
  <2>1. \A i \in 1..N : a[i].id < m.id + 1
    BY <1>2, <1>3
  <2>2. a[N + 1].id < m.id + 1
    BY <1>2, <1>3
  <2> QED BY <1>2, <1>4, <2>1, <2>2 DEF Below
<1> QED BY <1>6, <1>7 DEF a

LEMMA Higher ==
  ASSUME NEW q \in Seq(Mutation), NEW n \in Int, NEW k \in Int, n <= k, Below(q, n)
  PROVE  Below(q, k)
<1>1. \A i \in DOMAIN q : q[i] \in Mutation
  OBVIOUS
<1>2. \A i \in DOMAIN q : q[i].id \in Int /\ q[i].id < n
  BY <1>1 DEF Mutation, Below
<1> QED BY <1>2 DEF Below

\* A step of the call that leaves memory and storage alone.
LEMMA SameMemory ==
  ASSUME TypeInv, Serial, QueueInv, UNCHANGED <<queue, stored, taps>>, UNCHANGED writes, NEW c \in Calls, NEW q,
         Goes(c, q), Holds(q), call[c].pc \in {"hydrate", "hydrated"} => q.pc \in {"hydrate", "hydrated"}
  PROVE  QueueInv'
<1>1. \A d \in Calls : d = c /\ call'[d] = q
  BY Alone
<1>2. \A d \in Calls : Holds(call'[d])
  BY <1>1
<1>3. \A d \in Calls : Holds(call[d])'
  BY <1>2 DEF Holds
<1>4. ~Hydrating' => ~Hydrating
  BY <1>1 DEF Hydrating
<1> QED BY <1>3, <1>4 DEF QueueInv

\* Steps of others.
LEMMA SameCall ==
  ASSUME QueueInv, UNCHANGED <<queue, stored, taps>>, UNCHANGED <<writes, call>>
  PROVE  QueueInv'
  BY DEF QueueInv, Holds, Hydrating

\* A call with no claim on the queue.
LEMMA Claimless ==
  ASSUME NEW q, q.pc \notin {"hydrated", "tap", "flush", "saveNext"}
  PROVE  Holds(q)
  BY DEF Holds

\* Nothing under way: memory is storage.
LEMMA InStep ==
  ASSUME TypeInv, Serial, QueueInv, NEW c \in Calls, call[c].pc \notin Saving,
         call[c].pc \notin {"hydrate", "hydrated"}
  PROVE  writes = <<>> /\ queue = stored
<1>1. writes = <<>>
  BY NoWrites
<1>2. ~Hydrating
  BY DEF Hydrating, Serial
<1> QED BY <1>1, <1>2 DEF QueueInv

LEMMA ReadStoredKeeps ==
  ASSUME TypeInv, Serial, QueueInv, NEW c \in Calls, ReadStored(c)
  PROVE  QueueInv'
<1> DEFINE q == [call[c] EXCEPT !.pc = "hydrated", !.local = stored]
<1>1. Goes(c, q) /\ UNCHANGED <<queue, stored, taps>> /\ UNCHANGED writes
  BY DEF ReadStored, react, counts
<1>2. q.pc = "hydrated" /\ q.local = stored
  <2>1. call[c] \in Call
    BY AtCall
  <2> QED BY <2>1 DEF Call
<1> HIDE DEF q
<1>3. Holds(q)
  BY <1>2 DEF Holds
<1> QED BY <1>1, <1>2, <1>3, SameMemory

LEMMA HydrateKeeps ==
  ASSUME TypeInv, Serial, QueueInv, NEW c \in Calls, Hydrate(c)
  PROVE  QueueInv'
<1>1. /\ call[c].pc = "hydrated" /\ queue' = call[c].local /\ Goes(c, NoCall)
      /\ UNCHANGED <<stored, taps>> /\ UNCHANGED writes
  BY DEF Hydrate, Ends, counts
<1>2. queue' = stored
  BY <1>1 DEF QueueInv, Holds
<1>3. writes = <<>>
  BY <1>1, NoWrites DEF Saving
<1>4. \A d \in Calls : call'[d] = NoCall
  BY <1>1, Alone
<1>5. \A d \in Calls : Holds(call[d])'
  BY <1>4, NoCallTyped DEF Holds
<1> QED BY <1>1, <1>2, <1>3, <1>5 DEF QueueInv, Ordered, Below

LEMMA TapKeeps ==
  ASSUME TypeInv, QueueAssumption, Serial, QueueInv, NEW c \in Calls, NEW type \in Types, NEW s \in Stations,
         Tap(c, type, s)
  PROVE  QueueInv'
<1> DEFINE m == [id |-> taps + 1, type |-> type, station |-> s]
           q == [NoCall EXCEPT !.pc = "tap", !.net = "out", !.view = rendered.queue, !.m = m]
<1>1. /\ Free(c) /\ Rendered /\ taps' = taps + 1 /\ Goes(c, q)
      /\ UNCHANGED <<queue, stored>> /\ UNCHANGED writes
  BY DEF Tap, MayStart, react, Serial
<1>2. rendered.queue = queue /\ m.id = taps + 1
  BY <1>1 DEF Rendered
<1> HIDE DEF m
<1>3. q.pc = "tap" /\ q.view = queue /\ q.m = m
  BY <1>2 DEF NoCall
<1> HIDE DEF q
<1>4. taps \in Int /\ queue \in Seq(Mutation) /\ stored \in Seq(Mutation)
  BY DEF TypeInv, Typing
<1>5. writes = <<>> /\ queue = stored
  BY <1>1, FreeIsIdle, InStep DEF Saving
<1>6. \A d \in Calls : call'[d] = q
  BY <1>1, Alone
<1>7. Below(queue, taps + 1) /\ Below(queue, m.id)
  BY <1>2 DEF QueueInv
<1>8. \A d \in Calls : Holds(call[d])'
  <2>1. m.id <= taps'
    BY <1>1, <1>2, <1>4
  <2> QED BY <1>1, <1>3, <1>6, <1>7, <2>1 DEF Holds, Below
<1>9. Below(queue', taps' + 1) /\ Below(stored', taps' + 1)
  <2>1. taps + 1 \in Int /\ taps' + 1 \in Int /\ taps + 1 <= taps' + 1
    BY <1>1, <1>4
  <2>2. Below(queue, taps' + 1)
    BY <1>4, <1>7, <2>1, Higher
  <2> QED BY <1>1, <1>5, <2>2
<1>10. Ordered(queue') /\ Ordered(stored')
  BY <1>1 DEF QueueInv
<1> QED BY <1>1, <1>5, <1>8, <1>9, <1>10 DEF QueueInv, Ordered, Below

\* Steps after which the call has no claim on the queue.
LEMMA LetGoKeeps ==
  ASSUME TypeInv, Serial, QueueInv, NEW c \in Calls,
         TapAccepted(c) \/ TapRefused(c) \/ TapTimedOut(c) \/ FlushUnanswered(c) \/ FetchUnanswered(c) \/ Apply(c)
  PROVE  QueueInv'
<1>1. /\ UNCHANGED <<queue, stored, taps>> /\ UNCHANGED writes
      /\ call[c].pc \notin {"hydrate", "hydrated"}
      /\ Goes(c, NoCall) \/ Goes(c, Refreshing(c))
  BY DEF TapAccepted, TapRefused, TapTimedOut, FlushUnanswered, FetchUnanswered, Apply, Ends, react, counts
<1>2. Holds(NoCall) /\ Holds(Refreshing(c))
  <2>1. Refreshing(c).pc = "fetch"
    BY RefreshingTyped
  <2> QED BY <2>1, NoCallTyped, Claimless
<1> QED BY <1>1, <1>2, SameMemory

LEMMA FetchKeeps ==
  ASSUME TypeInv, Serial, QueueInv, NEW c \in Calls, Fetch(c)
  PROVE  QueueInv'
<1> DEFINE q == [call[c] EXCEPT !.pc = "apply", !.snap = server]
<1>1. /\ UNCHANGED <<queue, stored, taps>> /\ UNCHANGED writes /\ Goes(c, q) /\ call[c].pc = "fetch"
  BY DEF Fetch, react, counts
<1>2. q.pc = "apply"
  <2>1. call[c] \in Call
    BY AtCall
  <2> QED BY <2>1 DEF Call
<1> HIDE DEF q
<1> QED BY <1>1, <1>2, Claimless, SameMemory

\* The answer of the server changes nothing that the call holds.
LEMMA AnswerKeeps ==
  ASSUME TypeInv, Serial, QueueInv, NEW c \in Calls, Serve(c) \/ Throttle(c)
  PROVE  QueueInv'
<1>1. PICK x : Goes(c, [call[c] EXCEPT !.net = x])
  BY DEF Serve, Throttle
<1> DEFINE q == [call[c] EXCEPT !.net = x]
<1>2. /\ UNCHANGED <<queue, stored, taps>> /\ UNCHANGED writes
  BY DEF Serve, Throttle, react, counts
<1>3. q.pc = call[c].pc /\ q.m = call[c].m /\ q.local = call[c].local /\ q.view = call[c].view
  <2>1. call[c] \in Call
    BY AtCall
  <2> QED BY <2>1 DEF Call
<1>4. Goes(c, q)
  BY <1>1
<1> HIDE DEF q
<1>5. Holds(q)
  BY <1>3 DEF Holds, QueueInv
<1> QED BY <1>2, <1>3, <1>4, <1>5, SameMemory

LEMMA PollKeeps ==
  ASSUME TypeInv, Serial, QueueInv, NEW c \in Calls, Poll(c)
  PROVE  QueueInv'
<1> DEFINE start == [NoCall EXCEPT !.pc = "fetch", !.view = rendered.queue]
           h == Head(rendered.queue)
           q == [start EXCEPT !.pc = "flush", !.m = h, !.net = "out", !.local = rendered.queue]
<1>1. /\ Free(c) /\ Rendered /\ UNCHANGED <<queue, stored, taps>> /\ UNCHANGED writes
      /\ Goes(c, start) \/ Goes(c, q)
  BY DEF Poll, MayStart, Serial, counts
<1>2. rendered.queue = queue
  BY <1>1 DEF Rendered
<1> HIDE DEF h
<1>3. start.pc = "fetch" /\ q.pc = "flush" /\ q.local = rendered.queue
  BY DEF NoCall
<1> HIDE DEF start, q
<1>4. Holds(start) /\ Holds(q)
  BY <1>2, <1>3 DEF Holds
<1>5. call[c].pc = "idle"
  BY <1>1, FreeIsIdle
<1> QED BY <1>1, <1>4, <1>5, SameMemory

\* The queue is set and a write to the device begins.
LEMMA Saves ==
  ASSUME TypeInv, Serial, QueueInv, NEW c \in Calls, NEW q, NEW x \in Seq(Mutation), Goes(c, q), Persist(c, x),
         call[c].pc \notin Saving, q.pc \in Saving, q.pc = "saveNext" => q.local = x,
         Ordered(x), Below(x, taps + 1), UNCHANGED <<stored, taps>>
  PROVE  QueueInv'
<1>1. writes = <<>>
  BY NoWrites
<1>2. queue' = x /\ writes' = <<[by |-> c, queue |-> x]>>
  BY <1>1 DEF Persist
<1>3. writes' # <<>> /\ \A i \in DOMAIN writes' : writes'[i].queue = x
  BY <1>2
<1>4. \A d \in Calls : call'[d] = q
  BY Alone
<1>5. q.pc \notin {"hydrated", "tap", "flush"}
  BY DEF Saving
<1>6. \A d \in Calls : Holds(call[d])'
  BY <1>2, <1>4, <1>5 DEF Holds
<1>7. Ordered(queue') /\ Below(queue', taps' + 1)
  BY <1>2
<1>8. Ordered(stored') /\ Below(stored', taps' + 1)
  BY DEF QueueInv
<1> QED BY <1>2, <1>3, <1>6, <1>7, <1>8 DEF QueueInv, Ordered, Below

LEMMA TapUnansweredKeeps ==
  ASSUME TypeInv, Serial, QueueInv, NEW c \in Calls, TapUnanswered(c)
  PROVE  QueueInv'
<1> DEFINE m == call[c].m
           x == Append(call[c].view, m)
           q == [NoCall EXCEPT !.pc = "saveTap"]
<1>1. call[c].pc = "tap" /\ Persist(c, x) /\ Goes(c, q) /\ UNCHANGED <<stored, taps>>
  BY DEF TapUnanswered
<1>2. call[c].view = queue /\ m.id <= taps /\ Below(queue, m.id)
  BY <1>1 DEF QueueInv, Holds
<1>3. m \in Mutation /\ queue \in Seq(Mutation) /\ taps \in Int /\ m.id \in Int
  BY <1>1, AtCall DEF Sound, TypeInv, Typing, Mutation
<1>4. Ordered(queue)
  BY DEF QueueInv
<1> HIDE DEF m
<1>5. x \in Seq(Mutation) /\ Ordered(x) /\ Below(x, m.id + 1)
  BY <1>2, <1>3, <1>4, OrderedAppend
<1> HIDE DEF x
<1>6. Below(x, taps + 1)
  <2>1. m.id + 1 \in Int /\ taps + 1 \in Int /\ m.id + 1 <= taps + 1
    BY <1>2, <1>3
  <2> QED BY <1>5, <2>1, Higher
<1>7. q.pc = "saveTap"
  BY DEF NoCall
<1> HIDE DEF q
<1> QED BY <1>1, <1>5, <1>6, <1>7, Saves DEF Saving

LEMMA FlushSavesKeeps ==
  ASSUME TypeInv, Serial, QueueInv, NEW c \in Calls, FlushAnswered(c) \/ FlushRefused(c)
  PROVE  QueueInv'
<1> DEFINE x == Tail(call[c].local)
           next == [Refreshing(c) EXCEPT !.pc = "saveNext", !.local = x]
           last == [Refreshing(c) EXCEPT !.pc = "saveLast"]
<1>1. /\ call[c].pc = "flush" /\ Persist(c, x) /\ UNCHANGED <<stored, taps>>
      /\ Goes(c, next) \/ Goes(c, last)
  BY DEF FlushAnswered, FlushRefused, counts
<1>2. call[c].local = queue /\ call[c].local # <<>>
  BY <1>1, AtCall DEF QueueInv, Holds, Sound
<1>3. queue \in Seq(Mutation) /\ taps + 1 \in Int /\ Ordered(queue) /\ Below(queue, taps + 1)
  BY DEF TypeInv, Typing, QueueInv
<1>4. x \in Seq(Mutation) /\ Ordered(x) /\ Below(x, taps + 1)
  BY <1>2, <1>3, OrderedTail
<1> HIDE DEF x
<1>5. last.pc = "saveLast" /\ next.pc = "saveNext" /\ next.local = x
  <2>1. next \in Call /\ next.pc = "saveNext"
    BY <1>4, RefreshingTyped
  <2>2. Refreshing(c) \in Call
    BY RefreshingTyped
  <2>3. next.local = x
    BY <2>2 DEF Call
  <2> QED BY <2>1, <2>3, RefreshingTyped
<1> HIDE DEF next, last
<1>6. CASE Goes(c, next)
  <2>1. call[c].pc \notin Saving /\ next.pc \in Saving
    BY <1>1, <1>5 DEF Saving
  <2> QED BY <1>1, <1>4, <1>5, <1>6, <2>1, Saves
<1>7. CASE Goes(c, last)
  <2>1. call[c].pc \notin Saving /\ last.pc \in Saving /\ last.pc # "saveNext"
    BY <1>1, <1>5 DEF Saving
  <2> QED BY <1>1, <1>4, <1>5, <1>7, <2>1, Saves
<1> QED BY <1>1, <1>6, <1>7

LEMMA WrittenKeeps ==
  ASSUME TypeInv, Serial, QueueInv, Written
  PROVE  QueueInv'
<1> DEFINE c == Head(writes).by
           left == call[c].local
           q == IF call[c].pc = "saveTap" THEN NoCall
                ELSE IF call[c].pc = "saveNext" /\ left # <<>> THEN Flushing(c, left) ELSE Refreshing(c)
<1>1. /\ writes # <<>> /\ stored' = Head(writes).queue /\ writes' = Tail(writes)
      /\ Goes(c, q) /\ UNCHANGED <<queue, taps>>
  BY DEF Written, Ends, counts
<1>2. c \in Calls /\ call[c].pc \in Saving
  BY <1>1, Lands
<1>3. writes' = <<>> /\ stored' = queue
  BY <1>1, OneWrite DEF QueueInv
<1>4. PICK v : v = q
  OBVIOUS
<1>5. v.pc = "idle" \/ v.pc = "fetch" \/ (v.pc = "flush" /\ v.local = queue)
  <2>1. CASE q = NoCall
    BY <1>4, <2>1, NoCallTyped
  <2>2. CASE call[c].pc = "saveNext" /\ q = Flushing(c, left)
    <3>1. left = queue
      BY <1>2, <2>2 DEF QueueInv, Holds
    <3> DEFINE h == Head(left)
    <3> HIDE DEF h
    <3>2. Flushing(c, left) = [NoCall EXCEPT !.pc = "flush", !.m = h, !.net = "out", !.local = left, !.view = call[c].view]
      BY DEF Flushing, h
    <3>3. Flushing(c, left).pc = "flush" /\ Flushing(c, left).local = left
      BY <3>2 DEF NoCall
    <3> HIDE DEF q, left
    <3> QED BY <1>4, <2>2, <3>1, <3>3
  <2>3. CASE q = Refreshing(c)
    <3>1. Refreshing(c).pc = "fetch"
      BY <1>2, RefreshingTyped
    <3> HIDE DEF q
    <3> QED BY <1>4, <2>3, <3>1
  <2> QED BY <2>1, <2>2, <2>3
<1>6. \A d \in Calls : call'[d] = v
  <2> HIDE DEF q
  <2> QED BY <1>1, <1>2, <1>4, Alone
<1>7. \A d \in Calls : Holds(call[d])'
  BY <1>1, <1>5, <1>6 DEF Holds
<1>8. Ordered(queue)' /\ Ordered(stored)' /\ Below(queue, taps + 1)' /\ Below(stored, taps + 1)'
  BY <1>1, <1>3 DEF QueueInv, Ordered, Below
<1>9. \A i \in DOMAIN writes' : FALSE
  BY <1>3
<1> QED BY <1>1, <1>3, <1>7, <1>8, <1>9 DEF QueueInv

\* The app dies: memory is empty until storage has been read again.
LEMMA KillKeeps ==
  ASSUME TypeInv, QueueAssumption, Serial, QueueInv, Kill
  PROVE  QueueInv'
<1>1. call' = Booted /\ writes' = <<>> /\ queue' = <<>> /\ UNCHANGED <<stored, taps>>
  BY DEF Kill
<1>2. PICK c \in Calls : c = CHOOSE d \in Calls : TRUE
  BY DEF QueueAssumption
<1>3. Booted[c].pc = "hydrate"
  <2>1. Booted[c] = [NoCall EXCEPT !.pc = "hydrate"]
    BY <1>2 DEF Booted
  <2> QED BY <2>1 DEF NoCall
<1>4. Hydrating'
  BY <1>1, <1>3 DEF Hydrating
<1>5. \A d \in Calls : Holds(call[d])'
  <2>1. \A d \in Calls : call'[d].pc \in {"idle", "hydrate"}
    BY <1>1, BootedTyped
  <2> QED BY <2>1 DEF Holds
<1>6. Ordered(queue)' /\ Below(queue, taps + 1)'
  BY <1>1 DEF Ordered, Below
<1>7. Ordered(stored)' /\ Below(stored, taps + 1)'
  BY <1>1 DEF QueueInv, Ordered, Below
<1> QED BY <1>1, <1>4, <1>5, <1>6, <1>7 DEF QueueInv

\* The queue is read again: memory is what storage holds, and stays so.
LEMMA SwitchKeeps ==
  ASSUME TypeInv, Serial, QueueInv, NEW c \in Calls, Switch(c)
  PROVE  QueueInv'
<1>1. Free(c) /\ taps' = taps + 1 /\ UNCHANGED <<queue, stored>> /\ UNCHANGED writes
  BY DEF Switch, react
<1>2. \A d \in Calls : d = c /\ call'[d].pc = "hydrate"
  BY Switched DEF Serial
<1>3. \A d \in Calls : Holds(call[d])'
  BY <1>2 DEF Holds
<1>4. Hydrating'
  BY <1>2 DEF Hydrating
<1>5. queue \in Seq(Mutation) /\ stored \in Seq(Mutation) /\ taps \in Int
  BY DEF TypeInv, Typing
<1>6. Below(queue, taps' + 1) /\ Below(stored, taps' + 1)
  <2>1. taps + 1 \in Int /\ taps' + 1 \in Int /\ taps + 1 <= taps' + 1
    BY <1>1, <1>5
  <2>2. Below(queue, taps + 1) /\ Below(stored, taps + 1)
    BY DEF QueueInv
  <2> QED BY <1>5, <2>1, <2>2, Higher
<1>7. Below(queue, taps + 1)' /\ Below(stored, taps + 1)'
  BY <1>1, <1>6 DEF Below
<1>8. Ordered(queue)' /\ Ordered(stored)'
  BY <1>1 DEF QueueInv, Ordered
<1>9. \A i \in DOMAIN writes' : writes'[i].queue = queue'
  BY <1>1 DEF QueueInv
<1> QED BY <1>3, <1>4, <1>7, <1>8, <1>9 DEF QueueInv

LEMMA QueueStart ==
  ASSUME Init, QueueAssumption
  PROVE  QueueInv
<1>1. queue = <<>> /\ stored = <<>> /\ writes = <<>> /\ call = Booted
  BY DEF Init
<1>2. \A d \in Calls : Holds(call[d])
  <2>1. \A d \in Calls : call[d].pc \in {"idle", "hydrate"}
    BY <1>1, BootedTyped
  <2> QED BY <2>1 DEF Holds
<1> QED BY <1>1, <1>2 DEF QueueInv, Ordered, Below

LEMMA QueueStep ==
  ASSUME TypeInv, QueueAssumption, Serial, QueueInv, [Next]_vars
  PROVE  QueueInv'
<1>1. ASSUME NEW c \in Calls, Proceed(c) PROVE QueueInv'
  BY <1>1, ReadStoredKeeps, HydrateKeeps, AnswerKeeps, LetGoKeeps, FlushSavesKeeps, FetchKeeps DEF Proceed
<1>2. ASSUME NEW c \in Calls, Trouble(c) PROVE QueueInv'
  BY <1>2, TapUnansweredKeeps, LetGoKeeps, AnswerKeeps DEF Trouble
<1>3. ASSUME NEW c \in Calls, Poll(c) \/ Switch(c) PROVE QueueInv'
  BY <1>3, PollKeeps, SwitchKeeps
<1>4. ASSUME NEW c \in Calls, NEW type \in Types, NEW s \in Stations, Tap(c, type, s) PROVE QueueInv'
  BY <1>4, TapKeeps
<1>5. CASE Written \/ Kill
  BY <1>5, WrittenKeeps, KillKeeps
<1>6. CASE Render \/ (\E m \in late : ServeLate(m)) \/ (\E s \in Stations : Elsewhere(s)) \/ UNCHANGED vars
  <2>1. UNCHANGED <<queue, stored, taps>> /\ UNCHANGED <<writes, call>>
    BY <1>6 DEF Render, ServeLate, Elsewhere, vars, react, counts
  <2> QED BY <2>1, SameCall
<1> QED BY <1>1, <1>2, <1>3, <1>4, <1>5, <1>6 DEF Next

LEMMA QueueInvIsQueueKept ==
  ASSUME TypeInv, Serial, QueueInv
  PROVE  QueueKept
<1>1. QueueInOrder
  BY DEF QueueInv, QueueInOrder, Ordered
<1>2. StoredIsQueue
  <2>1. CASE writes = <<>>
    BY <2>1 DEF StoredIsQueue, QueueInv, Hydrating
  <2>2. CASE writes # <<>>
    <3>1. Last(writes).queue = queue
      BY <2>2, OneWrite DEF QueueInv
    <3> QED BY <2>2, <3>1 DEF StoredIsQueue
  <2> QED BY <2>1, <2>2
<1> QED BY <1>1, <1>2 DEF QueueKept

\* One call at a time, started after the render: the results wait in the order the player
\* produced them, in memory as in storage, and the two differ by a write under way only.
\* With two calls in flight an older queue replaces a newer one.
THEOREM QueueCorrect == ASSUME Serial PROVE Spec => []QueueKept
<1>1. Init => TypeInv /\ QueueInv
  BY TypeStart, QueueStart, QueueAssumption
<1>2. TypeInv /\ QueueInv /\ [Next]_vars => (TypeInv /\ QueueInv)'
  BY TypeStep, QueueStep, QueueAssumption
<1>3. TypeInv /\ QueueInv => QueueKept
  BY QueueInvIsQueueKept
<1> QED BY <1>1, <1>2, <1>3, PTL DEF Spec

-----------------------------------------------------------------------------
(* The outbox. A result leaves storage only when the write that drops it   *)
(* lands, and that write was begun with a verdict in hand: unless the      *)
(* server throttles, every answer is a verdict.                            *)

LEMMA NoAccount ==
  ASSUME TypeInv, Serial, NEW c \in Calls, NEW q, Goes(c, q), q.pc \notin Saving,
         q.net # "throttled", q.net \in Verdicts => q.m.id \in settled'
  PROVE  Accounted'
<1>1. \A d \in Calls : call'[d] = q
  BY Alone
<1>2. q.pc \notin {"saveTap", "saveNext", "saveLast"}
  BY DEF Saving
<1> QED BY <1>1, <1>2 DEF Accounted, Accounts

LEMMA NoNet ==
  ASSUME TypeInv, Serial, NEW c \in Calls, NEW q, Goes(c, q), q.pc \notin Saving, q.net \in {"none", "out"}
  PROVE  Accounted'
<1>1. q.net # "throttled" /\ q.net \notin Verdicts
  BY DEF Verdicts
<1> QED BY <1>1, NoAccount

LEMMA MildAccounts ==
  ASSUME TypeInv, Serial, Accounted, NEW c \in Calls,
         ReadStored(c) \/ Hydrate(c) \/ TapAccepted(c) \/ TapRefused(c) \/ TapTimedOut(c) \/ FlushUnanswered(c)
         \/ FetchUnanswered(c) \/ Apply(c) \/ Fetch(c)
  PROVE  Accounted'
<1>1. NoCall.net = "none" /\ NoCall.pc \notin Saving
  BY NoCallTyped DEF NoCall, Saving
<1>2. Refreshing(c).net = "none" /\ Refreshing(c).pc \notin Saving
  BY RefreshingTyped DEF Sound, Saving
<1>3. call[c] \in Call /\ Sound(call[c])
  BY AtCall
<1> DEFINE r == [call[c] EXCEPT !.pc = "hydrated", !.local = stored]
           f == [call[c] EXCEPT !.pc = "apply", !.snap = server]
<1>4. r.net = call[c].net /\ r.pc = "hydrated" /\ f.net = call[c].net /\ f.pc = "apply"
  BY <1>3 DEF Call
<1>5. \/ Goes(c, NoCall) \/ Goes(c, Refreshing(c))
      \/ call[c].pc = "hydrate" /\ Goes(c, r)
      \/ call[c].pc = "fetch" /\ Goes(c, f)
  BY DEF ReadStored, Hydrate, TapAccepted, TapRefused, TapTimedOut, FlushUnanswered, FetchUnanswered, Apply, Fetch, Ends
<1> HIDE DEF r, f
<1>6. r.pc \notin Saving /\ f.pc \notin Saving
  BY <1>4 DEF Saving
<1>7. call[c].pc \in {"hydrate", "fetch"} => r.net = "none" /\ f.net = "none"
  BY <1>3, <1>4 DEF Sound
<1> QED BY <1>1, <1>2, <1>5, <1>6, <1>7, NoNet

LEMMA TapAccounts ==
  ASSUME TypeInv, Serial, NEW c \in Calls, NEW type, NEW s, Tap(c, type, s)
  PROVE  Accounted'
<1> DEFINE m == [id |-> taps + 1, type |-> type, station |-> s]
           q == [NoCall EXCEPT !.pc = "tap", !.net = "out", !.view = rendered.queue, !.m = m]
<1>1. Goes(c, q)
  BY DEF Tap
<1> HIDE DEF m
<1>2. q.net = "out" /\ q.pc \notin Saving
  BY DEF NoCall, Saving
<1> HIDE DEF q
<1> QED BY <1>1, <1>2, NoNet

LEMMA PollAccounts ==
  ASSUME TypeInv, Serial, NEW c \in Calls, Poll(c)
  PROVE  Accounted'
<1> DEFINE start == [NoCall EXCEPT !.pc = "fetch", !.view = rendered.queue]
           h == Head(rendered.queue)
           q == [start EXCEPT !.pc = "flush", !.m = h, !.net = "out", !.local = rendered.queue]
<1>1. Goes(c, start) \/ Goes(c, q)
  BY DEF Poll
<1> HIDE DEF h
<1>2. start.pc \notin Saving /\ start.net = "none" /\ q.pc \notin Saving /\ q.net = "out"
  BY DEF NoCall, Saving
<1> HIDE DEF start, q
<1> QED BY <1>1, <1>2, NoNet

LEMMA ServeAccounts ==
  ASSUME TypeInv, QueueAssumption, Serial, NEW c \in Calls, Serve(c)
  PROVE  Accounted'
<1>1. PICK verdict \in Verdict(call[c].m) :
        Decides(call[c].m, verdict) /\ Goes(c, [call[c] EXCEPT !.net = verdict])
  BY DEF Serve
<1> DEFINE q == [call[c] EXCEPT !.net = verdict]
<1>2. call[c] \in Call /\ Sound(call[c]) /\ call[c].net = "out" /\ call[c].m \in Mutation
  BY AtCall DEF Serve
<1>3. verdict \in Verdicts
  BY DEF Verdict, Verdicts
<1>4. q.net = verdict /\ q.m = call[c].m /\ q.pc = call[c].pc /\ Goes(c, q)
  BY <1>1, <1>2 DEF Call
<1> HIDE DEF q
<1>5. q.pc \notin Saving /\ q.net # "throttled"
  BY <1>2, <1>3, <1>4 DEF Sound, Saving, Verdicts
<1>6. q.m.id \in settled'
  BY <1>1, <1>4 DEF Decides
<1> QED BY <1>4, <1>5, <1>6, NoAccount

LEMMA WrittenAccounts ==
  ASSUME TypeInv, Serial, Written
  PROVE  Accounted'
<1> DEFINE c == Head(writes).by
           left == call[c].local
<1>1. /\ writes # <<>>
      /\ Goes(c, NoCall) \/ (left # <<>> /\ Goes(c, Flushing(c, left))) \/ Goes(c, Refreshing(c))
  BY DEF Written, Ends
<1>2. c \in Calls
  BY <1>1, Lands
<1>3. NoCall.net = "none" /\ NoCall.pc \notin Saving
  BY NoCallTyped DEF NoCall, Saving
<1>4. Refreshing(c).net = "none" /\ Refreshing(c).pc \notin Saving
  BY <1>2, RefreshingTyped DEF Sound, Saving
<1>5. Flushing(c, left).net = "out" /\ Flushing(c, left).pc \notin Saving
  <2> DEFINE h == Head(left)
  <2>1. Flushing(c, left) = [NoCall EXCEPT !.pc = "flush", !.m = h, !.net = "out", !.local = left, !.view = call[c].view]
    BY DEF Flushing
  <2> HIDE DEF h
  <2> QED BY <2>1 DEF NoCall, Saving
<1> HIDE DEF c, left
<1> QED BY <1>1, <1>2, <1>3, <1>4, <1>5, NoNet

\* Nothing under way, so what is queued from here on differs from storage by one result.
LEMMA SaveTapAccounts ==
  ASSUME TypeInv, Serial, QueueInv, NEW c \in Calls, TapUnanswered(c)
  PROVE  Accounted'
<1> DEFINE m == call[c].m
           q == [NoCall EXCEPT !.pc = "saveTap"]
<1>1. call[c].pc = "tap" /\ Persist(c, Append(call[c].view, m)) /\ Goes(c, q) /\ UNCHANGED stored
  BY DEF TapUnanswered
<1>2. call[c].view = queue /\ m \in Mutation
  BY <1>1, AtCall DEF QueueInv, Holds, Sound
<1>3. queue = stored
  BY <1>1, InStep DEF Saving
<1>4. queue' = Append(stored', m)
  BY <1>1, <1>2, <1>3 DEF Persist
<1>5. q.pc = "saveTap" /\ q.net = "none"
  BY DEF NoCall
<1> HIDE DEF q, m
<1>6. \A d \in Calls : call'[d] = q
  BY <1>1, Alone
<1> QED BY <1>2, <1>4, <1>5, <1>6 DEF Accounted, Accounts, Verdicts

LEMMA FlushAccounts ==
  ASSUME TypeInv, Serial, QueueInv, Accounted, NEW c \in Calls, FlushAnswered(c) \/ FlushRefused(c)
  PROVE  Accounted'
<1> DEFINE x == Tail(call[c].local)
           next == [Refreshing(c) EXCEPT !.pc = "saveNext", !.local = x]
           last == [Refreshing(c) EXCEPT !.pc = "saveLast"]
<1>1. /\ call[c].pc = "flush" /\ call[c].net \in {"ok", "conflict", "refused", "throttled"}
      /\ Persist(c, x) /\ UNCHANGED <<stored, settled>>
      /\ Goes(c, next) \/ Goes(c, last)
  BY DEF FlushAnswered, FlushRefused, environment
<1>2. /\ call[c].local = queue /\ call[c].local # <<>> /\ call[c].m = Head(call[c].local)
      /\ call[c].m.id \in settled
  BY <1>1, AtCall DEF QueueInv, Holds, Sound, Accounted, Accounts, Verdicts
<1>3. queue = stored
  BY <1>1, InStep DEF Saving
<1>4. /\ queue' = Tail(stored') /\ stored' # <<>> /\ Head(stored').id \in settled'
  BY <1>1, <1>2, <1>3 DEF Persist
<1>5. x \in Seq(Mutation)
  BY <1>1, TailTyped
<1> HIDE DEF x
<1>6. next.pc = "saveNext" /\ last.pc = "saveLast" /\ next.net = "none" /\ last.net = "none"
  <2>1. Refreshing(c) \in Call /\ Refreshing(c).net = "none"
    BY RefreshingTyped DEF Sound
  <2> QED BY <2>1 DEF Call
<1> HIDE DEF next, last
<1>7. \A d \in Calls : call'[d] = next \/ call'[d] = last
  BY <1>1, Alone
<1> QED BY <1>4, <1>6, <1>7 DEF Accounted, Accounts, Verdicts

LEMMA KillAccounts ==
  ASSUME Kill
  PROVE  Accounted'
<1>1. call' = Booted
  BY DEF Kill
<1>2. \A d \in Calls : Booted[d].pc \in {"idle", "hydrate"} /\ Booted[d].net = "none"
  BY BootedTyped DEF Sound
<1> QED BY <1>1, <1>2 DEF Accounted, Accounts, Verdicts

LEMMA SwitchAccounts ==
  ASSUME TypeInv, Serial, NEW c \in Calls, Switch(c)
  PROVE  Accounted'
<1>1. \A d \in Calls : call'[d].pc = "hydrate" /\ call'[d].net = "none"
  BY Switched DEF Serial
<1> QED BY <1>1 DEF Accounted, Accounts, Verdicts

LEMMA AccountsStart ==
  ASSUME Init
  PROVE  Accounted
<1>1. call = Booted
  BY DEF Init
<1>2. \A d \in Calls : Booted[d].pc \in {"idle", "hydrate"} /\ Booted[d].net = "none"
  BY BootedTyped DEF Sound
<1> QED BY <1>1, <1>2 DEF Accounted, Accounts, Verdicts

LEMMA AccountsStep ==
  ASSUME TypeInv, QueueAssumption, Serial, ~Throttles, QueueInv, Accounted, [Next]_vars
  PROVE  Accounted'
<1>1. ASSUME NEW c \in Calls, Proceed(c) PROVE Accounted'
  BY <1>1, MildAccounts, ServeAccounts, FlushAccounts DEF Proceed
<1>2. ASSUME NEW c \in Calls, Trouble(c) PROVE Accounted'
  BY <1>2, MildAccounts, SaveTapAccounts DEF Trouble, Throttle
<1>3. ASSUME NEW c \in Calls, Poll(c) \/ Switch(c) PROVE Accounted'
  BY <1>3, PollAccounts, SwitchAccounts
<1>4. ASSUME NEW c \in Calls, NEW type \in Types, NEW s \in Stations, Tap(c, type, s) PROVE Accounted'
  BY <1>4, TapAccounts
<1>5. CASE Written \/ Kill
  BY <1>5, WrittenAccounts, KillAccounts
<1>6. CASE Render \/ (\E m \in late : ServeLate(m)) \/ (\E s \in Stations : Elsewhere(s)) \/ UNCHANGED vars
  <2>1. UNCHANGED <<queue, stored, call>> /\ settled \subseteq settled'
    BY <1>6 DEF Render, ServeLate, Elsewhere, Decides, vars, react, environment
  <2> QED BY <2>1 DEF Accounted, Accounts
<1> QED BY <1>1, <1>2, <1>3, <1>4, <1>5, <1>6 DEF Next

-----------------------------------------------------------------------------
(* Every step of the phone and the server is a step of the outbox.         *)

LEMMA IdsOf ==
  ASSUME NEW q \in Seq(Mutation)
  PROVE  /\ Ids(q) \subseteq 1..MaxTaps
         /\ \A m \in Mutation : Ids(Append(q, m)) = Ids(q) \cup {m.id}
         /\ q # <<>> => Ids(q) = Ids(Tail(q)) \cup {Head(q).id}
<1>1. PICK N \in Nat : N = Len(q)
  OBVIOUS
<1>2. DOMAIN q = 1..N /\ \A i \in 1..N : q[i] \in Mutation
  BY <1>1
<1>3. Ids(q) \subseteq 1..MaxTaps
  BY <1>2 DEF Ids, Mutation
<1>4. ASSUME NEW m \in Mutation PROVE Ids(Append(q, m)) = Ids(q) \cup {m.id}
  <2> DEFINE a == Append(q, m)
  <2>1. DOMAIN a = 1..(N + 1) /\ a[N + 1] = m /\ \A i \in 1..N : a[i] = q[i]
    BY <1>1
  <2>2. \A i \in 1..(N + 1) : i \in 1..N \/ i = N + 1
    OBVIOUS
  <2>3. N + 1 \in 1..(N + 1) /\ \A i \in 1..N : i \in 1..(N + 1)
    OBVIOUS
  <2> HIDE DEF a
  <2>4. Ids(a) = Ids(q) \cup {m.id}
    BY <1>2, <2>1, <2>2, <2>3 DEF Ids
  <2> QED BY <2>4 DEF a
<1>5. ASSUME q # <<>> PROVE Ids(q) = Ids(Tail(q)) \cup {Head(q).id}
  <2> DEFINE t == Tail(q)
  <2>1. N # 0 /\ Head(q) = q[1] /\ DOMAIN t = 1..(N - 1) /\ \A i \in 1..(N - 1) : t[i] = q[i + 1]
    BY <1>1, <1>5
  <2>2. 1 \in 1..N /\ \A i \in 1..(N - 1) : i + 1 \in 1..N
    BY <2>1
  <2>3. \A i \in 1..N : i = 1 \/ (i - 1 \in 1..(N - 1) /\ i - 1 + 1 = i)
    OBVIOUS
  <2> HIDE DEF t
  <2>4. Ids(t) \subseteq Ids(q) /\ Head(q).id \in Ids(q)
    BY <1>2, <2>1, <2>2, SMTT(30) DEF Ids
  <2>5. \A i \in 1..N : q[i].id \in Ids(t) \cup {Head(q).id}
    <3> TAKE i \in 1..N
    <3>1. CASE i = 1
      BY <2>1, <3>1
    <3>2. CASE i - 1 \in 1..(N - 1) /\ i - 1 + 1 = i
      <4>1. t[i - 1] = q[i]
        BY <2>1, <3>2
      <4> QED BY <2>1, <3>2, <4>1 DEF Ids
    <3> QED BY <2>3, <3>1, <3>2
  <2>6. Ids(q) \subseteq Ids(t) \cup {Head(q).id}
    BY <1>2, <2>5 DEF Ids
  <2> QED BY <2>4, <2>6 DEF t
<1> QED BY <1>3, <1>4, <1>5

LEMMA Stutters == ASSUME UNCHANGED <<stored, settled>> PROVE UNCHANGED Out!vars
  BY DEF Out!vars, Pending, Ids

\* The server decides.
LEMMA DecidesSettles ==
  ASSUME NEW m \in Mutation, NEW verdict, Decides(m, verdict), UNCHANGED stored
  PROVE  Out!Next
<1>1. settled' = settled \cup {m.id} /\ m.id \in 1..MaxTaps
  BY DEF Decides, Mutation
<1>2. Pending' = Pending \ {m.id}
  BY <1>1 DEF Pending, Ids
<1> QED BY <1>1, <1>2 DEF Out!Next, Out!Settle

\* A write lands: it adds a result, or drops one with a verdict.
LEMMA WrittenSaves ==
  ASSUME TypeInv, Serial, QueueInv, Accounted, Written
  PROVE  Out!Next \/ UNCHANGED Out!vars
<1> DEFINE c == Head(writes).by
<1>1. writes # <<>> /\ stored' = Head(writes).queue /\ UNCHANGED settled
  BY DEF Written, environment
<1>2. c \in Calls /\ call[c].pc \in Saving
  BY <1>1, Lands
<1>3. stored' = queue
  BY <1>1, OneWrite DEF QueueInv
<1>4. stored \in Seq(Mutation)
  BY DEF TypeInv, Typing
<1>5. CASE call[c].pc = "saveTap"
  <2>1. PICK m \in Mutation : queue = Append(stored, m)
    BY <1>2, <1>5 DEF Accounted, Accounts
  <2>2. Ids(stored') = Ids(stored) \cup {m.id} /\ m.id \in 1..MaxTaps
    BY <1>3, <1>4, <2>1, IdsOf DEF Mutation
  <2>3. CASE m.id \in settled
    <3>1. Pending' = Pending
      BY <1>1, <2>2, <2>3 DEF Pending
    <3> QED BY <1>1, <3>1 DEF Out!vars
  <2>4. CASE m.id \notin settled
    <3>1. Pending' = Pending \cup {m.id}
      BY <1>1, <2>2, <2>4 DEF Pending
    <3> QED BY <1>1, <2>2, <2>4, <3>1 DEF Out!Next, Out!Save
  <2> QED BY <2>3, <2>4
<1>6. CASE call[c].pc \in {"saveNext", "saveLast"}
  <2>1. stored # <<>> /\ queue = Tail(stored) /\ Head(stored).id \in settled
    BY <1>2, <1>6 DEF Accounted, Accounts
  <2>2. Ids(stored) = Ids(stored') \cup {Head(stored).id}
    BY <1>3, <1>4, <2>1, IdsOf
  <2>3. Pending' = Pending
    BY <1>1, <2>1, <2>2 DEF Pending
  <2> QED BY <1>1, <2>3 DEF Out!vars
<1> QED BY <1>2, <1>5, <1>6 DEF Saving

LEMMA StepSettles ==
  ASSUME TypeInv, QueueAssumption, Serial, QueueInv, Accounted, [Next]_vars
  PROVE  Out!Next \/ UNCHANGED Out!vars
<1>1. ASSUME NEW c \in Calls, Serve(c) PROVE Out!Next
  <2>1. PICK verdict : Decides(call[c].m, verdict)
    BY <1>1 DEF Serve
  <2>2. call[c].m \in Mutation /\ UNCHANGED stored
    BY <1>1, AtCall DEF Serve
  <2> QED BY <2>1, <2>2, DecidesSettles
<1>2. ASSUME NEW m \in late, ServeLate(m) PROVE Out!Next \/ UNCHANGED Out!vars
  <2>1. m \in Mutation /\ UNCHANGED stored
    BY <1>2 DEF TypeInv, Typing, ServeLate
  <2>2. (\E verdict : Decides(m, verdict)) \/ UNCHANGED <<server, settled>>
    BY <1>2 DEF ServeLate
  <2> QED BY <2>1, <2>2, DecidesSettles, Stutters
<1>3. CASE Written
  BY <1>3, WrittenSaves
<1>4. CASE UNCHANGED <<stored, settled>>
  BY <1>4, Stutters
<1>5. ASSUME NEW c \in Calls, Proceed(c), ~Serve(c) PROVE UNCHANGED <<stored, settled>>
  BY <1>5 DEF Proceed, ReadStored, Hydrate, TapAccepted, TapRefused, FlushAnswered, FlushRefused, Fetch, Apply,
     environment
<1>6. ASSUME NEW c \in Calls, Trouble(c) PROVE UNCHANGED <<stored, settled>>
  BY <1>6 DEF Trouble, TapUnanswered, TapTimedOut, FlushUnanswered, FetchUnanswered, Throttle, environment
<1>7. ASSUME NEW c \in Calls, Poll(c) \/ Switch(c) PROVE UNCHANGED <<stored, settled>>
  BY <1>7 DEF Poll, Switch, environment
<1>8. ASSUME NEW c \in Calls, NEW type \in Types, NEW s \in Stations, Tap(c, type, s)
      PROVE  UNCHANGED <<stored, settled>>
  BY <1>8 DEF Tap, environment
<1>9. CASE Render \/ Kill \/ (\E s \in Stations : Elsewhere(s)) \/ UNCHANGED vars
  <2>1. UNCHANGED <<stored, settled>>
    BY <1>9 DEF Render, Kill, Elsewhere, vars, environment
  <2> QED BY <2>1, <1>4
<1> QED BY <1>1, <1>2, <1>3, <1>4, <1>5, <1>6, <1>7, <1>8, <1>9 DEF Next

KeptInv == TypeInv /\ QueueInv /\ Accounted

LEMMA KeptStart == ASSUME Init PROVE KeptInv /\ Out!Init
<1>1. KeptInv
  BY TypeStart, QueueStart, AccountsStart, QueueAssumption DEF KeptInv
<1>2. settled = {} /\ stored = <<>>
  BY DEF Init
<1>3. Pending = {}
  BY <1>2 DEF Pending, Ids
<1> QED BY <1>1, <1>2, <1>3 DEF Out!Init

\* One call at a time, started after the render, and no throttling: the queue implements
\* the outbox. A result that was saved stays saved, across lost answers, late requests and
\* restarts of the app, until the server has given its verdict on it. (That it gets the
\* verdict needs fairness, and is model-checked.)
THEOREM OutboxKept ==
  ASSUME Serial, ~Throttles PROVE Spec => Out!Init /\ [][Out!Next]_(Out!vars)
<1>1. Init => KeptInv /\ Out!Init
  BY KeptStart
<1>2. KeptInv /\ [Next]_vars => KeptInv'
  BY TypeStep, QueueStep, AccountsStep, QueueAssumption DEF KeptInv
<1>3. KeptInv /\ [Next]_vars => [Out!Next]_(Out!vars)
  BY StepSettles, QueueAssumption DEF KeptInv
<1> QED BY <1>1, <1>2, <1>3, PTL DEF Spec

\* "Progress saved offline": under the same conditions a result leaves the storage of the
\* device only with a verdict on it. Throttling breaks this.
THEOREM SavedStays ==
  ASSUME Serial, ~Throttles PROVE Spec => SavedIsSent
<1>1. Init => KeptInv
  BY KeptStart
<1>2. KeptInv /\ [Next]_vars => KeptInv'
  BY TypeStep, QueueStep, AccountsStep, QueueAssumption DEF KeptInv
<1>3. KeptInv /\ [Next]_vars => [Pending \ Ids(stored)' \subseteq settled']_vars
  <2> SUFFICES ASSUME KeptInv, [Next]_vars PROVE Pending \ Ids(stored)' \subseteq settled'
    OBVIOUS
  <2>1. Pending' \subseteq Ids(stored)'
    BY DEF Pending
  <2>2. Out!Next \/ UNCHANGED Out!vars
    BY StepSettles, QueueAssumption DEF KeptInv
  <2>3. Pending \subseteq Pending' \cup settled'
    BY <2>2 DEF Out!Next, Out!Save, Out!Settle, Out!vars
  <2> QED BY <2>1, <2>3
<1> QED BY <1>1, <1>2, <1>3, PTL DEF Spec, SavedIsSent

LEMMA FaultCount ==
  ASSUME faults \in Nat, [Next]_vars
  PROVE  faults' = faults \/ (faults' = faults + 1 /\ \E d \in Calls : Trouble(d))
<1>1. ASSUME NEW c \in Calls, Proceed(c) PROVE UNCHANGED faults
  BY <1>1 DEF Proceed, ReadStored, Hydrate, Serve, TapAccepted, TapRefused, FlushAnswered, FlushRefused, Fetch,
     Apply, counts
<1>2. ASSUME NEW c \in Calls, Trouble(c) PROVE faults' = faults + 1
  BY <1>2 DEF Trouble, TapUnanswered, TapTimedOut, FlushUnanswered, FetchUnanswered, Throttle, Fault
<1>3. ASSUME NEW c \in Calls, Poll(c) \/ Switch(c) PROVE UNCHANGED faults
  BY <1>3 DEF Poll, Switch, counts
<1>4. ASSUME NEW c \in Calls, NEW type \in Types, NEW s \in Stations, Tap(c, type, s) PROVE UNCHANGED faults
  BY <1>4 DEF Tap
<1>5. CASE Render \/ Written \/ Kill \/ (\E m \in late : ServeLate(m)) \/ (\E s \in Stations : Elsewhere(s))
           \/ UNCHANGED vars
  BY <1>5 DEF Render, Written, Kill, ServeLate, Elsewhere, vars, counts
<1> QED BY <1>1, <1>2, <1>3, <1>4, <1>5 DEF Next

LEMMA UnansweredStep ==
  ASSUME TimeoutIsRetriable, TypeInv, faults \in Nat, [Next]_vars, NEW c \in Calls,
         call[c].pc = "tap", call'[c].pc # "tap", faults' > faults
  PROVE  call[c].m \in ToSet(queue')
<1>1. PICK d \in Calls : Trouble(d)
  BY FaultCount
<1>2. d = c
  <2>1. \E q : Goes(d, q)
    BY <1>1 DEF Trouble, TapUnanswered, TapTimedOut, FlushUnanswered, FetchUnanswered, Throttle, Ends
  <2>2. d # c => call'[c] = call[c]
    BY <2>1 DEF Goes, TypeInv, Typing
  <2> QED BY <2>2
<1>3. ~Throttle(c)
  <2> SUFFICES ASSUME Throttle(c) PROVE FALSE
    OBVIOUS
  <2>1. call[c] \in Call /\ call'[c] = [call[c] EXCEPT !.net = "throttled"]
    BY AtCall DEF Throttle, Goes, TypeInv, Typing
  <2> QED BY <2>1 DEF Call
<1>4. TapUnanswered(c)
  BY <1>1, <1>2, <1>3 DEF Trouble, TapTimedOut, FlushUnanswered, FetchUnanswered
<1>5. queue' = Append(call[c].view, call[c].m) /\ call[c].view \in Seq(Mutation) /\ call[c].m \in Mutation
  BY <1>4, AtCall DEF TapUnanswered, Persist, Sound
<1>6. PICK N \in Nat : N = Len(call[c].view)
  BY <1>5
<1>7. N + 1 \in DOMAIN queue' /\ queue'[N + 1] = call[c].m
  BY <1>5, <1>6
<1> QED BY <1>7 DEF ToSet

\* If the app takes its own timeout for a lost connection, whatever overlaps: a result that
\* got no answer is queued. Where it does not, the result is dropped.
THEOREM UnansweredIsQueued ==
  ASSUME TimeoutIsRetriable PROVE Spec => UnansweredIsSaved
<1> DEFINE A == \A c \in Calls : call[c].pc = "tap" /\ call'[c].pc # "tap" /\ faults' > faults =>
                                   call[c].m \in ToSet(queue')
<1>1. Init => TypeInv /\ faults \in Nat
  <2>1. Init => faults = 0
    BY DEF Init
  <2> QED BY <2>1, TypeStart, QueueAssumption
<1>2. TypeInv /\ faults \in Nat /\ [Next]_vars => (TypeInv /\ faults \in Nat)'
  BY TypeStep, FaultCount, QueueAssumption
<1>3. TypeInv /\ faults \in Nat /\ [Next]_vars => [A]_vars
  BY UnansweredStep
<1> QED BY <1>1, <1>2, <1>3, PTL DEF Spec, UnansweredIsSaved
=============================================================================
