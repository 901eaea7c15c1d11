------------------------- MODULE StationPlay_proofs -------------------------
(***************************************************************************)
(* A completion of a locked puzzle is out at most once, for any number of  *)
(* stations, calls, taps, faults and renders. The lock is a set kept       *)
(* beside React's state; the calls are what it stands for, so the          *)
(* invariant is OneSubmit itself, and that every call is a record that     *)
(* only Post, the answers and the end of a call rewrite.                   *)
(***************************************************************************)
EXTENDS StationPlay, WellFoundedInduction, TLAPS

Record(r) ==
  r = [op |-> r.op, of |-> r.of, net |-> r.net, right |-> r.right, late |-> r.late, closes |-> r.closes]
CallsAreRecords ==
  /\ call = [c \in Calls |-> call[c]]
  /\ \A c \in Calls : Record(call[c])

Out == {c \in Calls : call[c].op = "complete" /\ Locked(call[c].of)}

IInv == CallsAreRecords /\ OneSubmit

-----------------------------------------------------------------------------
\* What a call is keeps when only its answer is rewritten.
LEMMA Answered ==
  ASSUME NEW r, NEW x, Record(r)
  PROVE  LET q == [r EXCEPT !.net = x] IN Record(q) /\ q.op = r.op /\ q.of = r.of
  BY DEF Record

\* A free call is no completion.
LEMMA FreeIsNoCall ==
  ASSUME NEW c \in Calls, Free(c)
  PROVE  call[c] = NoCall
<1>1. {d \in Calls : call[d] = NoCall} # {} /\ c = CHOOSE d \in {d \in Calls : call[d] = NoCall} : TRUE
  BY DEF Free
<1>2. c \in {d \in Calls : call[d] = NoCall}
  BY <1>1
<1> QED BY <1>2

\* Statements that leave what is out as it was leave OneSubmit alone.
LEMMA SameOut ==
  ASSUME IInv, CallsAreRecords', UNCHANGED <<kind, locks>>,
         \A c \in Calls : \/ call'[c].op = call[c].op /\ call'[c].of = call[c].of
                          \/ call[c].op # "complete" /\ call'[c].op # "complete"
  PROVE  IInv'
<1>1. ASSUME NEW c \in Calls PROVE (c \in Out) = (c \in Out')
  BY DEF Out, Locked
<1>2. ASSUME NEW c \in Calls, c \in Out PROVE call'[c].of = call[c].of
  BY <1>2 DEF Out
<1>3. OneSubmit'
  BY <1>1, <1>2 DEF IInv, OneSubmit, Out
<1> QED BY <1>3 DEF IInv

\* A fail that is posted, or not sent at all.
LEMMA FailKeeps ==
  ASSUME IInv, UNCHANGED <<kind, locks>>, NEW r, Record(r), r.op = "fail", Fail(r)
  PROVE  IInv'
<1>1. CASE UNCHANGED call
  BY <1>1 DEF IInv, CallsAreRecords, OneSubmit, Locked
<1>2. CASE Post(r)
  <2>1. PICK c \in Calls : Free(c) /\ call' = [call EXCEPT ![c] = r]
    BY <1>2 DEF Post
  <2>2. call[c] = NoCall /\ NoCall.op = "none"
    BY <2>1, FreeIsNoCall DEF NoCall, None
  <2>3. CallsAreRecords'
    BY <2>1 DEF IInv, CallsAreRecords
  <2> QED BY <2>1, <2>2, <2>3, SameOut DEF IInv, CallsAreRecords
<1> QED BY <1>1, <1>2 DEF Fail

\* What Sent makes, and what stays of it when a field that is no part of the claim is set.
Of(r, op, s) == Record(r) /\ r.op = op /\ r.of = s

LEMMA SentIs ==
  ASSUME NEW op, NEW s
  PROVE  /\ Of(Sent(op, s), op, s)
         /\ \A x : Of([Sent(op, s) EXCEPT !.right = x], op, s)
         /\ \A x : Of([Sent(op, s) EXCEPT !.closes = x], op, s)
<1>1. PICK b : Sent(op, s) = [NoCall EXCEPT !.op = op, !.of = s, !.net = "out", !.late = b]
  BY DEF Sent
<1>2. PICK f : Sent(op, s) = [op |-> op, of |-> s, net |-> "out", right |-> f, late |-> b, closes |-> f]
  BY <1>1 DEF NoCall
<1> DEFINE q == [op |-> op, of |-> s, net |-> "out", right |-> f, late |-> b, closes |-> f]
<1>3. Of(q, op, s)
  BY DEF Of, Record
<1>4. ASSUME NEW x
      PROVE  Of([q EXCEPT !.right = x], op, s) /\ Of([q EXCEPT !.closes = x], op, s)
  BY DEF Of, Record
<1>5. Sent(op, s) = q
  BY <1>2
<1> HIDE DEF q
<1> QED BY <1>3, <1>4, <1>5

\* The end of a controller: what is locked is not sent again, and what is sent is locked.
LEMMA SubmitKeeps ==
  ASSUME IInv, UNCHANGED kind, NEW s, NEW u, NEW right, Submit(s, u, right)
  PROVE  IInv'
<1> DEFINE r == [Sent("complete", s) EXCEPT !.right = right]
<1>1. CASE UNCHANGED <<locks, call>>
  BY <1>1 DEF IInv, CallsAreRecords, OneSubmit, Locked
<1>2. CASE /\ ~(Locked(s) /\ s \in locks)
           /\ locks' = IF Locked(s) THEN locks \cup {s} ELSE locks
           /\ Post(r)
  <2>1. PICK c \in Calls : Free(c) /\ call' = [call EXCEPT ![c] = r]
    BY <1>2 DEF Post
  <2>2. call[c] = NoCall /\ NoCall.op # "complete"
    BY <2>1, FreeIsNoCall DEF NoCall, None
  <2>3. Record(r) /\ r.op = "complete" /\ r.of = s
    BY SentIs DEF Of
  <2> HIDE DEF r
  <2>4. /\ call'[c] = r
        /\ \A d \in Calls \ {c} : call'[d] = call[d]
    BY <2>1 DEF IInv, CallsAreRecords
  <2>5. CallsAreRecords'
    BY <2>1, <2>3, <2>4 DEF IInv, CallsAreRecords
  <2>6. CASE Locked(s)
    <3>1. Out' = Out \cup {c} /\ c \notin Out
      BY <2>2, <2>3, <2>4, <2>6 DEF Out, Locked
    <3>2. s \notin locks /\ locks' = locks \cup {s}
      BY <1>2, <2>6
    <3>3. \A d \in Out : call'[d].of = call[d].of /\ call[d].of # s
      BY <2>4, <3>1, <3>2 DEF IInv, OneSubmit, Out
    <3>4. OneSubmit'
      BY <2>3, <2>4, <3>1, <3>2, <3>3 DEF IInv, OneSubmit, Out
    <3> QED BY <2>5, <3>4 DEF IInv
  <2>7. CASE ~Locked(s)
    <3>1. Out' = Out /\ \A d \in Out : call'[d].of = call[d].of
      BY <2>2, <2>3, <2>4, <2>7 DEF Out, Locked
    <3>2. locks' = locks
      BY <1>2, <2>7
    <3>3. OneSubmit'
      BY <3>1, <3>2 DEF IInv, OneSubmit, Out
    <3> QED BY <2>5, <3>3 DEF IInv
  <2> QED BY <2>6, <2>7
<1> QED BY <1>1, <1>2 DEF Submit

-----------------------------------------------------------------------------
\* The controllers.
LEMMA GiveUpKeeps ==
  ASSUME IInv, UNCHANGED kind, NEW s, NEW u, GiveUp(s, u)
  PROVE  IInv'
  BY FailKeeps, SentIs DEF GiveUp, Of

LEMMA Idle ==
  ASSUME IInv, UNCHANGED <<kind, locks, call>>
  PROVE  IInv'
  BY DEF IInv, CallsAreRecords, OneSubmit, Locked

LEMMA SolveKeeps ==
  ASSUME IInv, NEW s, Solve(s)
  PROVE  IInv'
<1>1. UNCHANGED kind
  BY DEF Solve, Tap
<1>2. CASE kind[s] = "wordle"
  BY <1>1, <1>2, Idle DEF Solve
<1>3. CASE kind[s] # "wordle"
  <2>1. Submit(s, [ui EXCEPT !.solved = @ \/ kind[s] = "kept"], TRUE)
    BY <1>3 DEF Solve
  <2> QED BY <1>1, <2>1, SubmitKeeps
<1> QED BY <1>2, <1>3

LEMMA MissKeeps ==
  ASSUME IInv, NEW s, Miss(s)
  PROVE  IInv'
<1> DEFINE u == [ui EXCEPT !.tries = rendered.ui.tries + 1]
<1>1. UNCHANGED kind
  BY DEF Miss, Tap
<1>2. \/ Submit(s, ui, FALSE)
      \/ GiveUp(s, u)
      \/ UNCHANGED <<locks, call>>
  BY DEF Miss
<1> QED BY <1>1, <1>2, SubmitKeeps, GiveUpKeeps, Idle

LEMMA RevealedKeeps ==
  ASSUME IInv, Revealed
  PROVE  IInv'
<1> DEFINE u == [ui EXCEPT !.reveal = None]
<1>1. UNCHANGED kind
  BY DEF Revealed
<1>2. \/ Submit(rendered.ui.at, u, TRUE)
      \/ GiveUp(rendered.ui.at, u)
      \/ UNCHANGED <<locks, call>>
  BY DEF Revealed
<1> QED BY <1>1, <1>2, SubmitKeeps, GiveUpKeeps, Idle

\* Failing on close, and a time limit that runs out.
LEMMA CloseKeeps ==
  ASSUME IInv, CloseOverlay
  PROVE  IInv'
<1> DEFINE r == [Sent("fail", rendered.ui.at) EXCEPT !.closes = TRUE]
<1>1. UNCHANGED <<kind, locks>>
  BY DEF CloseOverlay
<1>2. UNCHANGED call \/ Fail(r)
  BY DEF CloseOverlay
<1>3. Record(r) /\ r.op = "fail"
  BY SentIs DEF Of
<1> HIDE DEF r
<1> QED BY <1>1, <1>2, <1>3, FailKeeps, Idle

LEMMA RenderKeeps ==
  ASSUME IInv, Render
  PROVE  IInv'
<1> DEFINE r == Sent("fail", Snapshot(ui, shown).ui.at)
<1>1. UNCHANGED <<kind, locks>>
  BY DEF Render
<1>2. UNCHANGED call \/ Fail(r)
  BY DEF Render
<1>3. Record(r) /\ r.op = "fail"
  BY SentIs DEF Of
<1> HIDE DEF r
<1> QED BY <1>1, <1>2, <1>3, FailKeeps, Idle

-----------------------------------------------------------------------------
\* The answers.
LEMMA NetKeeps ==
  ASSUME IInv, UNCHANGED <<kind, locks>>, NEW c \in Calls, NEW x, call' = [call EXCEPT ![c].net = x]
  PROVE  IInv'
<1> DEFINE q == [call[c] EXCEPT !.net = x]
<1>1. Record(q) /\ q.op = call[c].op /\ q.of = call[c].of
  BY Answered DEF IInv, CallsAreRecords
<1>2. call'[c] = q /\ \A d \in Calls \ {c} : call'[d] = call[d]
  BY DEF IInv, CallsAreRecords
<1> HIDE DEF q
<1>3. CallsAreRecords'
  BY <1>1, <1>2 DEF IInv, CallsAreRecords
<1> QED BY <1>1, <1>2, <1>3, SameOut

LEMMA HearCompleteKeeps ==
  ASSUME IInv, NEW c \in Calls, HearComplete(c)
  PROVE  IInv'
<1> DEFINE s == call[c].of
<1>1. /\ UNCHANGED kind /\ call[c].op = "complete"
      /\ call' = [call EXCEPT ![c] = NoCall]
      /\ locks' = IF Locked(s) THEN locks \ {s} ELSE locks
  BY DEF HearComplete
<1>2. call'[c] = NoCall /\ \A d \in Calls \ {c} : call'[d] = call[d]
  BY <1>1 DEF IInv, CallsAreRecords
<1>3. Record(NoCall) /\ NoCall.op # "complete"
  BY DEF Record, NoCall, None
<1>4. CallsAreRecords'
  BY <1>1, <1>2, <1>3 DEF IInv, CallsAreRecords
<1>5. Out' = Out \ {c} /\ \A d \in Out' : call'[d].of = call[d].of
  BY <1>1, <1>2, <1>3 DEF Out, Locked
<1>6. locks' = {call[d].of : d \in Out \ {c}}
  <2>1. CASE Locked(s)
    <3>1. c \in Out
      BY <1>1, <2>1 DEF Out
    <3>2. locks = {call[d].of : d \in Out} /\ \A d, f \in Out : call[d].of = call[f].of => d = f
      BY DEF IInv, OneSubmit, Out
    <3>3. locks' = locks \ {s}
      BY <1>1, <2>1
    <3> QED BY <3>1, <3>2, <3>3
  <2>2. CASE ~Locked(s)
    BY <1>1, <2>2 DEF IInv, OneSubmit, Out
  <2> QED BY <2>1, <2>2
<1>7. OneSubmit'
  BY <1>5, <1>6 DEF IInv, OneSubmit, Out
<1> QED BY <1>4, <1>7 DEF IInv

LEMMA HearFailKeeps ==
  ASSUME IInv, NEW c \in Calls, HearFail(c)
  PROVE  IInv'
<1>1. UNCHANGED <<kind, locks>> /\ call[c].op = "fail" /\ call' = [call EXCEPT ![c] = NoCall]
  BY DEF HearFail
<1>2. call'[c] = NoCall /\ \A d \in Calls \ {c} : call'[d] = call[d]
  BY <1>1 DEF IInv, CallsAreRecords
<1>3. Record(NoCall) /\ NoCall.op # "complete"
  BY DEF Record, NoCall, None
<1>4. CallsAreRecords'
  BY <1>1, <1>2, <1>3 DEF IInv, CallsAreRecords
<1> QED BY <1>1, <1>2, <1>3, <1>4, SameOut

-----------------------------------------------------------------------------
LEMMA Start ==
  ASSUME Init
  PROVE  IInv
<1>1. Record(NoCall) /\ NoCall.op # "complete"
  BY DEF Record, NoCall, None
<1>2. call = [c \in Calls |-> NoCall] /\ locks = {}
  BY DEF Init
<1> QED BY <1>1, <1>2 DEF IInv, CallsAreRecords, OneSubmit

\* Every step of the screen, the network and the hook keeps the invariant.
LEMMA Step ==
  ASSUME IInv, [Next]_vars
  PROVE  IInv'
<1>1. ASSUME NEW s \in Stations, Open(s) \/ TimeIsUp(s) PROVE IInv'
  BY <1>1, Idle DEF Open, TimeIsUp
<1>2. ASSUME NEW s \in Stations, Solve(s) \/ Miss(s) PROVE IInv'
  BY <1>2, SolveKeeps, MissKeeps
<1>3. CASE Revealed \/ CloseOverlay \/ Render
  BY <1>3, RevealedKeeps, CloseKeeps, RenderKeeps
<1>4. CASE Dismiss \/ Slide \/ Flush \/ Refresh
  BY <1>4, Idle DEF Dismiss, Slide, Flush, Refresh
<1>5. ASSUME NEW c \in Calls, Serve(c) \/ NotServed(c) \/ HearLoss(c) PROVE IInv'
  <2>1. UNCHANGED <<kind, locks>> /\ \E x : call' = [call EXCEPT ![c].net = x]
    BY <1>5 DEF Serve, NotServed, HearLoss
  <2> QED BY <2>1, NetKeeps
<1>6. ASSUME NEW c \in Calls, HearComplete(c) \/ HearFail(c) PROVE IInv'
  BY <1>6, HearCompleteKeeps, HearFailKeeps
<1>7. CASE UNCHANGED vars
  BY <1>7, Idle DEF vars
<1> QED BY <1>1, <1>2, <1>3, <1>4, <1>5, <1>6, <1>7 DEF Next

\* However fast the player taps, and whatever is lost, late or refused, a locked puzzle has
\* at most one completion in flight, and its lock is held exactly as long as that one is.
THEOREM SubmitOnce == Spec => []OneSubmit
<1>1. Init => IInv
  BY Start
<1>2. IInv /\ [Next]_vars => IInv'
  BY Step
<1>3. IInv => OneSubmit
  BY DEF IInv
<1> QED BY <1>1, <1>2, <1>3, PTL DEF Spec

-----------------------------------------------------------------------------
(* Types. A result names a station, which is why a tap, a reveal and a     *)
(* time limit need the station that was rendered: the reveal of a wordle   *)
(* can only be running over one.                                           *)

Result == [op : {"complete", "fail"}, of : Stations, net : Nets,
           right : BOOLEAN, late : BOOLEAN, closes : BOOLEAN]
Screen == [Stations -> Statuses]
Board  == [Stations -> Rows]
Outcomes == {None, "success", "failed", "timeout"}
UI == [open : Stations \cup {None}, at : Stations \cup {None}, status : Statuses, tries : 0..Limit,
       solved : BOOLEAN, busy : SUBSET Stations, reveal : {None, "right", "wrong", "last"},
       popup : [of : Stations \cup {None}, what : Outcomes]]

TypeInv ==
  /\ kind \in [Stations -> Kinds] /\ server \in Board /\ shown \in Screen /\ late \subseteq Stations
  /\ ui \in UI /\ rendered \in [ui : UI, shown : Screen, late : BOOLEAN]
  /\ ui.reveal # None => rendered.ui.at # None
  /\ call \in [Calls -> Result \cup {NoCall}]
  /\ queue \in Seq(Result)

LEMMA TypeInvIsTypeOK == ASSUME TypeInv PROVE TypeOK
<1>1. ui.busy \subseteq Stations /\ ui.tries \in 0..Limit /\ ui.open \in Stations \cup {None}
      /\ ui.at \in Stations \cup {None} /\ ui.reveal \in {None, "right", "wrong", "last"}
      /\ ui.popup.what \in Outcomes
  BY DEF TypeInv, UI
<1>2. \A c \in Calls : call[c] = NoCall \/ (call[c].op \in {"complete", "fail"} /\ call[c].net \in Nets)
  BY DEF TypeInv, Result
<1>3. \A i \in DOMAIN queue : queue[i].of \in Stations
  <2>1. queue \in Seq(Result)
    BY DEF TypeInv
  <2>2. \A i \in DOMAIN queue : queue[i] \in Result
    BY <2>1
  <2> QED BY <2>2 DEF Result
<1> QED BY <1>1, <1>2, <1>3 DEF TypeInv, TypeOK, Screen, Board, Outcomes

\* What a setter does to the overlay.
LEMMA Settings ==
  ASSUME NEW u \in UI
  PROVE  /\ \A x \in Stations \cup {None} : [u EXCEPT !.open = x] \in UI /\ [u EXCEPT !.at = x] \in UI
         /\ \A x \in Stations \cup {None}, y \in Statuses : [u EXCEPT !.at = x, !.status = y] \in UI
         /\ \A x \in 0..Limit : [u EXCEPT !.tries = x] \in UI
         /\ \A x \in BOOLEAN : [u EXCEPT !.solved = x] \in UI
         /\ \A x \in SUBSET Stations : [u EXCEPT !.busy = x] \in UI
         /\ \A x \in {None, "right", "wrong", "last"} : [u EXCEPT !.reveal = x] \in UI
         /\ \A s \in Stations \cup {None}, w \in Outcomes : [u EXCEPT !.popup = Popup(s, w)] \in UI
         /\ \A x \in Stations \cup {None} : [u EXCEPT !.popup = NoPopup, !.open = x] \in UI
<1>1. /\ \A s \in Stations \cup {None}, w \in Outcomes : Popup(s, w) \in [of : Stations \cup {None}, what : Outcomes]
      /\ NoPopup \in [of : Stations \cup {None}, what : Outcomes]
  BY DEF Popup, NoPopup, Outcomes
<1>2. /\ \A x \in Stations \cup {None} : [u EXCEPT !.open = x] \in UI /\ [u EXCEPT !.at = x] \in UI
      /\ \A x \in Stations \cup {None}, y \in Statuses : [u EXCEPT !.at = x, !.status = y] \in UI
  BY DEF UI
<1>3. /\ \A x \in 0..Limit : [u EXCEPT !.tries = x] \in UI
      /\ \A x \in BOOLEAN : [u EXCEPT !.solved = x] \in UI
      /\ \A x \in SUBSET Stations : [u EXCEPT !.busy = x] \in UI
  BY DEF UI
<1>4. \A x \in {None, "right", "wrong", "last"} : [u EXCEPT !.reveal = x] \in UI
  BY DEF UI
<1>5. ASSUME NEW p \in [of : Stations \cup {None}, what : Outcomes]
      PROVE  [u EXCEPT !.popup = p] \in UI /\ \A x \in Stations \cup {None} : [u EXCEPT !.popup = p, !.open = x] \in UI
  BY DEF UI
<1> QED BY <1>1, <1>2, <1>3, <1>4, <1>5

\* What is sent.
LEMMA SentTyped ==
  ASSUME TypeInv, PlayAssumption, NEW op \in {"complete", "fail"}, NEW s \in Stations
  PROVE  /\ Sent(op, s) \in Result /\ Sent(op, s).net = "out"
         /\ \A b \in BOOLEAN : [Sent(op, s) EXCEPT !.right = b] \in Result
         /\ [Sent(op, s) EXCEPT !.closes = TRUE] \in Result
<1>1. PICK b \in BOOLEAN : b = (Decay /\ s \in late)
  BY DEF PlayAssumption
<1> DEFINE q == [op |-> op, of |-> s, net |-> "out", right |-> FALSE, late |-> b, closes |-> FALSE]
<1>2. Sent(op, s) = q
  <2>1. Sent(op, s) = [NoCall EXCEPT !.op = op, !.of = s, !.net = "out", !.late = b]
    BY <1>1 DEF Sent
  <2> QED BY <2>1 DEF NoCall
<1>3. q \in Result /\ q.net = "out"
  BY DEF Result, Nets
<1> HIDE DEF q
<1>4. \A x \in BOOLEAN : [q EXCEPT !.right = x] \in Result /\ [q EXCEPT !.closes = x] \in Result
  BY <1>3 DEF Result
<1> QED BY <1>2, <1>3, <1>4

LEMMA Posted ==
  ASSUME TypeInv, NEW r \in Result, Post(r) \/ UNCHANGED call
  PROVE  call' \in [Calls -> Result \cup {NoCall}]
  BY DEF TypeInv, Post

LEMMA FailPosts == ASSUME NEW r, Fail(r) PROVE Post(r) \/ UNCHANGED call
  BY DEF Fail

-----------------------------------------------------------------------------
(* A fold over a sequence, as a function of the steps it takes.            *)

LEMMA Least ==
  ASSUME NEW S, S \subseteq Nat, S # {}
  PROVE  \E n \in S : \A m \in S : n <= m
<1> DEFINE R == OpToRel(<, Nat)
<1>1. PICK n \in S : \A m \in S : ~(<<m, n>> \in R)
  BY WFMin, NatLessThanWellFounded
<1>2. \A m \in S : ~(m < n)
  BY <1>1 DEF OpToRel
<1> QED BY <1>2

\* A set with 0 and with the successor of every number it has below N has all up to N.
LEMMA UpTo ==
  ASSUME NEW N \in Nat, NEW S, 0 \in S, \A n \in 0..N : n \in S /\ n < N => n + 1 \in S
  PROVE  \A n \in 0..N : n \in S
<1> SUFFICES ASSUME NEW k \in 0..N, k \notin S PROVE FALSE
  OBVIOUS
<1> DEFINE Missing == {n \in 0..N : n \notin S}
<1>0. Missing \subseteq Nat /\ Missing # {}
  OBVIOUS
<1>1. PICK n \in Missing : \A m \in Missing : n <= m
  <2> HIDE DEF Missing
  <2> QED BY <1>0, Least
<1>2. n # 0 /\ n - 1 \in 0..N /\ n - 1 < N
  BY <1>1
<1>3. n - 1 \in S
  BY <1>1, <1>2
<1>4. n - 1 + 1 \in S
  BY <1>2, <1>3
<1> QED BY <1>1, <1>4

Fold(f, A, b, N, g) == f \in [0..N -> A] /\ f[0] = b /\ \A i \in 1..N : f[i] = g[i][f[i - 1]]

LEMMA FoldExists ==
  ASSUME NEW A, NEW b \in A, NEW N \in Nat, NEW g \in [1..N -> [A -> A]]
  PROVE  \E f : Fold(f, A, b, N, g)
<1> DEFINE S == {n \in 0..N : \E f : Fold(f, A, b, n, g)}
<1>1. 0 \in S
  <2> DEFINE first == [i \in 0..0 |-> b]
  <2>1. Fold(first, A, b, 0, g)
    BY DEF Fold
  <2> HIDE DEF first
  <2>2. \E f : Fold(f, A, b, 0, g)
    BY <2>1
  <2> QED BY <2>2
<1>2. \A n \in 0..N : n \in S /\ n < N => n + 1 \in S
  <2> SUFFICES ASSUME NEW n \in 0..N, n \in S, n < N PROVE n + 1 \in S
    OBVIOUS
  <2>1. PICK f : Fold(f, A, b, n, g)
    OBVIOUS
  <2>2. f \in [0..n -> A] /\ f[0] = b /\ f[n] \in A /\ n + 1 \in 1..N /\ n + 1 \in 0..N
    BY <2>1 DEF Fold
  <2>3. g[n + 1][f[n]] \in A
    BY <2>2
  <2> DEFINE last == g[n + 1][f[n]]
             h == [i \in 0..(n + 1) |-> IF i = n + 1 THEN last ELSE f[i]]
  <2> HIDE DEF S
  <2>4. h \in [0..(n + 1) -> A] /\ h[0] = b
    <3>1. 0 \in 0..(n + 1) /\ n + 1 # 0 /\ \A i \in 0..(n + 1) : i = n + 1 \/ i \in 0..n
      OBVIOUS
    <3>2. last \in A
      BY <2>3
    <3> HIDE DEF last
    <3>3. \A i \in 0..(n + 1) : (IF i = n + 1 THEN last ELSE f[i]) \in A
      BY <2>2, <3>1, <3>2
    <3> QED BY <2>2, <3>1, <3>3
  <2>5. \A i \in 1..(n + 1) : h[i] = g[i][h[i - 1]]
    <3> TAKE i \in 1..(n + 1)
    <3>1. CASE i = n + 1
      <4>1. h[i] = last /\ h[i - 1] = f[n]
        BY <3>1
      <4> QED BY <3>1, <4>1
    <3>2. CASE i \in 1..n
      <4>1. f[i] = g[i][f[i - 1]]
        BY <2>1, <3>2 DEF Fold
      <4>2. h[i] = f[i] /\ h[i - 1] = f[i - 1]
        BY <3>2
      <4> QED BY <4>1, <4>2
    <3> QED BY <3>1, <3>2
  <2> HIDE DEF h
  <2>6. \E k : Fold(k, A, b, n + 1, g)
    BY <2>4, <2>5 DEF Fold
  <2> QED BY <2>2, <2>6 DEF S
<1>3. \A n \in 0..N : n \in S
  <2> HIDE DEF S
  <2> QED BY <1>1, <1>2, UpTo, Zenon
<1>4. N \in 0..N
  OBVIOUS
<1> QED BY <1>3, <1>4

\* Applying results leaves a screen.
LEMMA AppliedTyped ==
  ASSUME NEW sh \in Screen, NEW r \in Result
  PROVE  Applied(sh, r) \in Screen
  BY DEF Applied, Screen, Result, Statuses, Decided

\* What the server answers are statuses, though not every row is one.
LEMMA EffectiveTyped == ASSUME TypeInv PROVE Effective \in Screen
<1>1. \A s \in Stations : server[s] \in Statuses \cup {"overdue"} /\ "failed" \in Statuses
  BY DEF TypeInv, Board, Rows, Statuses, Decided
<1> QED BY <1>1 DEF Effective, Screen

LEMMA ReplayedTyped ==
  ASSUME TypeInv
  PROVE  Replayed \in Screen
<1> DEFINE told == Effective
<1>1. told \in Screen /\ queue \in Seq(Result)
  BY EffectiveTyped DEF TypeInv
<1> HIDE DEF told
<1>2. PICK N \in Nat : N = Len(queue)
  BY <1>1
<1>3. \A i \in 1..N : queue[i] \in Result
  BY <1>1, <1>2
<1> DEFINE g == [i \in 1..N |-> [sh \in Screen |-> Applied(sh, queue[i])]]
           Body(f) == [i \in 0..Len(queue) |-> IF i = 0 THEN told ELSE Applied(f[i - 1], queue[i])]
           after == CHOOSE f : f = Body(f)
<1>4. g \in [1..N -> [Screen -> Screen]]
  BY <1>3, AppliedTyped
<1>5. PICK f : Fold(f, Screen, told, N, g)
  <2> HIDE DEF g
  <2> QED BY <1>1, <1>4, FoldExists
<1>6. f = Body(f)
  <2>1. f \in [0..N -> Screen] /\ f[0] = told /\ \A i \in 1..N : f[i] = g[i][f[i - 1]]
    BY <1>5 DEF Fold
  <2>2. \A i \in 1..N : i - 1 \in 0..N
    OBVIOUS
  <2>3. \A i \in 1..N : f[i - 1] \in Screen
    BY <2>1, <2>2
  <2>4. \A i \in 1..N : f[i] = Applied(f[i - 1], queue[i])
    BY <2>1, <2>3
  <2>5. \A i \in 0..N : f[i] = IF i = 0 THEN told ELSE Applied(f[i - 1], queue[i])
    <3> TAKE i \in 0..N
    <3>1. i = 0 \/ i \in 1..N
      OBVIOUS
    <3> QED BY <2>1, <2>4, <3>1
  <2> HIDE DEF g
  <2> QED BY <1>2, <2>1, <2>5
<1>7. after = Body(after)
  BY <1>6, Zenon
<1>8. Replayed = after[Len(queue)]
  BY DEF Replayed, told
<1> DEFINE S == {i \in 0..N : after[i] \in Screen}
<1>9. 0 \in S
  <2>1. Body(after)[0] = told
    BY <1>2
  <2>2. after[0] = told
    BY <1>7, <2>1, Zenon
  <2> HIDE DEF after
  <2> QED BY <1>1, <2>2
<1>10. \A n \in 0..N : n \in S /\ n < N => n + 1 \in S
  <2> HIDE DEF after
  <2> SUFFICES ASSUME NEW n \in 0..N, after[n] \in Screen, n < N PROVE after[n + 1] \in Screen /\ n + 1 \in 0..N
    OBVIOUS
  <2>1. n + 1 \in 0..N /\ n + 1 \in 1..N /\ n + 1 # 0 /\ n + 1 - 1 = n
    OBVIOUS
  <2>2. Body(after)[n + 1] = Applied(after[n], queue[n + 1])
    BY <1>2, <2>1
  <2>3. after[n + 1] = Applied(after[n], queue[n + 1])
    BY <1>7, <2>2, Zenon
  <2> QED BY <1>3, <2>1, <2>3, AppliedTyped
<1>11. \A n \in 0..N : n \in S
  <2> HIDE DEF S
  <2> QED BY <1>9, <1>10, UpTo, Zenon
<1>12. N \in 0..N
  OBVIOUS
<1> HIDE DEF after
<1> QED BY <1>2, <1>8, <1>11, <1>12

-----------------------------------------------------------------------------
\* Statements that keep the tables keep the types when what they set has its type.
LEMMA Typed ==
  ASSUME TypeInv, UNCHANGED <<kind, server, shown, late, rendered, queue>>,
         ui' \in UI, ui'.reveal # None => rendered.ui.at # None,
         call' \in [Calls -> Result \cup {NoCall}]
  PROVE  TypeInv'
  BY DEF TypeInv, UI, Screen

\* Controllers run for a station that was rendered.
LEMMA SubmitTyped ==
  ASSUME TypeInv, PlayAssumption, NEW s \in Stations, NEW u \in UI, NEW right \in BOOLEAN, Submit(s, u, right)
  PROVE  /\ ui' \in UI /\ ui'.reveal = u.reveal
         /\ call' \in [Calls -> Result \cup {NoCall}]
<1> DEFINE r == [Sent("complete", s) EXCEPT !.right = right]
           v == [u EXCEPT !.busy = @ \cup {s}]
<1>1. r \in Result
  BY SentTyped
<1>2. v \in UI /\ v.reveal = u.reveal
  <2>1. u.busy \cup {s} \in SUBSET Stations
    BY DEF UI
  <2>2. v \in UI
    BY <2>1, Settings
  <2> QED BY <2>2 DEF UI
<1>3. /\ ui' = u \/ ui' = v
      /\ Post(r) \/ UNCHANGED call
  BY DEF Submit
<1> HIDE DEF r, v
<1> QED BY <1>1, <1>2, <1>3, Posted

LEMMA GiveUpTyped ==
  ASSUME TypeInv, PlayAssumption, NEW s \in Stations, NEW u \in UI, GiveUp(s, u)
  PROVE  /\ ui' \in UI /\ ui'.reveal = u.reveal
         /\ call' \in [Calls -> Result \cup {NoCall}]
<1>1. ui' = [u EXCEPT !.popup = Popup(s, "failed")] /\ Fail(Sent("fail", s))
  BY DEF GiveUp
<1>2. Sent("fail", s) \in Result
  BY SentTyped
<1>3. ui' \in UI /\ ui'.reveal = u.reveal
  <2>1. "failed" \in Outcomes
    BY DEF Outcomes
  <2>2. ui' \in UI
    BY <1>1, <2>1, Settings
  <2> QED BY <1>1, <2>2 DEF UI
<1> QED BY <1>1, <1>2, <1>3, FailPosts, Posted

\* What a tap finds.
LEMMA Tapped ==
  ASSUME TypeInv, PlayAssumption, NEW s \in Stations, Tap(s)
  PROVE  /\ UNCHANGED <<kind, server, shown, late, rendered, queue>>
         /\ rendered.ui.at = s /\ s # None
         /\ rendered.ui.tries + 1 \in 0..Limit
<1>1. UNCHANGED <<kind, server, shown, late, rendered, queue>> /\ Enabled(s)
  BY DEF Tap
<1>2. rendered.ui.at = s /\ rendered.ui.tries < Limit
  BY <1>1 DEF Enabled
<1>3. rendered.ui.tries \in 0..Limit /\ Limit \in Nat
  BY DEF TypeInv, UI, PlayAssumption
<1>4. rendered.ui.tries + 1 \in 0..Limit
  BY <1>2, <1>3
<1> QED BY <1>1, <1>2, <1>4 DEF PlayAssumption, None

LEMMA SolveTyped ==
  ASSUME TypeInv, PlayAssumption, NEW s \in Stations, Solve(s)
  PROVE  TypeInv'
<1>1. Tap(s)
  BY DEF Solve
<1>2. /\ UNCHANGED <<kind, server, shown, late, rendered, queue>>
      /\ rendered.ui.at = s /\ s # None /\ rendered.ui.tries + 1 \in 0..Limit
  BY <1>1, Tapped
<1>3. ui \in UI /\ call \in [Calls -> Result \cup {NoCall}]
  BY DEF TypeInv
<1>4. CASE kind[s] = "wordle"
  <2>1. /\ ui' = [ui EXCEPT !.tries = rendered.ui.tries + 1, !.solved = TRUE, !.reveal = "right"]
        /\ UNCHANGED call
    BY <1>4 DEF Solve
  <2>2. PICK n \in 0..Limit : n = rendered.ui.tries + 1
    BY <1>2
  <2>3. ui' \in UI
    BY <1>3, <2>1, <2>2 DEF UI
  <2> QED BY <1>2, <1>3, <2>1, <2>3, Typed
<1>5. CASE kind[s] # "wordle"
  <2> DEFINE u == [ui EXCEPT !.solved = @ \/ kind[s] = "kept"]
  <2>1. Submit(s, u, TRUE)
    BY <1>5 DEF Solve
  <2>2. u \in UI /\ u.reveal = ui.reveal
    <3>1. PICK b \in BOOLEAN : b = (ui.solved \/ kind[s] = "kept")
      BY <1>3 DEF UI
    <3>2. [ui EXCEPT !.solved = b] \in UI
      BY <1>3, Settings
    <3>3. u \in UI
      BY <3>1, <3>2
    <3> QED BY <1>3, <3>3 DEF UI
  <2> HIDE DEF u
  <2>3. ui' \in UI /\ call' \in [Calls -> Result \cup {NoCall}]
    BY <2>1, <2>2, SubmitTyped
  <2> QED BY <1>2, <2>3, Typed
<1> QED BY <1>4, <1>5

LEMMA MissTyped ==
  ASSUME TypeInv, PlayAssumption, NEW s \in Stations, Miss(s)
  PROVE  TypeInv'
<1> DEFINE u == [ui EXCEPT !.tries = rendered.ui.tries + 1]
<1>1. Tap(s)
  BY DEF Miss
<1>2. /\ UNCHANGED <<kind, server, shown, late, rendered, queue>>
      /\ rendered.ui.at = s /\ s # None /\ rendered.ui.tries + 1 \in 0..Limit
  BY <1>1, Tapped
<1>3. ui \in UI /\ call \in [Calls -> Result \cup {NoCall}]
  BY DEF TypeInv
<1>4. u \in UI
  BY <1>2, <1>3, Settings
<1>5. \/ Submit(s, ui, FALSE)
      \/ GiveUp(s, u)
      \/ UNCHANGED call /\ (ui' = u \/ \E x \in {"last", "wrong"} : ui' = [u EXCEPT !.reveal = x])
  BY DEF Miss
<1> HIDE DEF u
<1>6. ui' \in UI /\ call' \in [Calls -> Result \cup {NoCall}]
  <2>1. CASE Submit(s, ui, FALSE)
    BY <1>3, <2>1, SubmitTyped
  <2>2. CASE GiveUp(s, u)
    BY <1>4, <2>2, GiveUpTyped
  <2>3. CASE UNCHANGED call /\ ui' = u
    BY <1>3, <1>4, <2>3
  <2>4. CASE UNCHANGED call /\ \E x \in {"last", "wrong"} : ui' = [u EXCEPT !.reveal = x]
    BY <1>3, <1>4, <2>4, Settings
  <2> QED BY <1>5, <2>1, <2>2, <2>3, <2>4
<1> QED BY <1>2, <1>6, Typed

LEMMA RevealedTyped ==
  ASSUME TypeInv, PlayAssumption, Revealed
  PROVE  TypeInv'
<1> DEFINE s == rendered.ui.at
           u == [ui EXCEPT !.reveal = None]
<1>1. UNCHANGED <<kind, server, shown, late, rendered, queue>> /\ ui.reveal # None
  BY DEF Revealed, None
<1>2. s \in Stations /\ s # None
  BY <1>1 DEF TypeInv, UI
<1>3. ui \in UI /\ call \in [Calls -> Result \cup {NoCall}]
  BY DEF TypeInv
<1>4. u \in UI
  BY <1>3, Settings
<1>5. Submit(s, u, TRUE) \/ GiveUp(s, u) \/ (ui' = u /\ UNCHANGED call)
  BY DEF Revealed
<1> HIDE DEF s, u
<1>6. ui' \in UI /\ call' \in [Calls -> Result \cup {NoCall}]
  BY <1>2, <1>3, <1>4, <1>5, SubmitTyped, GiveUpTyped
<1> QED BY <1>1, <1>2, <1>6, Typed DEF s

LEMMA CloseTyped ==
  ASSUME TypeInv, PlayAssumption, CloseOverlay
  PROVE  TypeInv'
<1> DEFINE s == rendered.ui.at
           r == [Sent("fail", s) EXCEPT !.closes = TRUE]
           u == [ui EXCEPT !.open = None]
<1>1. UNCHANGED <<kind, server, shown, late, rendered, queue>> /\ s # None
  BY DEF CloseOverlay
<1>2. s \in Stations /\ ui \in UI /\ call \in [Calls -> Result \cup {NoCall}]
  BY <1>1 DEF TypeInv, UI
<1>3. r \in Result
  BY <1>2, SentTyped
<1>4. u \in UI /\ u.reveal = ui.reveal
  <2>1. u \in UI
    BY <1>2, Settings
  <2> QED BY <1>2, <2>1 DEF UI
<1>5. (ui' = u \/ ui' = ui) /\ (UNCHANGED call \/ Fail(r))
  BY DEF CloseOverlay
<1> HIDE DEF s, r, u
<1>6. call' \in [Calls -> Result \cup {NoCall}]
  BY <1>3, <1>5, FailPosts, Posted
<1> QED BY <1>1, <1>2, <1>4, <1>5, <1>6, Typed DEF s

\* The effects of a render. The reveal of the station before is stopped.
LEMMA RenderTyped ==
  ASSUME TypeInv, PlayAssumption, Render
  PROVE  TypeInv'
<1> DEFINE r == Snapshot(ui, shown)
           t == Transition(r, ui)
           d == Display(r, t)
           u == Reset(r, d)
<1>1. /\ rendered' = r /\ UNCHANGED <<kind, server, shown, late, queue>>
      /\ \/ r.ui.at # None /\ ui' = [u EXCEPT !.popup = Popup(r.ui.at, "timeout")] /\ Fail(Sent("fail", r.ui.at))
         \/ ui' = u /\ UNCHANGED call
  BY DEF Render, RunsOut
<1>2. ui \in UI /\ shown \in Screen /\ call \in [Calls -> Result \cup {NoCall}]
  BY DEF TypeInv
<1>3. r = [ui |-> ui, shown |-> shown, late |-> ui.at \in late]
  BY DEF Snapshot
<1>4. r.ui = ui /\ r.shown = shown /\ r \in [ui : UI, shown : Screen, late : BOOLEAN]
  BY <1>2, <1>3
<1> HIDE DEF r
<1>5. t \in UI /\ t.reveal = ui.reveal
  <2>1. t = ui \/ \E x \in {"success", "failed"} : t = [ui EXCEPT !.popup = Popup(r.ui.at, x)]
    BY DEF Transition
  <2>2. r.ui.at \in Stations \cup {None} /\ {"success", "failed"} \subseteq Outcomes
    BY <1>2, <1>4 DEF UI, Outcomes
  <2>3. \A x \in {"success", "failed"} : [ui EXCEPT !.popup = Popup(r.ui.at, x)] \in UI
    BY <1>2, <2>2, Settings
  <2>4. t \in UI
    BY <1>2, <2>1, <2>3
  <2> QED BY <1>2, <2>1, <2>4 DEF UI
<1> HIDE DEF t
<1>6. d \in UI /\ d.reveal = t.reveal
  <2>1. d = t \/ (r.ui.open # None /\ d = [t EXCEPT !.at = r.ui.open, !.status = r.shown[r.ui.open]])
    BY DEF Display
  <2>2. r.ui.open # None => r.ui.open \in Stations /\ r.shown[r.ui.open] \in Statuses
    BY <1>2, <1>4 DEF UI, Screen
  <2>3. d \in UI
    <3>1. CASE d = t
      BY <1>5, <3>1
    <3>2. CASE r.ui.open # None /\ d = [t EXCEPT !.at = r.ui.open, !.status = r.shown[r.ui.open]]
      <4>1. PICK x \in Stations \cup {None} : x = r.ui.open
        BY <2>2, <3>2
      <4>2. PICK y \in Statuses : y = r.shown[r.ui.open]
        BY <2>2, <3>2
      <4>3. d = [t EXCEPT !.at = x, !.status = y]
        BY <3>2, <4>1, <4>2
      <4>4. [t EXCEPT !.at = x, !.status = y] \in UI
        BY <1>5 DEF UI
      <4> QED BY <4>3, <4>4
    <3> QED BY <2>1, <3>1, <3>2
  <2> QED BY <1>5, <2>1, <2>3 DEF UI
<1> HIDE DEF d
<1>7. u \in UI /\ (u.reveal # None => u.reveal = ui.reveal /\ r.ui.at = rendered.ui.at)
  <2>1. CASE r.ui.at = rendered.ui.at
    BY <1>5, <1>6, <2>1 DEF Reset
  <2>2. CASE r.ui.at # rendered.ui.at
    <3>1. u = [d EXCEPT !.tries = 0, !.solved = FALSE, !.busy = {}, !.reveal = None]
      BY <2>2 DEF Reset
    <3>2. 0 \in 0..Limit
      BY DEF PlayAssumption
    <3> QED BY <1>6, <3>1, <3>2 DEF UI
  <2> QED BY <2>1, <2>2
<1> HIDE DEF u
<1>8. ui' \in UI /\ ui'.reveal = u.reveal
  <2>1. r.ui.at \in Stations \cup {None} /\ "timeout" \in Outcomes
    BY <1>2, <1>4 DEF UI, Outcomes
  <2>2. [u EXCEPT !.popup = Popup(r.ui.at, "timeout")] \in UI
    BY <1>7, <2>1, Settings
  <2> QED BY <1>1, <1>7, <2>2 DEF UI
<1>9. call' \in [Calls -> Result \cup {NoCall}]
  <2>1. CASE ui' = u /\ UNCHANGED call
    BY <1>2, <2>1
  <2>2. CASE r.ui.at # None /\ Fail(Sent("fail", r.ui.at))
    <3>1. r.ui.at \in Stations
      BY <1>2, <1>4, <2>2 DEF UI
    <3>2. Sent("fail", r.ui.at) \in Result
      BY <3>1, SentTyped
    <3> QED BY <2>2, <3>2, FailPosts, Posted
  <2> QED BY <1>1, <2>1, <2>2
<1>10. ui'.reveal # None => rendered'.ui.at # None
  BY <1>1, <1>7, <1>8 DEF TypeInv
<1> QED BY <1>1, <1>4, <1>8, <1>9, <1>10 DEF TypeInv, Screen

-----------------------------------------------------------------------------
\* The network and the server, and what the phone hears.
LEMMA OutcomeTyped ==
  ASSUME TypeInv, NEW r \in Result
  PROVE  /\ Verdict(r) \in Nets
         /\ [server EXCEPT ![r.of] = Outcome(r)] \in Board
<1>1. Verdict(r) \in Nets
  BY DEF Verdict, Nets
<1>2. r.of \in Stations /\ server \in Board /\ server[r.of] \in Rows
  BY DEF TypeInv, Board, Result
<1>3. Outcome(r) \in Rows
  BY <1>2 DEF Outcome, Rows, Statuses, Decided
<1>4. [server EXCEPT ![r.of] = Outcome(r)] \in Board
  BY <1>2, <1>3 DEF Board
<1> QED BY <1>1, <1>4

LEMMA InFlight ==
  ASSUME TypeInv, NEW c \in Calls, call[c].net \in Nets
  PROVE  call[c] \in Result
<1>1. NoCall.net = None /\ None \notin Nets
  BY DEF NoCall, None, Nets
<1> QED BY <1>1 DEF TypeInv

LEMMA NetTyped ==
  ASSUME TypeInv, NEW c \in Calls, call[c] \in Result, NEW x \in Nets, call' = [call EXCEPT ![c].net = x]
  PROVE  call' \in [Calls -> Result \cup {NoCall}]
<1>1. [call[c] EXCEPT !.net = x] \in Result
  BY DEF Result
<1> QED BY <1>1 DEF TypeInv

LEMMA ServeTyped ==
  ASSUME TypeInv, NEW c \in Calls, Serve(c)
  PROVE  TypeInv'
<1>1. /\ call[c].net = "out" /\ server' = [server EXCEPT ![call[c].of] = Outcome(call[c])]
      /\ \E x \in {Verdict(call[c]), "lost", "refused"} : call' = [call EXCEPT ![c].net = x]
      /\ UNCHANGED <<kind, late, shown, ui, rendered, queue>>
  BY DEF Serve
<1>2. call[c] \in Result
  BY <1>1, InFlight DEF Nets
<1>3. Verdict(call[c]) \in Nets /\ {"lost", "refused"} \subseteq Nets /\ server' \in Board
  BY <1>1, <1>2, OutcomeTyped DEF Nets
<1>4. call' \in [Calls -> Result \cup {NoCall}]
  BY <1>1, <1>2, <1>3, NetTyped
<1> QED BY <1>1, <1>3, <1>4 DEF TypeInv

LEMMA NotServedTyped ==
  ASSUME TypeInv, NEW c \in Calls, NotServed(c)
  PROVE  TypeInv'
<1>1. /\ call[c].net = "out" /\ \E x \in {"lost", "refused"} : call' = [call EXCEPT ![c].net = x]
      /\ UNCHANGED <<kind, server, late, shown, ui, rendered, queue>>
  BY DEF NotServed
<1>2. call[c] \in Result /\ {"lost", "refused"} \subseteq Nets
  BY <1>1, InFlight DEF Nets
<1>3. call' \in [Calls -> Result \cup {NoCall}]
  BY <1>1, <1>2, NetTyped
<1> QED BY <1>1, <1>3 DEF TypeInv

LEMMA EndTyped ==
  ASSUME TypeInv, NEW c \in Calls, call' = [call EXCEPT ![c] = NoCall]
  PROVE  call' \in [Calls -> Result \cup {NoCall}]
  BY DEF TypeInv

LEMMA HearCompleteTyped ==
  ASSUME TypeInv, NEW c \in Calls, HearComplete(c)
  PROVE  TypeInv'
<1> DEFINE r == call[c]
           f == Freed(ui, r)
           passed == [f EXCEPT !.popup = Popup(r.of, "success")]
<1>1. /\ r.net \in Nets /\ call' = [call EXCEPT ![c] = NoCall]
      /\ shown' \in {shown, Applied(shown, r)} /\ ui' \in {f, passed}
      /\ UNCHANGED <<kind, server, late, rendered, queue>>
  BY DEF HearComplete
<1>2. r \in Result
  BY <1>1, InFlight
<1>3. shown \in Screen /\ ui \in UI
  BY DEF TypeInv
<1>4. shown' \in Screen
  BY <1>1, <1>2, <1>3, AppliedTyped
<1>5. f \in UI /\ f.reveal = ui.reveal
  <2>1. ui.busy \ {r.of} \in SUBSET Stations
    BY <1>3 DEF UI
  <2>2. f \in UI
    BY <1>3, <2>1, Settings DEF Freed
  <2> QED BY <1>3, <2>2 DEF Freed, UI
<1>6. passed \in UI /\ passed.reveal = ui.reveal
  <2> HIDE DEF f
  <2>1. r.of \in Stations \cup {None} /\ "success" \in Outcomes
    BY <1>2 DEF Result, Outcomes
  <2>2. passed \in UI
    BY <1>5, <2>1, Settings
  <2> QED BY <1>5, <2>2 DEF UI
<1>7. ui' \in UI /\ (ui'.reveal # None => rendered'.ui.at # None)
  <2> HIDE DEF f, passed
  <2> QED BY <1>1, <1>5, <1>6 DEF TypeInv
<1>8. call' \in [Calls -> Result \cup {NoCall}]
  BY <1>1, EndTyped
<1> QED BY <1>1, <1>4, <1>7, <1>8 DEF TypeInv

LEMMA HearFailTyped ==
  ASSUME TypeInv, NEW c \in Calls, HearFail(c)
  PROVE  TypeInv'
<1> DEFINE r == call[c]
           closed == [ui EXCEPT !.open = None]
<1>1. /\ r.net \in Nets /\ call' = [call EXCEPT ![c] = NoCall]
      /\ shown' \in {shown, Applied(shown, r)} /\ ui' \in {ui, closed}
      /\ UNCHANGED <<kind, server, late, rendered, queue>>
  BY DEF HearFail
<1>2. r \in Result
  BY <1>1, InFlight
<1>3. shown \in Screen /\ ui \in UI
  BY DEF TypeInv
<1>4. shown' \in Screen
  BY <1>1, <1>2, <1>3, AppliedTyped
<1>5. closed \in UI /\ closed.reveal = ui.reveal
  <2>1. closed \in UI
    BY <1>3, Settings
  <2> QED BY <1>3, <2>1 DEF UI
<1>6. ui' \in UI /\ (ui'.reveal # None => rendered'.ui.at # None)
  BY <1>1, <1>3, <1>5 DEF TypeInv
<1>7. call' \in [Calls -> Result \cup {NoCall}]
  BY <1>1, EndTyped
<1> QED BY <1>1, <1>4, <1>6, <1>7 DEF TypeInv

LEMMA HearLossTyped ==
  ASSUME TypeInv, NEW c \in Calls, HearLoss(c)
  PROVE  TypeInv'
<1> DEFINE r == call[c]
           kept == [r EXCEPT !.closes = FALSE]
<1>1. /\ r.net = "lost" /\ shown' = Applied(shown, r) /\ queue' = Append(queue, kept)
      /\ call' = [call EXCEPT ![c].net = "saved"]
      /\ UNCHANGED <<kind, server, late, ui, rendered>>
  BY DEF HearLoss, Keep
<1>2. r \in Result /\ "saved" \in Nets
  BY <1>1, InFlight DEF Nets
<1>3. shown' \in Screen
  BY <1>1, <1>2, AppliedTyped DEF TypeInv
<1>4. kept \in Result
  BY <1>2 DEF Result
<1>5. queue' \in Seq(Result)
  <2> HIDE DEF kept
  <2>1. queue \in Seq(Result)
    BY DEF TypeInv
  <2> QED BY <1>1, <1>4, <2>1
<1>6. call' \in [Calls -> Result \cup {NoCall}]
  BY <1>1, <1>2, NetTyped
<1> QED BY <1>1, <1>3, <1>5, <1>6 DEF TypeInv

LEMMA FlushTyped ==
  ASSUME TypeInv, Flush
  PROVE  TypeInv'
<1>1. queue \in Seq(Result) /\ queue # <<>>
  BY DEF TypeInv, Flush
<1>2. Head(queue) \in Result /\ Tail(queue) \in Seq(Result)
  BY <1>1
<1>3. server' \in Board
  BY <1>1, <1>2, OutcomeTyped DEF Flush, TypeInv
<1> QED BY <1>2, <1>3 DEF Flush, TypeInv

\* What the player opens, and what only moves the overlay or the clock.
LEMMA OpenTyped ==
  ASSUME TypeInv, NEW s \in Stations, Open(s)
  PROVE  TypeInv'
<1> DEFINE u == [ui EXCEPT !.open = s]
<1>1. ui \in UI /\ server \in Board /\ shown \in Screen
  BY DEF TypeInv
<1>2. /\ server' \in {server, [server EXCEPT ![s] = "in-progress"]} /\ shown' = [shown EXCEPT ![s] = "in-progress"]
      /\ ui' = u /\ UNCHANGED <<kind, late, rendered, call, queue>>
  BY <1>1 DEF Open, Board
<1>3. u \in UI /\ u.reveal = ui.reveal
  <2>1. u \in UI
    BY <1>1, Settings
  <2> QED BY <1>1, <2>1 DEF UI
<1>4. server' \in Board /\ shown' \in Screen
  BY <1>1, <1>2 DEF Board, Rows, Screen, Statuses
<1> HIDE DEF u
<1> QED BY <1>2, <1>3, <1>4 DEF TypeInv

LEMMA MovesTyped ==
  ASSUME TypeInv, Dismiss \/ Slide
  PROVE  TypeInv'
<1>1. ui \in UI /\ call \in [Calls -> Result \cup {NoCall}]
  BY DEF TypeInv
<1>2. /\ ui' = [ui EXCEPT !.popup = NoPopup, !.open = None] \/ ui' = [ui EXCEPT !.at = None]
      /\ UNCHANGED <<kind, server, late, shown, rendered, call, queue>>
  BY DEF Dismiss, Slide
<1>3. ui' \in UI
  BY <1>1, <1>2, Settings
<1>4. ui'.reveal = ui.reveal
  BY <1>1, <1>2, <1>3 DEF UI
<1> QED BY <1>2, <1>3, <1>4 DEF TypeInv

LEMMA TimeTyped ==
  ASSUME TypeInv, NEW s \in Stations, TimeIsUp(s)
  PROVE  TypeInv'
<1>1. server' \in Board /\ late' \subseteq Stations
  BY DEF TypeInv, TimeIsUp, Board, Rows, Statuses
<1> QED BY <1>1 DEF TypeInv, TimeIsUp

LEMMA TypeStart ==
  ASSUME Init, PlayAssumption
  PROVE  TypeInv
<1>1. shown \in Screen /\ server \in Board
  BY DEF Init, Screen, Board, Rows, Statuses
<1>2. Closed \in UI /\ Closed.reveal = None
  <2>1. 0 \in 0..Limit
    BY DEF PlayAssumption
  <2> QED BY <2>1 DEF Closed, UI, NoPopup, Outcomes, Statuses
<1>3. rendered \in [ui : UI, shown : Screen, late : BOOLEAN]
  BY <1>1, <1>2 DEF Init
<1>4. queue \in Seq(Result) /\ late \subseteq Stations /\ call \in [Calls -> Result \cup {NoCall}]
  BY DEF Init
<1> QED BY <1>1, <1>2, <1>3, <1>4 DEF Init, TypeInv

LEMMA TypeStep ==
  ASSUME TypeInv, PlayAssumption, [Next]_vars
  PROVE  TypeInv'
<1>1. ASSUME NEW s \in Stations, Open(s) \/ TimeIsUp(s) \/ Solve(s) \/ Miss(s) PROVE TypeInv'
  BY <1>1, OpenTyped, TimeTyped, SolveTyped, MissTyped
<1>2. CASE Revealed \/ CloseOverlay \/ Dismiss \/ Slide \/ Render
  BY <1>2, RevealedTyped, CloseTyped, MovesTyped, RenderTyped
<1>3. ASSUME NEW c \in Calls, Serve(c) \/ NotServed(c) \/ HearComplete(c) \/ HearFail(c) \/ HearLoss(c)
      PROVE  TypeInv'
  BY <1>3, ServeTyped, NotServedTyped, HearCompleteTyped, HearFailTyped, HearLossTyped
<1>4. CASE Flush
  BY <1>4, FlushTyped
<1>5. CASE Refresh
  BY <1>5, ReplayedTyped DEF Refresh, TypeInv
<1>6. CASE UNCHANGED vars
  BY <1>6 DEF vars, TypeInv
<1> QED BY <1>1, <1>2, <1>3, <1>4, <1>5, <1>6 DEF Next

\* The screen, the calls and the queue name stations and statuses that exist, the count of
\* wrong answers stays within the limit, and a reveal runs only over a station that was
\* rendered: the controllers that a reveal continues always have a station to answer for.
THEOREM TypeCorrect == Spec => []TypeOK
<1>1. Init => TypeInv
  BY TypeStart, PlayAssumption
<1>2. TypeInv /\ [Next]_vars => TypeInv'
  BY TypeStep, PlayAssumption
<1>3. TypeInv => TypeOK
  BY TypeInvIsTypeOK
<1> QED BY <1>1, <1>2, <1>3, PTL DEF Spec
=============================================================================
