------------------------- MODULE Scenarios_proofs --------------------------
(***************************************************************************)
(* What the requests of a realization leave behind, for any library,       *)
(* templates, realizations, codes, requests and faults.                    *)
(*                                                                         *)
(* OwnInv, whatever overlaps or breaks off: a row never changes hands      *)
(* (Stays), so the ids a handler has read or made name rows that are still *)
(* its realization's, or gone (Mine).                                      *)
(*                                                                         *)
(* LeftInv, while a realization's requests come one after the other: the   *)
(* rows it has at each stage of the handler (Progress), what the codes of  *)
(* its stations can be by then (Given), and that it is Complete and        *)
(* Answered when no handler is at it. A statement leaves the realizations  *)
(* alone that none of the rows it writes belongs to (Same).                *)
(***************************************************************************)
EXTENDS Scenarios, WellFoundedInduction, TLAPS

-----------------------------------------------------------------------------
(* Types, and the keys of the tables.                                      *)

Row == [own : Realizations \cup {None}, tmpl : Nat, code : Codes \cup {None, Random}, live : BOOLEAN]
Plan == [own : Realizations \cup {None}, tmpl : Nat, list : Seq(Nat), live : BOOLEAN]
Draft == [id : Nat, tmpl : Nat, code : Codes \cup {None}]
Seen == [id : Nat, tmpl : Nat, code : Codes \cup {None, Random}]
Job == [op : Ops \cup {None}, at : Stages \cup {"idle"}, rz : Realizations \cup {None}, from : Nat, old : Nat,
        scn : Nat, drafts : Seq(Draft), src : Seq(Row), cur : Seq(Seen), next : Seq(Nat), used : SUBSET Nat]

Tabled ==
  /\ station \in Seq(Row) /\ scenario \in Seq(Plan) /\ realization \in [Realizations -> Nat]
  /\ Len(station) <= MaxStations /\ Len(scenario) <= MaxScenarios
Marked == running \subseteq Realizations /\ touched \subseteq Realizations
Works(j) == j \in Job /\ (j = NoCall \/ (j.op \in Ops /\ j.at \in Stages /\ j.rz \in Realizations))
Called == call = [c \in Calls |-> call[c]] /\ \A c \in Calls : Works(call[c])

Listed ==
  \A n \in DOMAIN scenario :
    /\ IsInjective(scenario[n].list) /\ ToSet(scenario[n].list) \subseteq Live
    /\ ~scenario[n].live => scenario[n].list = <<>>
References == \A r \in Realizations : realization[r] = 0 \/ Exists(realization[r])
CodesApart ==
  \A s, u \in Live : s # u /\ station[s].own # None /\ station[s].own = station[u].own
                       => station[s].code # station[u].code \/ station[s].code \in {None, Random}

\* A row that a call may still write: gone, or of the realization of the call.
Mine(x, r) == x \in Stations /\ (station[x].live => station[x].own = r)
Adopts(j) ==
  /\ \A x \in Ids(j.cur) \cup ToSet(j.next) : Mine(x, j.rz)
  /\ j.old # 0 => j.old \in DOMAIN scenario /\ (scenario[j.old].live => scenario[j.old].own = j.rz)
  /\ j.at \in {"start", "discard", "adopt"} => j.next = <<>>
  /\ j.at = "clone" => j.from \in DOMAIN scenario /\ IsInjective(j.next) /\ \A i \in DOMAIN j.src : j.src[i].own = j.rz /\ j.src[i].live
  /\ j.at \in {"sync", "draft", "replace", "save"} =>
       j.scn \in DOMAIN scenario /\ (scenario[j.scn].live => scenario[j.scn].own = j.rz)

Sound == Listed /\ References /\ CodesApart /\ StationsOwned

OwnInv == Tabled /\ Marked /\ Called /\ Sound /\ \A c \in Calls : Adopts(call[c])

\* What no statement does: give a row to another realization, or bring one back.
Stays ==
  /\ \A x \in Stations : x \in Stations' /\ (station'[x].live => station[x].live /\ station'[x].own = station[x].own)
  /\ \A n \in DOMAIN scenario :
       n \in DOMAIN scenario' /\ (scenario'[n].live => scenario[n].live /\ scenario'[n].own = scenario[n].own)

-----------------------------------------------------------------------------
(* What a realization has while one request works on it, stage by stage.   *)

Plans(r) == {n \in DOMAIN scenario : Exists(n) /\ scenario[n].own = r}
Rows(r) == {s \in Live : station[s].own = r}
InPlan(n) == ToSet(scenario[n].list)

Complete(r) ==
  /\ Plans(r) = {realization[r]} \ {0}
  /\ Rows(r) = IF realization[r] = 0 THEN {} ELSE InPlan(realization[r])

\* The scenario it had is empty, if it had one.
Emptied(r, n) == Plans(r) = {n} \ {0} /\ realization[r] = n /\ (n # 0 => InPlan(n) = {})

\* The scenario that will be saved is beside the one that goes.
Beside(j) ==
  /\ j.scn # 0 /\ j.scn # j.old /\ Plans(j.rz) = {j.scn, j.old} \ {0}
  /\ j.op = "create" => j.old = 0
  /\ realization[j.rz] = IF j.op = "create" THEN 0 ELSE IF j.old = 0 THEN j.scn ELSE j.old

Progress(j) ==
  /\ j.at \in {"start", "discard", "stations"} => Complete(j.rz) /\ realization[j.rz] # 0
  /\ j.at = "start" => j.old = 0
  /\ j.at \in {"discard", "stations"} => j.old = realization[j.rz] /\ Ids(j.cur) = InPlan(j.old)
  /\ j.at = "discard" => j.op = "update"
  /\ j.at = "stations" => j.op = "delete"
  /\ j.at = "adopt" => Emptied(j.rz, j.old) /\ Rows(j.rz) = {}
  /\ j.at = "clone" => Emptied(j.rz, j.old) /\ Rows(j.rz) = ToSet(j.next)
  /\ j.at \in {"adopt", "clone"} => (j.op = "create") = (j.old = 0) /\ j.op # "delete"
  /\ j.at \in {"start", "discard", "adopt", "clone", "sync"} => j.used = {}
  /\ j.at \in {"sync", "draft", "replace", "save"} => Beside(j) /\ j.op # "delete"
  /\ j.at = "sync" => Rows(j.rz) = InPlan(j.scn) /\ j.next = <<>>
  /\ j.at = "draft" => /\ Ids(j.cur) = InPlan(j.scn) /\ Rows(j.rz) = InPlan(j.scn) \cup ToSet(j.next)
                       /\ j.used \subseteq ToSet(j.next) /\ ToSet(j.next) \cap Ids(j.cur) \subseteq j.used
  /\ j.at = "replace" => Rows(j.rz) = ToSet(j.next)
  /\ j.at = "save" => Rows(j.rz) = InPlan(j.scn)
  /\ j.at = "row" => Emptied(j.rz, j.old) /\ j.old # 0 /\ Rows(j.rz) = {} /\ j.op = "delete"
  /\ j.at = "drop" =>
       /\ j.old # 0 /\ j.old # realization[j.rz] /\ Plans(j.rz) = {realization[j.rz], j.old} \ {0}
       /\ Rows(j.rz) = IF realization[j.rz] = 0 THEN {} ELSE InPlan(realization[j.rz])

-----------------------------------------------------------------------------
(* The codes of a save.                                                    *)

\* A draft whose code no other draft asks for, and no other station had at first.
Unrivalled(j, i) ==
  /\ j.drafts[i].code # None
  /\ \A k \in DOMAIN j.drafts : k # i => j.drafts[k].code # j.drafts[i].code
  /\ \A k \in DOMAIN j.cur : j.cur[k].id # j.next[i] => j.cur[k].code # j.drafts[i].code

\* What a station's code can be: the one it had, or one that a draft so far asked for.
Source(j, s) ==
  \/ station[s].code \in {None, Random}
  \/ \E k \in DOMAIN j.cur : j.cur[k].id = s /\ j.cur[k].code = station[s].code
  \/ \E k \in DOMAIN j.next : j.drafts[k].code = station[s].code

Answered(r) == \A x \in asked[r] : station[x[1]].code = x[2] /\ x[1] \in Rows(r)

Latest(l, i) == \A k \in DOMAIN l : k > i => l[k] # l[i]
Given(j) ==
  /\ j.at \in {"draft", "replace", "save"} =>
       /\ Len(j.next) <= Len(j.drafts)
       /\ \A i \in DOMAIN j.next : Unrivalled(j, i) /\ Latest(j.next, i) => station[j.next[i]].code = j.drafts[i].code
  /\ j.at = "draft" => \A s \in Rows(j.rz) : Source(j, s)
  /\ j.at = "save" => IsInjective(j.next) /\ ToSet(j.next) \subseteq InPlan(j.scn)
  /\ j.at \in {"start", "drop"} => Answered(j.rz)

OneEach == \A c, d \in Calls : call[c].rz \in Realizations \ touched /\ call[c].rz = call[d].rz => c = d

AskedAll == asked = [r \in Realizations |-> asked[r]]
LeftInv ==
  /\ AskedAll
  /\ OneEach
  /\ \A r \in Realizations \ touched : ~Busy(r) => Complete(r) /\ Answered(r)
  /\ \A c \in Calls : call[c].rz \in Realizations \ touched => Progress(call[c]) /\ Given(call[c])

-----------------------------------------------------------------------------
(* A fold over a sequence, as a function of the steps it takes.            *)

LEMMA Least ==
  ASSUME NEW S, S \subseteq Nat, S # {}
  PROVE  \E n \in S : \A m \in S : n <= m
<1> DEFINE R == OpToRel(<, Nat)
<1>1. PICK n \in S : \A m \in S : ~(<<m, n>> \in R)
  BY WFMin, NatLessThanWellFounded
<1>2. \A m \in S : ~(m < n)
  BY <1>1 DEF OpToRel
<1> QED BY <1>2

\* A set with 0 and with the successor of every number it has below N has all up to N.
LEMMA UpTo ==
  ASSUME NEW N \in Nat, NEW S, 0 \in S, \A n \in 0..N : n \in S /\ n < N => n + 1 \in S
  PROVE  \A n \in 0..N : n \in S
<1> SUFFICES ASSUME NEW k \in 0..N, k \notin S PROVE FALSE
  OBVIOUS
<1> DEFINE Missing == {n \in 0..N : n \notin S}
<1>0. Missing \subseteq Nat /\ Missing # {}
  OBVIOUS
<1>1. PICK n \in Missing : \A m \in Missing : n <= m
  <2> HIDE DEF Missing
  <2> QED BY <1>0, Least
<1>2. n # 0 /\ n - 1 \in 0..N /\ n - 1 < N
  BY <1>1
<1>3. n - 1 \in S
  BY <1>1, <1>2
<1>4. n - 1 + 1 \in S
  BY <1>2, <1>3
<1> QED BY <1>1, <1>4

Fold(f, A, b, N, g) == f \in [0..N -> A] /\ f[0] = b /\ \A i \in 1..N : f[i] = g[i][f[i - 1]]

LEMMA FoldExists ==
  ASSUME NEW A, NEW b \in A, NEW N \in Nat, NEW g \in [1..N -> [A -> A]]
  PROVE  \E f : Fold(f, A, b, N, g)
<1> DEFINE S == {n \in 0..N : \E f : Fold(f, A, b, n, g)}
<1>1. 0 \in S
  <2> DEFINE first == [i \in 0..0 |-> b]
  <2>1. Fold(first, A, b, 0, g)
    BY DEF Fold
  <2> HIDE DEF first
  <2>2. \E f : Fold(f, A, b, 0, g)
    BY <2>1
  <2> QED BY <2>2
<1>2. \A n \in 0..N : n \in S /\ n < N => n + 1 \in S
  <2> SUFFICES ASSUME NEW n \in 0..N, n \in S, n < N PROVE n + 1 \in S
    OBVIOUS
  <2>1. PICK f : Fold(f, A, b, n, g)
    OBVIOUS
  <2>2. f \in [0..n -> A] /\ f[0] = b /\ f[n] \in A /\ n + 1 \in 1..N /\ n + 1 \in 0..N
    BY <2>1 DEF Fold
  <2>3. g[n + 1][f[n]] \in A
    BY <2>2
  <2> DEFINE last == g[n + 1][f[n]]
             h == [i \in 0..(n + 1) |-> IF i = n + 1 THEN last ELSE f[i]]
  <2> HIDE DEF S
  <2>4. h \in [0..(n + 1) -> A] /\ h[0] = b
    <3>1. 0 \in 0..(n + 1) /\ n + 1 # 0 /\ \A i \in 0..(n + 1) : i = n + 1 \/ i \in 0..n
      OBVIOUS
    <3>2. last \in A
      BY <2>3
    <3> HIDE DEF last
    <3>3. \A i \in 0..(n + 1) : (IF i = n + 1 THEN last ELSE f[i]) \in A
      BY <2>2, <3>1, <3>2
    <3> QED BY <2>2, <3>1, <3>3
  <2>5. \A i \in 1..(n + 1) : h[i] = g[i][h[i - 1]]
    <3> TAKE i \in 1..(n + 1)
    <3>1. CASE i = n + 1
      <4>1. h[i] = last /\ h[i - 1] = f[n]
        BY <3>1
      <4> QED BY <3>1, <4>1
    <3>2. CASE i \in 1..n
      <4>1. f[i] = g[i][f[i - 1]]
        BY <2>1, <3>2 DEF Fold
      <4>2. h[i] = f[i] /\ h[i - 1] = f[i - 1]
        BY <3>2
      <4> QED BY <4>1, <4>2
    <3> QED BY <3>1, <3>2
  <2> HIDE DEF h
  <2>6. \E k : Fold(k, A, b, n + 1, g)
    BY <2>4, <2>5 DEF Fold
  <2> QED BY <2>2, <2>6 DEF S
<1>3. \A n \in 0..N : n \in S
  <2> HIDE DEF S
  <2> QED BY <1>1, <1>2, UpTo, Zenon
<1>4. N \in 0..N
  OBVIOUS
<1> QED BY <1>3, <1>4

\* A sequence with one more element.
LEMMA AppendedSet ==
  ASSUME NEW A, NEW s \in Seq(A), NEW x \in A
  PROVE  Append(s, x) \in Seq(A) /\ ToSet(Append(s, x)) = ToSet(s) \cup {x}
<1>1. PICK n \in Nat : n = Len(s) /\ DOMAIN s = 1..n
  OBVIOUS
<1>2. Append(s, x) \in Seq(A) /\ DOMAIN Append(s, x) = 1..(n + 1)
  BY <1>1
<1>3. 1..(n + 1) = (1..n) \cup {n + 1}
  OBVIOUS
<1>4. \A i \in 1..n : Append(s, x)[i] = s[i]
  BY <1>1
<1>5. Append(s, x)[n + 1] = x
  BY <1>1
<1>6. ToSet(Append(s, x)) = {s[i] : i \in 1..n} \cup {x}
  BY <1>2, <1>3, <1>4, <1>5 DEF ToSet
<1> QED BY <1>1, <1>2, <1>6 DEF ToSet

LEMMA AppendedOnce ==
  ASSUME NEW A, NEW s \in Seq(A), NEW x \in A, IsInjective(s), x \notin ToSet(s)
  PROVE  IsInjective(Append(s, x))
<1>1. PICK n \in Nat : n = Len(s) /\ DOMAIN s = 1..n
  OBVIOUS
<1>2. DOMAIN Append(s, x) = (1..n) \cup {n + 1}
  BY <1>1
<1>3. \A i \in 1..n : Append(s, x)[i] = s[i] /\ s[i] # x
  BY <1>1 DEF ToSet
<1>4. Append(s, x)[n + 1] = x
  BY <1>1
<1>5. \A i, k \in 1..n : s[i] = s[k] => i = k
  BY <1>1 DEF IsInjective
<1> HIDE DEF IsInjective
<1> DEFINE t == Append(s, x)
<1>6. \A i, k \in DOMAIN t : t[i] = t[k] => i = k
  <2> HIDE DEF t
  <2> SUFFICES ASSUME NEW i \in (1..n) \cup {n + 1}, NEW k \in (1..n) \cup {n + 1}, t[i] = t[k] PROVE i = k
    BY <1>2 DEF t
  <2>1. t[n + 1] = x /\ \A m \in 1..n : t[m] = s[m] /\ s[m] # x
    BY <1>3, <1>4 DEF t
  <2> QED BY <1>5, <2>1
<1> QED BY <1>6 DEF IsInjective

\* A list without the rows of S: what stays of a list of numbers is such a list, and has no row twice if it had none.
LEMMA KeptIs ==
  ASSUME NEW list \in Seq(Nat), NEW S
  PROVE  /\ Kept(list, S) \in Seq(Nat)
         /\ ToSet(Kept(list, S)) = ToSet(list) \ S
         /\ IsInjective(list) => IsInjective(Kept(list, S))
<1>1. PICK N \in Nat : N = Len(list)
  OBVIOUS
<1>2. \A i \in 1..N : list[i] \in Nat
  BY <1>1
<1> DEFINE g == [i \in 1..N |-> [s \in Seq(Nat) |-> IF list[i] \in S THEN s ELSE Append(s, list[i])]]
           Body(f) == [i \in 0..Len(list) |->
                         IF i = 0 THEN <<>> ELSE IF list[i] \in S THEN f[i - 1] ELSE Append(f[i - 1], list[i])]
           upto == CHOOSE f : f = Body(f)
<1>3. <<>> \in Seq(Nat)
  OBVIOUS
<1>4. g \in [1..N -> [Seq(Nat) -> Seq(Nat)]]
  <2>1. \A i \in 1..N, s \in Seq(Nat) : Append(s, list[i]) \in Seq(Nat)
    BY <1>2
  <2> QED BY <2>1
<1>5. PICK f : Fold(f, Seq(Nat), <<>>, N, g)
  <2> HIDE DEF g
  <2> QED BY <1>3, <1>4, FoldExists
<1>6. f = Body(f)
  <2>1. f \in [0..N -> Seq(Nat)] /\ f[0] = <<>> /\ \A i \in 1..N : f[i] = g[i][f[i - 1]]
    BY <1>5 DEF Fold
  <2>2. \A i \in 1..N : i - 1 \in 0..N
    OBVIOUS
  <2>3. \A i \in 1..N : f[i - 1] \in Seq(Nat)
    BY <2>1, <2>2
  <2>4. \A i \in 1..N : f[i] = IF list[i] \in S THEN f[i - 1] ELSE Append(f[i - 1], list[i])
    BY <2>1, <2>3
  <2>5. \A i \in 0..N : f[i] = IF i = 0 THEN <<>> ELSE IF list[i] \in S THEN f[i - 1] ELSE Append(f[i - 1], list[i])
    <3> TAKE i \in 0..N
    <3>1. i = 0 \/ i \in 1..N
      OBVIOUS
    <3> QED BY <2>1, <2>4, <3>1
  <2> HIDE DEF g
  <2> QED BY <1>1, <2>1, <2>5
<1>7. upto = Body(upto)
  BY <1>6, Zenon
<1>8. Kept(list, S) = upto[N]
  BY <1>1 DEF Kept
<1>9. upto[0] = <<>>
  <2>1. Body(upto)[0] = <<>>
    BY <1>1
  <2> QED BY <1>7, <2>1, Zenon
<1>10. \A n \in 0..N : n < N => upto[n + 1] = IF list[n + 1] \in S THEN upto[n] ELSE Append(upto[n], list[n + 1])
  <2> SUFFICES ASSUME NEW n \in 0..N, n < N
               PROVE  upto[n + 1] = IF list[n + 1] \in S THEN upto[n] ELSE Append(upto[n], list[n + 1])
    OBVIOUS
  <2> HIDE DEF upto
  <2>1. n + 1 \in 0..N /\ n + 1 # 0 /\ n + 1 - 1 = n
    OBVIOUS
  <2>2. Body(upto)[n + 1] = IF list[n + 1] \in S THEN upto[n] ELSE Append(upto[n], list[n + 1])
    BY <1>1, <2>1
  <2> QED BY <1>7, <2>2, Zenon
<1> HIDE DEF upto
<1> DEFINE First(n) == {list[i] : i \in 1..n}
           Good(n) == /\ upto[n] \in Seq(Nat) /\ ToSet(upto[n]) = First(n) \ S
                      /\ IsInjective(list) => IsInjective(upto[n])
           G == {n \in 0..N : Good(n)}
<1>11. 0 \in G
  <2>1. upto[0] \in Seq(Nat) /\ DOMAIN upto[0] = {} /\ First(0) = {}
    BY <1>9
  <2>2. ToSet(upto[0]) = {} /\ IsInjective(upto[0])
    BY <2>1 DEF ToSet, IsInjective
  <2>3. 0 \in 0..N /\ Good(0)
    BY <2>1, <2>2
  <2> QED BY <2>3
<1>12. \A n \in 0..N : n \in G /\ n < N => n + 1 \in G
  <2> SUFFICES ASSUME NEW n \in 0..N, Good(n), n < N PROVE Good(n + 1)
    OBVIOUS
  <2>1. n + 1 \in 1..N /\ n + 1 \in Nat /\ list[n + 1] \in Nat
    BY <1>2
  <2>2. First(n + 1) = First(n) \cup {list[n + 1]}
    <3>1. 1..(n + 1) = (1..n) \cup {n + 1}
      OBVIOUS
    <3> QED BY <3>1
  <2>3. CASE list[n + 1] \in S
    BY <1>10, <2>2, <2>3
  <2>4. CASE list[n + 1] \notin S
    <3>1. upto[n + 1] = Append(upto[n], list[n + 1])
      BY <1>10, <2>4
    <3>2. upto[n + 1] \in Seq(Nat)
      BY <2>1, <3>1
    <3>3. ToSet(upto[n + 1]) = ToSet(upto[n]) \cup {list[n + 1]}
      BY <2>1, <3>1, AppendedSet
    <3>4. ToSet(upto[n + 1]) = First(n + 1) \ S
      BY <2>2, <2>4, <3>3
    <3>5. ASSUME IsInjective(list) PROVE IsInjective(upto[n + 1])
      <4>1. list[n + 1] \notin First(n)
        <5>1. n + 1 \in DOMAIN list /\ \A i \in 1..n : i \in DOMAIN list /\ i # n + 1
          BY <1>1, <2>1
        <5>2. \A i \in 1..n : list[i] # list[n + 1]
          BY <3>5, <5>1 DEF IsInjective
        <5> QED BY <5>2
      <4>2. list[n + 1] \notin ToSet(upto[n])
        BY <4>1
      <4>3. PICK u, x : u = upto[n] /\ x = list[n + 1]
        OBVIOUS
      <4>4. u \in Seq(Nat) /\ x \in Nat /\ IsInjective(u) /\ x \notin ToSet(u)
        BY <2>1, <3>5, <4>2, <4>3
      <4>5. IsInjective(Append(u, x))
        BY <4>4, AppendedOnce
      <4> QED BY <3>1, <4>3, <4>5
    <3> QED BY <3>2, <3>4, <3>5
  <2> QED BY <2>3, <2>4
<1>13. \A n \in 0..N : n \in G
  <2> HIDE DEF G
  <2> QED BY <1>11, <1>12, UpTo, Zenon
<1>14. Good(N)
  <2>1. N \in 0..N
    OBVIOUS
  <2> QED BY <1>13, <2>1
<1>15. First(N) = ToSet(list)
  BY <1>1 DEF ToSet
<1> QED BY <1>8, <1>14, <1>15

-----------------------------------------------------------------------------
(* The statements, by what they do to the tables.                          *)

LEMMA Names ==
  /\ None \notin Realizations /\ Random \notin Realizations /\ None \notin Codes /\ Random \notin Codes
  /\ {MaxStations, MaxScenarios, MaxRequests, MaxFaults} \subseteq Nat /\ None # Random
  BY ScenariosAssumption DEF None, Random

LEMMA Listing ==
  ASSUME NEW A, NEW n \in Nat, NEW f, f = [i \in 1..n |-> f[i]], \A i \in 1..n : f[i] \in A
  PROVE  f \in Seq(A) /\ Len(f) = n /\ DOMAIN f = 1..n
<1>1. f \in [1..n -> A]
  BY Zenon
<1> QED BY <1>1

\* A free call adopts nothing.
LEMMA Idle == NoCall \in Job /\ Works(NoCall) /\ Adopts(NoCall) /\ Adopts(NoCall)'
<1>1. <<>> \in Seq(Draft) /\ <<>> \in Seq(Row) /\ <<>> \in Seq(Seen) /\ <<>> \in Seq(Nat)
  OBVIOUS
<1>2. NoCall \in Job
  BY <1>1 DEF NoCall, Job, None
<1>3. Ids(NoCall.cur) = {} /\ ToSet(NoCall.next) = {} /\ NoCall.at = "idle" /\ NoCall.next = <<>> /\ NoCall.old = 0
  BY DEF NoCall, Ids, ToSet
<1> QED BY <1>2, <1>3 DEF Works, Adopts

LEMMA StaysAdopts ==
  ASSUME Stays, NEW j, Adopts(j)
  PROVE  Adopts(j)'
<1>1. \A x : Mine(x, j.rz) => Mine(x, j.rz)'
  BY DEF Stays, Mine, Stations
<1>2. \A n \in DOMAIN scenario : (scenario[n].live => scenario[n].own = j.rz)
        => n \in DOMAIN scenario' /\ (scenario'[n].live => scenario'[n].own = j.rz)
  BY DEF Stays
<1>3. \A n \in DOMAIN scenario : n \in DOMAIN scenario'
  BY DEF Stays
<1> QED BY <1>1, <1>2, <1>3 DEF Adopts

\* A call goes on, and the rows it had adopted are still its own.
LEMMA Resumed ==
  ASSUME OwnInv, Stays, Tabled', Marked', Sound', NEW c \in Calls, NEW q, Works(q), Put(c, q), Adopts(q)'
  PROVE  OwnInv'
<1>1. \A d \in Calls : Adopts(call[d])
  BY DEF OwnInv
<1>2. ASSUME NEW d \in Calls PROVE Adopts(call[d])'
  <2>1. PICK v : v = call'[d]
    OBVIOUS
  <2>2. v = q \/ v = call[d]
    BY <2>1 DEF OwnInv, Called, Put
  <2>3. PICK w : w = call[d]
    OBVIOUS
  <2>4. Adopts(w)
    BY <1>1, <2>3
  <2>5. Adopts(w)'
    BY <2>4, StaysAdopts
  <2>6. Adopts(v)'
    <3>1. CASE v = q
      BY <3>1
    <3>2. CASE v = w
      BY <2>5, <3>2
    <3> QED BY <2>2, <2>3, <3>1, <3>2
  <2> QED BY <2>1, <2>6
<1>3. Called'
  BY DEF OwnInv, Called, Put
<1> QED BY <1>2, <1>3 DEF OwnInv

LEMMA Unmoved ==
  ASSUME Tabled, Sound, UNCHANGED tables
  PROVE  Tabled' /\ Sound' /\ Stays
<1>1. station' = station /\ scenario' = scenario /\ realization' = realization
  BY DEF tables
<1>2. Tabled'
  BY <1>1 DEF Tabled
<1>3. Listed' /\ References'
  BY <1>1 DEF Sound, Listed, References, Exists, Live, Stations
<1>4. CodesApart' /\ StationsOwned'
  BY <1>1 DEF Sound, CodesApart, StationsOwned, Live, Stations
<1>5. Stays
  BY <1>1 DEF Stays, Stations
<1> QED BY <1>2, <1>3, <1>4, <1>5 DEF Sound

LEMMA ThrowKeeps ==
  ASSUME OwnInv, UNCHANGED <<tables, running>>, NEW c \in Calls, call[c] # NoCall, Throw(c)
  PROVE  OwnInv'
<1>1. call[c].rz \in Realizations
  BY DEF OwnInv, Called, Works
<1>2. Marked'
  BY <1>1 DEF OwnInv, Marked, Throw
<1> QED BY <1>2, Idle, Unmoved, Resumed DEF OwnInv, Throw

LEMMA NothingListed ==
  ASSUME NEW A, NEW s \in Seq(A), ToSet(s) = {}
  PROVE  s = <<>>
<1>1. PICK n \in Nat : n = Len(s) /\ DOMAIN s = 1..n
  OBVIOUS
<1>2. n = 0
  <2> SUFFICES ASSUME n # 0 PROVE FALSE
    OBVIOUS
  <2>1. 1 \in DOMAIN s
    BY <1>1
  <2>2. s[1] \in ToSet(s)
    BY <2>1 DEF ToSet
  <2> QED BY <2>2
<1> QED BY <1>1, <1>2

\* Rows that go leave the lists of the scenarios.
LEMMA Dropped ==
  ASSUME Tabled, Sound, NEW S, Without(S), UNCHANGED realization
  PROVE  /\ Tabled' /\ Sound' /\ Stays
         /\ Stations' = Stations /\ Live' = Live \ S /\ DOMAIN scenario' = DOMAIN scenario
         /\ \A s \in Live' : station'[s].own = station[s].own /\ station'[s].code = station[s].code
         /\ \A n \in DOMAIN scenario :
              /\ scenario'[n].own = scenario[n].own /\ scenario'[n].live = scenario[n].live /\ scenario'[n].tmpl = scenario[n].tmpl
              /\ ToSet(scenario'[n].list) = ToSet(scenario[n].list) \ S
<1>1. PICK N \in Nat : N = Len(station) /\ Stations = 1..N
  BY DEF Tabled, Stations
<1>2. PICK M \in Nat : M = Len(scenario) /\ DOMAIN scenario = 1..M
  BY DEF Tabled
<1>3. /\ \A s \in 1..N : station[s] \in Row
      /\ \A n \in 1..M : scenario[n] \in Plan
  BY <1>1, <1>2 DEF Tabled
<1>4. /\ station' = [s \in 1..N |-> station'[s]]
      /\ \A s \in 1..N : station'[s] = IF s \in S THEN NoStation
                                       ELSE IF station[s].tmpl \in S THEN [station[s] EXCEPT !.tmpl = 0] ELSE station[s]
  BY <1>1 DEF Without
<1>5. ASSUME NEW s \in 1..N
      PROVE  /\ station'[s] \in Row
             /\ s \in S => ~station'[s].live
             /\ s \notin S => /\ station'[s].own = station[s].own /\ station'[s].code = station[s].code
                              /\ station'[s].live = station[s].live
  <2>1. NoStation \in Row /\ ~NoStation.live
    BY DEF NoStation, Row
  <2>2. /\ [station[s] EXCEPT !.tmpl = 0] \in Row
        /\ LET q == [station[s] EXCEPT !.tmpl = 0] IN q.own = station[s].own /\ q.code = station[s].code /\ q.live = station[s].live
    BY <1>3 DEF Row
  <2> QED BY <1>3, <1>4, <2>1, <2>2
<1>6. /\ scenario' = [n \in 1..M |-> scenario'[n]]
      /\ \A n \in 1..M : scenario'[n] = [scenario[n] EXCEPT !.list = Kept(scenario[n].list, S)]
  BY <1>2 DEF Without
<1>7. ASSUME NEW n \in 1..M
      PROVE  /\ scenario'[n] \in Plan
             /\ scenario'[n].own = scenario[n].own /\ scenario'[n].live = scenario[n].live /\ scenario'[n].tmpl = scenario[n].tmpl
             /\ ToSet(scenario'[n].list) = ToSet(scenario[n].list) \ S
             /\ IsInjective(scenario[n].list) => IsInjective(scenario'[n].list)
  <2>1. PICK k : k = Kept(scenario[n].list, S)
    OBVIOUS
  <2>2. scenario[n].list \in Seq(Nat)
    BY <1>3 DEF Plan
  <2>3. /\ k \in Seq(Nat) /\ ToSet(k) = ToSet(scenario[n].list) \ S
        /\ IsInjective(scenario[n].list) => IsInjective(k)
    BY <2>1, <2>2, KeptIs
  <2>4. scenario'[n] = [scenario[n] EXCEPT !.list = k]
    BY <1>6, <2>1
  <2>5. /\ scenario'[n] \in Plan /\ scenario'[n].list = k
        /\ scenario'[n].own = scenario[n].own /\ scenario'[n].live = scenario[n].live /\ scenario'[n].tmpl = scenario[n].tmpl
    BY <1>3, <2>3, <2>4 DEF Plan
  <2> QED BY <2>3, <2>5
<1>8. station' \in Seq(Row) /\ Len(station') = N /\ DOMAIN station' = 1..N
  BY <1>4, <1>5, Listing
<1>9. scenario' \in Seq(Plan) /\ Len(scenario') = M /\ DOMAIN scenario' = 1..M
  BY <1>6, <1>7, Listing
<1>10. Tabled'
  BY <1>1, <1>2, <1>8, <1>9 DEF Tabled
<1>11. Stations' = Stations /\ Live' = Live \ S
  BY <1>1, <1>5, <1>8 DEF Live, Stations
<1>12. \A s \in Live' : s \in Live /\ station'[s].own = station[s].own /\ station'[s].code = station[s].code
  BY <1>1, <1>5, <1>11 DEF Live
<1>13. Listed'
  <2> SUFFICES ASSUME NEW n \in 1..M
               PROVE  /\ IsInjective(scenario'[n].list) /\ ToSet(scenario'[n].list) \subseteq Live'
                      /\ ~scenario'[n].live => scenario'[n].list = <<>>
    BY <1>9 DEF Listed
  <2>1. IsInjective(scenario[n].list) /\ ToSet(scenario[n].list) \subseteq Live /\ (~scenario[n].live => scenario[n].list = <<>>)
    BY <1>2 DEF Sound, Listed
  <2>2. scenario[n].list = <<>> => scenario'[n].list = <<>>
    <3> SUFFICES ASSUME scenario[n].list = <<>> PROVE scenario'[n].list = <<>>
      OBVIOUS
    <3>1. ToSet(scenario[n].list) = {}
      BY DEF ToSet
    <3>2. ToSet(scenario'[n].list) = {}
      BY <1>7, <3>1
    <3>3. scenario'[n].list \in Seq(Nat)
      BY <1>7 DEF Plan
    <3> QED BY <3>2, <3>3, NothingListed
  <2> QED BY <1>7, <1>11, <2>1, <2>2
<1>14. References'
  BY <1>2, <1>7, <1>9 DEF Sound, References, Exists
<1>15. CodesApart'
  BY <1>12 DEF Sound, CodesApart
<1>16. StationsOwned'
  <2>1. ASSUME NEW n \in 1..M, scenario'[n].live, NEW i \in DOMAIN scenario'[n].list
        PROVE  station'[scenario'[n].list[i]].own = scenario'[n].own
    <3>1. PICK x : x = scenario'[n].list[i]
      OBVIOUS
    <3>2. x \in ToSet(scenario'[n].list) /\ x \in Live'
      BY <1>9, <1>13, <2>1, <3>1 DEF ToSet, Listed
    <3>3. PICK k \in DOMAIN scenario[n].list : x = scenario[n].list[k]
      BY <1>7, <3>2 DEF ToSet
    <3>4. station[x].own = scenario[n].own
      BY <1>2, <1>7, <2>1, <3>3 DEF Sound, StationsOwned
    <3> QED BY <1>7, <1>12, <3>1, <3>2, <3>4
  <2>2. \A r \in Realizations : realization'[r] # 0 => scenario'[realization'[r]].own = r
    BY <1>2, <1>7 DEF Sound, StationsOwned, References, Exists
  <2> QED BY <1>9, <2>1, <2>2 DEF StationsOwned
<1>17. Stays
  BY <1>1, <1>2, <1>5, <1>7, <1>8, <1>9, <1>11 DEF Stays
<1> QED BY <1>2, <1>7, <1>9, <1>10, <1>11, <1>12, <1>13, <1>14, <1>15, <1>16, <1>17 DEF Sound

\* A row that is made, with a code that no other row of its realization has.
LEMMA Added ==
  ASSUME Tabled, Sound, NEW s \in Row, s.live, UNCHANGED <<scenario, realization>>, Len(station) < MaxStations,
         station' = Append(station, s),
         \A u \in Live : station[u].own = s.own /\ s.own # None => station[u].code # s.code \/ s.code \in {None, Random}
  PROVE  /\ Tabled' /\ Sound' /\ Stays
         /\ Len(station) + 1 \notin Stations /\ Live' = Live \cup {Len(station) + 1} /\ station'[Len(station) + 1] = s
         /\ \A u \in Stations : station'[u] = station[u]
<1>1. PICK N \in Nat : N = Len(station) /\ Stations = 1..N
  BY DEF Tabled, Stations
<1>2. Len(station') = N + 1 /\ DOMAIN station' = 1..(N + 1) /\ station' \in Seq(Row)
  BY <1>1 DEF Tabled
<1>3. /\ station'[N + 1] = s /\ \A u \in 1..N : station'[u] = station[u]
      /\ Stations' = Stations \cup {N + 1} /\ N + 1 \notin Stations
  <2>1. 1..(N + 1) = (1..N) \cup {N + 1} /\ N + 1 \notin 1..N
    OBVIOUS
  <2> QED BY <1>1, <1>2, <2>1 DEF Tabled, Stations
<1>4. Live' = Live \cup {N + 1} /\ N + 1 \notin Live /\ Live \subseteq 1..N
  BY <1>1, <1>3 DEF Live
<1>5. Tabled'
  BY <1>1, <1>2, Names DEF Tabled
<1>6. Listed'
  BY <1>4 DEF Sound, Listed
<1>7. References'
  BY DEF Sound, References, Exists
<1>8. CodesApart'
  <2>1. ASSUME NEW v \in Live', NEW u \in Live', v # u, station'[v].own # None, station'[v].own = station'[u].own
        PROVE  station'[v].code # station'[u].code \/ station'[v].code \in {None, Random}
    <3>1. CASE v = N + 1
      BY <1>3, <1>4, <2>1, <3>1
    <3>2. CASE u = N + 1
      BY <1>3, <1>4, <2>1, <3>2
    <3>3. CASE v # N + 1 /\ u # N + 1
      <4>1. v \in Live /\ u \in Live /\ station'[v] = station[v] /\ station'[u] = station[u]
        BY <1>3, <1>4, <3>3
      <4> QED BY <2>1, <4>1 DEF Sound, CodesApart
    <3> QED BY <3>1, <3>2, <3>3
  <2> QED BY <2>1 DEF CodesApart
<1>9. StationsOwned'
  <2>1. ASSUME NEW n \in DOMAIN scenario, scenario[n].live, NEW i \in DOMAIN scenario[n].list
        PROVE  station'[scenario[n].list[i]].own = scenario[n].own
    <3>1. scenario[n].list[i] \in Live
      BY DEF Sound, Listed, ToSet
    <3>2. station[scenario[n].list[i]].own = scenario[n].own
      BY <2>1 DEF Sound, StationsOwned
    <3> QED BY <1>3, <1>4, <3>1, <3>2
  <2> QED BY <2>1 DEF Sound, StationsOwned
<1>10. Stays
  BY <1>1, <1>3 DEF Stays
<1> QED BY <1>1, <1>3, <1>4, <1>5, <1>6, <1>7, <1>8, <1>9, <1>10 DEF Sound

\* w is the row of s with the code k.
Recodes(w, s, k) == w.own = station[s].own /\ w.live = station[s].live /\ w.code = k
LEMMA Recoded ==
  ASSUME Tabled, Sound, NEW s \in Live, NEW k \in Codes \cup {None, Random}, UNCHANGED <<scenario, realization>>,
         NEW w \in Row, Recodes(w, s, k), station' = [station EXCEPT ![s] = w],
         \A u \in Live \ {s} : station[u].own = station[s].own /\ station[s].own # None
                                 => station[u].code # k \/ k \in {None, Random}
  PROVE  /\ Tabled' /\ Sound' /\ Stays /\ Live' = Live /\ Stations' = Stations
         /\ station'[s].code = k
         /\ \A u \in Stations : station'[u].own = station[u].own /\ (u # s => station'[u].code = station[u].code)
<1>1. PICK N \in Nat : N = Len(station) /\ Stations = 1..N
  BY DEF Tabled, Stations
<1>2. /\ station' = [u \in 1..N |-> station'[u]] /\ \A u \in 1..N \ {s} : station'[u] = station[u]
      /\ station'[s] = w /\ s \in 1..N
  BY <1>1 DEF Tabled, Live, Stations
<1>3. \A u \in 1..N : station[u] \in Row
  BY <1>1 DEF Tabled
<1>4. /\ station'[s] \in Row /\ station'[s].own = station[s].own /\ station'[s].code = k /\ station'[s].live = station[s].live
  BY <1>2 DEF Recodes
<1>5. \A u \in 1..N : station'[u] \in Row /\ station'[u].own = station[u].own /\ station'[u].live = station[u].live
  BY <1>2, <1>3, <1>4
<1>6. station' \in Seq(Row) /\ Len(station') = N /\ DOMAIN station' = 1..N
  <2>1. PICK t : t = station'
    OBVIOUS
  <2>2. t = [u \in 1..N |-> t[u]] /\ \A u \in 1..N : t[u] \in Row
    BY <1>2, <1>5, <2>1
  <2>3. t \in Seq(Row) /\ Len(t) = N /\ DOMAIN t = 1..N
    BY <2>2, Listing
  <2> QED BY <2>1, <2>3
<1>7. Stations' = Stations /\ Live' = Live /\ Live \subseteq 1..N
  BY <1>1, <1>5, <1>6 DEF Live, Stations
<1>8. Tabled'
  BY <1>1, <1>6 DEF Tabled
<1>9. Listed' /\ References'
  BY <1>7 DEF Sound, Listed, References, Exists
<1>10. CodesApart'
  <2>1. ASSUME NEW v \in Live, NEW u \in Live, v # u, station[v].own # None, station[v].own = station[u].own
        PROVE  station'[v].code # station'[u].code \/ station'[v].code \in {None, Random}
    <3>1. CASE v = s
      BY <1>2, <1>4, <1>7, <2>1, <3>1
    <3>2. CASE u = s
      BY <1>2, <1>4, <1>7, <2>1, <3>2
    <3>3. CASE v # s /\ u # s
      BY <1>2, <1>7, <2>1, <3>3 DEF Sound, CodesApart
    <3> QED BY <3>1, <3>2, <3>3
  <2>2. Live' = Live /\ \A v \in Live : station'[v].own = station[v].own
    BY <1>5, <1>7
  <2>3. \A v, u \in Live : v # u /\ station'[v].own # None /\ station'[v].own = station'[u].own
                           => station'[v].code # station'[u].code \/ station'[v].code \in {None, Random}
    BY <2>1, <2>2
  <2> QED BY <2>2, <2>3 DEF CodesApart
<1>11. StationsOwned'
  <2>1. ASSUME NEW n \in DOMAIN scenario, scenario[n].live, NEW i \in DOMAIN scenario[n].list
        PROVE  station'[scenario[n].list[i]].own = scenario[n].own
    <3>1. scenario[n].list[i] \in Live
      BY DEF Sound, Listed, ToSet
    <3> QED BY <1>5, <1>7, <2>1, <3>1 DEF Sound, StationsOwned
  <2> QED BY <2>1 DEF Sound, StationsOwned
<1>12. Stays
  BY <1>1, <1>5, <1>7 DEF Stays
<1> QED BY <1>1, <1>2, <1>4, <1>5, <1>7, <1>8, <1>9, <1>10, <1>11, <1>12 DEF Sound

\* A scenario that is made, with rows of its own.
LEMMA Planned ==
  ASSUME Tabled, Sound, NEW p \in Plan, p.live, UNCHANGED <<station, realization>>, Len(scenario) < MaxScenarios,
         scenario' = Append(scenario, p),
         IsInjective(p.list), ToSet(p.list) \subseteq Live, \A x \in ToSet(p.list) : station[x].own = p.own
  PROVE  /\ Tabled' /\ Sound' /\ Stays /\ Live' = Live
         /\ Len(scenario) + 1 \notin DOMAIN scenario /\ DOMAIN scenario' = DOMAIN scenario \cup {Len(scenario) + 1}
         /\ scenario'[Len(scenario) + 1] = p /\ \A n \in DOMAIN scenario : scenario'[n] = scenario[n]
<1>1. PICK M \in Nat : M = Len(scenario) /\ DOMAIN scenario = 1..M
  BY DEF Tabled
<1>2. Len(scenario') = M + 1 /\ DOMAIN scenario' = 1..(M + 1) /\ scenario' \in Seq(Plan)
  BY <1>1 DEF Tabled
<1>3. /\ scenario'[M + 1] = p /\ \A n \in 1..M : scenario'[n] = scenario[n]
      /\ DOMAIN scenario' = (1..M) \cup {M + 1} /\ M + 1 \notin 1..M /\ M + 1 # 0
  <2>1. 1..(M + 1) = (1..M) \cup {M + 1} /\ M + 1 \notin 1..M
    OBVIOUS
  <2> QED BY <1>1, <1>2, <2>1 DEF Tabled
<1>4. Tabled'
  BY <1>1, <1>2, Names DEF Tabled
<1>5. Live' = Live /\ Stations' = Stations
  BY DEF Live, Stations
<1>6. Listed'
  <2> SUFFICES ASSUME NEW n \in (1..M) \cup {M + 1}
               PROVE  /\ IsInjective(scenario'[n].list) /\ ToSet(scenario'[n].list) \subseteq Live
                      /\ ~scenario'[n].live => scenario'[n].list = <<>>
    BY <1>3, <1>5 DEF Listed
  <2> QED BY <1>1, <1>3 DEF Sound, Listed
<1>7. References'
  BY <1>1, <1>3 DEF Sound, References, Exists
<1>8. CodesApart'
  BY <1>5 DEF Sound, CodesApart
<1>9. StationsOwned'
  <2>1. ASSUME NEW n \in (1..M) \cup {M + 1}, scenario'[n].live, NEW i \in DOMAIN scenario'[n].list
        PROVE  station[scenario'[n].list[i]].own = scenario'[n].own
    <3>1. CASE n = M + 1
      BY <1>3, <3>1 DEF ToSet
    <3>2. CASE n \in 1..M
      BY <1>1, <1>3, <2>1, <3>2 DEF Sound, StationsOwned
    <3> QED BY <3>1, <3>2
  <2>2. \A r \in Realizations : realization[r] # 0 => scenario'[realization[r]].own = r
    BY <1>1, <1>3 DEF Sound, StationsOwned, References, Exists
  <2>3. \A n \in DOMAIN scenario' : \A i \in DOMAIN scenario'[n].list :
           scenario'[n].live => station'[scenario'[n].list[i]].own = scenario'[n].own
    BY <1>3, <2>1
  <2>4. UNCHANGED realization
    OBVIOUS
  <2>5. \A r \in Realizations : realization'[r] # 0 => scenario'[realization'[r]].own = r
    BY <2>2, <2>4
  <2> QED BY <2>3, <2>5, Zenon DEF StationsOwned
<1>10. Stays
  BY <1>1, <1>3, <1>5 DEF Stays
<1> QED BY <1>1, <1>3, <1>4, <1>5, <1>6, <1>7, <1>8, <1>9, <1>10 DEF Sound

\* A scenario that lists other rows of its realization.
LEMMA Relisted ==
  ASSUME Tabled, Sound, NEW m, Exists(m), NEW l \in Seq(Nat), UNCHANGED <<station, realization>>,
         scenario' = [scenario EXCEPT ![m].list = l],
         IsInjective(l), ToSet(l) \subseteq Live, \A x \in ToSet(l) : station[x].own = scenario[m].own
  PROVE  /\ Tabled' /\ Sound' /\ Stays /\ Live' = Live /\ DOMAIN scenario' = DOMAIN scenario /\ scenario'[m].list = l
         /\ \A n \in DOMAIN scenario : /\ scenario'[n].own = scenario[n].own /\ scenario'[n].live = scenario[n].live
                                       /\ n # m => scenario'[n].list = scenario[n].list
<1>1. PICK M \in Nat : M = Len(scenario) /\ DOMAIN scenario = 1..M
  BY DEF Tabled
<1>2. m \in 1..M /\ scenario[m].live /\ \A n \in 1..M : scenario[n] \in Plan
  BY <1>1 DEF Exists, Tabled
<1>3. PICK t : t = scenario'
  OBVIOUS
<1>4. /\ t = [n \in 1..M |-> t[n]] /\ \A n \in 1..M \ {m} : t[n] = scenario[n]
      /\ t[m] = [scenario[m] EXCEPT !.list = l]
  BY <1>1, <1>2, <1>3 DEF Tabled
<1>5. t[m] \in Plan /\ t[m].own = scenario[m].own /\ t[m].live = scenario[m].live /\ t[m].list = l
  <2>1. PICK h \in Plan : h = scenario[m]
    BY <1>2
  <2>2. t[m] = [h EXCEPT !.list = l]
    BY <1>4, <2>1
  <2> QED BY <2>1, <2>2 DEF Plan
<1>6. \A n \in 1..M : t[n] \in Plan /\ t[n].own = scenario[n].own /\ t[n].live = scenario[n].live
  BY <1>2, <1>4, <1>5
<1>7. t \in Seq(Plan) /\ Len(t) = M /\ DOMAIN t = 1..M
  <2>1. \A n \in 1..M : t[n] \in Plan
    BY <1>6
  <2> QED BY <1>4, <2>1, Listing
<1>8. Tabled'
  BY <1>1, <1>3, <1>7 DEF Tabled
<1>9. Live' = Live /\ Stations' = Stations
  BY DEF Live, Stations
<1>10. Listed'
  <2> SUFFICES ASSUME NEW n \in 1..M
               PROVE  /\ IsInjective(t[n].list) /\ ToSet(t[n].list) \subseteq Live
                      /\ ~t[n].live => t[n].list = <<>>
    BY <1>3, <1>7, <1>9 DEF Listed
  <2> QED BY <1>1, <1>2, <1>4, <1>5 DEF Sound, Listed
<1>11. References'
  BY <1>1, <1>3, <1>6, <1>7 DEF Sound, References, Exists
<1>12. CodesApart'
  BY <1>9 DEF Sound, CodesApart
<1>13. StationsOwned'
  <2>1. ASSUME NEW n \in 1..M, t[n].live, NEW i \in DOMAIN t[n].list
        PROVE  station[t[n].list[i]].own = t[n].own
    <3>1. CASE n = m
      BY <1>5, <3>1 DEF ToSet
    <3>2. CASE n # m
      BY <1>1, <1>4, <2>1, <3>2 DEF Sound, StationsOwned
    <3> QED BY <3>1, <3>2
  <2>2. \A r \in Realizations : realization[r] # 0 => t[realization[r]].own = r
    BY <1>1, <1>6 DEF Sound, StationsOwned, References, Exists
  <2> QED BY <1>3, <1>7, <2>1, <2>2 DEF StationsOwned
<1>14. Stays
  BY <1>1, <1>3, <1>6, <1>7, <1>9 DEF Stays
<1> QED BY <1>1, <1>2, <1>3, <1>4, <1>5, <1>6, <1>7, <1>8, <1>9, <1>10, <1>11, <1>12, <1>13, <1>14 DEF Sound

\* A realization that gets a scenario of its own, or goes.
LEMMA Saved ==
  ASSUME Tabled, Sound, NEW r \in Realizations, NEW n \in Nat, UNCHANGED <<station, scenario>>,
         n = 0 \/ (Exists(n) /\ scenario[n].own = r), realization' = [realization EXCEPT ![r] = n]
  PROVE  Tabled' /\ Sound' /\ Stays /\ Live' = Live
<1>1. /\ realization' \in [Realizations -> Nat] /\ realization'[r] = n
      /\ \A u \in Realizations \ {r} : realization'[u] = realization[u]
  BY DEF Tabled
<1>2. Tabled' /\ Live' = Live /\ Stations' = Stations
  BY <1>1 DEF Tabled, Live, Stations
<1>3. Listed' /\ CodesApart'
  BY <1>2 DEF Sound, Listed, CodesApart
<1>4. References' /\ StationsOwned'
  BY <1>1 DEF Sound, References, StationsOwned, Exists
<1>5. Stays
  BY <1>2 DEF Stays
<1> QED BY <1>2, <1>3, <1>4, <1>5 DEF Sound

\* A scenario that goes, when no realization has it.
LEMMA Gone ==
  ASSUME Tabled, Sound, NEW m, Exists(m), ~Referenced(m), Removed(m), UNCHANGED <<station, realization>>
  PROVE  /\ Tabled' /\ Sound' /\ Stays /\ Live' = Live /\ DOMAIN scenario' = DOMAIN scenario /\ ~scenario'[m].live
         /\ \A n \in DOMAIN scenario \ {m} : /\ scenario'[n].own = scenario[n].own /\ scenario'[n].live = scenario[n].live
                                             /\ scenario'[n].list = scenario[n].list
<1>1. PICK M \in Nat : M = Len(scenario) /\ DOMAIN scenario = 1..M
  BY DEF Tabled
<1>2. m \in 1..M /\ \A n \in 1..M : scenario[n] \in Plan
  BY <1>1 DEF Exists, Tabled
<1>3. PICK t : t = scenario'
  OBVIOUS
<1>4. /\ t = [n \in 1..M |-> t[n]] /\ t[m] = NoScenario
      /\ \A n \in 1..M \ {m} : t[n] = IF scenario[n].tmpl = m THEN [scenario[n] EXCEPT !.tmpl = 0] ELSE scenario[n]
  BY <1>1, <1>2, <1>3 DEF Removed
<1>5. NoScenario \in Plan /\ ~NoScenario.live /\ NoScenario.list = <<>>
  <2>1. <<>> \in Seq(Nat)
    OBVIOUS
  <2> QED BY <2>1 DEF NoScenario, Plan
<1>6. ASSUME NEW n \in 1..M, n # m
      PROVE  t[n] \in Plan /\ t[n].own = scenario[n].own /\ t[n].live = scenario[n].live /\ t[n].list = scenario[n].list
  <2>1. LET q == [scenario[n] EXCEPT !.tmpl = 0]
        IN q \in Plan /\ q.own = scenario[n].own /\ q.live = scenario[n].live /\ q.list = scenario[n].list
    BY <1>2 DEF Plan
  <2> QED BY <1>2, <1>4, <1>6, <2>1
<1>7. t \in Seq(Plan) /\ Len(t) = M /\ DOMAIN t = 1..M
  <2>1. \A n \in 1..M : t[n] \in Plan
    BY <1>4, <1>5, <1>6
  <2> QED BY <1>4, <2>1, Listing
<1>8. Tabled'
  BY <1>1, <1>3, <1>7 DEF Tabled
<1>9. Live' = Live /\ Stations' = Stations
  BY DEF Live, Stations
<1>10. Listed'
  <2>1. IsInjective(<<>>) /\ ToSet(<<>>) = {}
    BY DEF IsInjective, ToSet
  <2> SUFFICES ASSUME NEW n \in 1..M
               PROVE  /\ IsInjective(t[n].list) /\ ToSet(t[n].list) \subseteq Live
                      /\ ~t[n].live => t[n].list = <<>>
    BY <1>3, <1>7, <1>9 DEF Listed
  <2>2. CASE n = m
    BY <1>4, <1>5, <2>1, <2>2
  <2>3. CASE n # m
    BY <1>1, <1>6, <2>3 DEF Sound, Listed
  <2> QED BY <2>2, <2>3
<1>11. \A r \in Realizations : realization[r] # m
  BY DEF Referenced
<1>12. References'
  BY <1>1, <1>3, <1>6, <1>7, <1>11 DEF Sound, References, Exists
<1>13. CodesApart'
  BY <1>9 DEF Sound, CodesApart
<1>14. StationsOwned'
  <2>1. ASSUME NEW n \in 1..M, t[n].live, NEW i \in DOMAIN t[n].list
        PROVE  station[t[n].list[i]].own = t[n].own
    <3>1. n # m
      BY <1>4, <1>5, <2>1
    <3> QED BY <1>1, <1>6, <2>1, <3>1 DEF Sound, StationsOwned
  <2>2. \A r \in Realizations : realization[r] # 0 => t[realization[r]].own = r
    BY <1>1, <1>6, <1>11 DEF Sound, StationsOwned, References, Exists
  <2> QED BY <1>3, <1>7, <2>1, <2>2 DEF StationsOwned
<1>15. Stays
  BY <1>1, <1>3, <1>4, <1>5, <1>6, <1>7, <1>9 DEF Stays
<1> QED BY <1>1, <1>2, <1>3, <1>4, <1>5, <1>6, <1>7, <1>8, <1>9, <1>10, <1>12, <1>13, <1>14, <1>15 DEF Sound

-----------------------------------------------------------------------------
(* What the handlers read and compute.                                     *)

LEMMA CodeForIs ==
  ASSUME NEW w \in Codes \cup {None, Random}, NEW k \in Codes \cup {None, Random}, NEW r, NEW s,
         NEW v, v = CodeFor(w, k, r, s)
  PROVE  /\ v \in Codes \cup {None, Random}
         /\ w = None => v = k
         /\ w # None => v \in {w, Random} /\ \A u \in Live \ {s} : station[u].own = r => station[u].code # v \/ v = Random
         /\ (w # None /\ \A u \in Live \ {s} : station[u].own = r => station[u].code # w) => v = w
  BY DEF CodeFor

LEMMA LiveRows ==
  ASSUME Tabled
  PROVE  Live \subseteq Stations /\ Stations \subseteq Nat /\ 0 \notin Stations /\ \A u \in Stations : station[u] \in Row
  BY DEF Tabled, Live, Stations

LEMMA ReadIs ==
  ASSUME Tabled, NEW list \in Seq(Nat), ToSet(list) \subseteq Live, NEW seen, seen = Read(list)
  PROVE  /\ seen \in Seq(Seen) /\ Ids(seen) = ToSet(list) /\ DOMAIN seen = DOMAIN list
         /\ \A i \in DOMAIN list : seen[i].id = list[i] /\ seen[i].code = station[list[i]].code
<1>1. PICK n \in Nat : n = Len(list) /\ DOMAIN list = 1..n
  OBVIOUS
<1>2. ASSUME NEW i \in 1..n
      PROVE  /\ seen[i] = [id |-> list[i], tmpl |-> station[list[i]].tmpl, code |-> station[list[i]].code]
             /\ list[i] \in Live /\ seen[i] \in Seen /\ seen[i].id = list[i] /\ seen[i].code = station[list[i]].code
  <2>1. list[i] \in Live /\ list[i] \in Nat
    BY <1>1 DEF ToSet
  <2>2. station[list[i]] \in Row
    BY <2>1, LiveRows
  <2>3. seen[i] = [id |-> list[i], tmpl |-> station[list[i]].tmpl, code |-> station[list[i]].code]
    BY <1>1 DEF Read
  <2> QED BY <2>1, <2>2, <2>3 DEF Seen, Row
<1>3. seen = [i \in 1..n |-> seen[i]] /\ \A i \in 1..n : seen[i] \in Seen
  BY <1>1, <1>2 DEF Read
<1>4. seen \in Seq(Seen) /\ DOMAIN seen = 1..n
  <2>1. seen \in [1..n -> Seen]
    BY <1>3, Zenon
  <2> QED BY <2>1
<1>5. Ids(seen) = ToSet(list)
  BY <1>1, <1>2, <1>4 DEF Ids, ToSet
<1> QED BY <1>1, <1>2, <1>4, <1>5

\* A handler that has begun works for a realization.
LEMMA AtWork ==
  ASSUME Called, NEW c \in Calls, call[c].at # "idle" \/ call[c].op # None
  PROVE  call[c] \in Job /\ call[c] # NoCall /\ call[c].rz \in Realizations /\ call[c].op \in Ops /\ call[c].at \in Stages
  BY DEF Called, Works, NoCall

LEMMA ListOf ==
  ASSUME Tabled, Sound, NEW n \in DOMAIN scenario
  PROVE  /\ n \in Nat \ {0} /\ scenario[n] \in Plan /\ scenario[n].list \in Seq(Nat) /\ ToSet(scenario[n].list) \subseteq Live
         /\ scenario[n].live => \A x \in ToSet(scenario[n].list) : station[x].own = scenario[n].own
<1>1. n \in Nat \ {0} /\ scenario[n] \in Plan
  BY DEF Tabled
<1> QED BY <1>1 DEF Sound, Listed, StationsOwned, Plan, ToSet

LEMMA ScenarioOf ==
  ASSUME Tabled, Sound, NEW r \in Realizations, realization[r] # 0
  PROVE  /\ realization[r] \in DOMAIN scenario /\ Exists(realization[r]) /\ scenario[realization[r]].own = r
         /\ scenario[realization[r]].live
  BY DEF Sound, References, StationsOwned, Exists

\* A row that is its realization's is adopted.
LEMMA OwnIsMine ==
  ASSUME Tabled, Sound, NEW n \in DOMAIN scenario, NEW r, scenario[n].live => scenario[n].own = r
  PROVE  \A x \in ToSet(scenario[n].list) : Mine(x, r)
<1>1. CASE scenario[n].live
  BY <1>1, ListOf, LiveRows DEF Mine
<1>2. CASE ~scenario[n].live
  BY <1>2 DEF Sound, Listed, ToSet
<1> QED BY <1>1, <1>2

\* The drafts of a form.
LEMMA FormsTyped ==
  ASSUME Tabled, Sound, NEW r \in Realizations, NEW n \in DOMAIN scenario, NEW f \in Forms(r, n)
  PROVE  f \in Seq(Draft)
<1>1. \A s \in Shown(r, n) : s \in Nat /\ station[s].tmpl \in Nat
  <2>1. ToSet(scenario[n].list) \subseteq Live
    BY ListOf
  <2>2. realization[r] # 0 => ToSet(scenario[realization[r]].list) \subseteq Live
    BY ListOf, ScenarioOf
  <2>3. Shown(r, n) \subseteq Live
    BY <2>1, <2>2 DEF Shown
  <2>4. \A s \in Live : s \in Nat /\ station[s] \in Row
    BY LiveRows
  <2> QED BY <2>3, <2>4 DEF Row
<1> DEFINE drafts == {[id |-> s, tmpl |-> station[s].tmpl, code |-> k] : s \in Shown(r, n), k \in Codes \cup {None}}
                     \cup [id : {0}, tmpl : {0}, code : Codes]
<1>2. drafts \subseteq Draft
  <2>1. \A s \in Shown(r, n) : s \in Nat /\ station[s].tmpl \in Nat
    BY <1>1
  <2>2. {[id |-> s, tmpl |-> station[s].tmpl, code |-> k] : s \in Shown(r, n), k \in Codes \cup {None}} \subseteq Draft
    BY <2>1 DEF Draft
  <2>3. [id : {0}, tmpl : {0}, code : Codes] \subseteq Draft
    BY DEF Draft
  <2> QED BY <2>2, <2>3
<1>3. f \in SeqOf(drafts, 2)
  BY DEF Forms
<1> HIDE DEF drafts
<1>4. PICK m \in 0..2 : f \in [1..m -> drafts]
  BY <1>3 DEF SeqOf
<1>5. m \in Nat /\ f \in [1..m -> Draft]
  BY <1>2, <1>4
<1> QED BY <1>5

-----------------------------------------------------------------------------
(* The handlers.                                                           *)

\* A request is received.
LEMMA Received ==
  ASSUME OwnInv, UNCHANGED <<tables, running>>, Marked', NEW c \in Calls, NEW q, Put(c, q), Works(q),
         q.cur = <<>>, q.next = <<>>, q.old = 0, q.at \in {"start", "adopt"}
  PROVE  OwnInv'
<1>1. Ids(q.cur) = {} /\ ToSet(q.next) = {}
  BY DEF Ids, ToSet
<1>2. Adopts(q)'
  BY <1>1 DEF Adopts
<1> QED BY <1>2, Unmoved, Resumed DEF OwnInv

New(o, a, r, n, f) == [NoCall EXCEPT !.op = o, !.at = a, !.rz = r, !.from = n, !.drafts = f]

LEMMA NewCall ==
  ASSUME NEW o \in Ops, NEW a \in Stages, NEW r \in Realizations, NEW n \in Nat, NEW f \in Seq(Draft), NEW q,
         q = New(o, a, r, n, f)
  PROVE  /\ Works(q) /\ q.op = o /\ q.at = a /\ q.rz = r /\ q.from = n /\ q.old = 0 /\ q.scn = 0 /\ q.drafts = f
         /\ q.src = <<>> /\ q.cur = <<>> /\ q.next = <<>> /\ q.used = {}
<1> DEFINE e == <<>>
           p == [op |-> o, at |-> a, rz |-> r, from |-> n, old |-> 0, scn |-> 0, drafts |-> f,
                 src |-> e, cur |-> e, next |-> e, used |-> {}]
<1>1. q = p
  BY DEF NoCall, New
<1>2. e \in Seq(Row) /\ e \in Seq(Seen) /\ e \in Seq(Nat)
  OBVIOUS
<1> HIDE DEF e
<1>3. p \in Job
  <2>1. o \in Ops \cup {None} /\ a \in Stages \cup {"idle"} /\ r \in Realizations \cup {None}
    OBVIOUS
  <2> QED BY <1>2, <2>1 DEF Job
<1>4. /\ p.op = o /\ p.at = a /\ p.rz = r /\ p.from = n /\ p.old = 0 /\ p.scn = 0 /\ p.drafts = f
      /\ p.src = e /\ p.cur = e /\ p.next = e /\ p.used = {}
  OBVIOUS
<1> HIDE DEF p
<1>5. Works(p)
  BY <1>3, <1>4 DEF Works
<1> QED BY <1>1, <1>4, <1>5 DEF e

LEMMA OwnCreate ==
  ASSUME OwnInv, NEW c \in Calls, NEW r \in Realizations, NEW n \in Nat, NEW f \in Seq(Draft), Create(c, r, n, f)
  PROVE  OwnInv'
<1>1. PICK q : q = New("create", "adopt", r, n, f)
  OBVIOUS
<1>0. "create" \in Ops /\ "adopt" \in Stages
  BY DEF Ops, Stages
<1>2. Works(q) /\ q.cur = <<>> /\ q.next = <<>> /\ q.old = 0 /\ q.at = "adopt"
  BY <1>0, <1>1, NewCall
<1> QED BY <1>1, <1>2, Received DEF Create, OwnInv, Marked, New

LEMMA OwnUpdate ==
  ASSUME OwnInv, NEW c \in Calls, NEW r \in Realizations, NEW n \in Nat, NEW f \in Seq(Draft), Update(c, r, n, f)
  PROVE  OwnInv'
<1>1. PICK q : q = New("update", "start", r, n, f)
  OBVIOUS
<1>0. "update" \in Ops /\ "start" \in Stages
  BY DEF Ops, Stages
<1>2. Works(q) /\ q.cur = <<>> /\ q.next = <<>> /\ q.old = 0 /\ q.at = "start"
  BY <1>0, <1>1, NewCall
<1> QED BY <1>1, <1>2, Received DEF Update, OwnInv, Marked, Touch, New

LEMMA NewDelete ==
  ASSUME NEW r \in Realizations, NEW q, q = [NoCall EXCEPT !.op = "delete", !.at = "start", !.rz = r]
  PROVE  q = New("delete", "start", r, 0, <<>>)
<1>1. q = [op |-> "delete", at |-> "start", rz |-> r, from |-> 0, old |-> 0, scn |-> 0, drafts |-> <<>>,
           src |-> <<>>, cur |-> <<>>, next |-> <<>>, used |-> {}]
  BY DEF NoCall
<1>2. PICK p : p = New("delete", "start", r, 0, <<>>)
  OBVIOUS
<1>3. p = [op |-> "delete", at |-> "start", rz |-> r, from |-> 0, old |-> 0, scn |-> 0, drafts |-> <<>>,
           src |-> <<>>, cur |-> <<>>, next |-> <<>>, used |-> {}]
  BY <1>2 DEF NoCall, New
<1> QED BY <1>1, <1>2, <1>3

LEMMA OwnDelete ==
  ASSUME OwnInv, NEW c \in Calls, NEW r \in Realizations, Delete(c, r)
  PROVE  OwnInv'
<1>1. 0 \in Nat /\ <<>> \in Seq(Draft) /\ "delete" \in Ops /\ "start" \in Stages
  BY DEF Ops, Stages
<1>2. PICK e : e = <<>>
  OBVIOUS
<1>3. PICK q : q = [NoCall EXCEPT !.op = "delete", !.at = "start", !.rz = r]
  OBVIOUS
<1>4. q = New("delete", "start", r, 0, e)
  BY <1>2, <1>3, NewDelete
<1>5. Works(q) /\ q.cur = <<>> /\ q.next = <<>> /\ q.old = 0 /\ q.at = "start"
  <2>1. e \in Seq(Draft)
    BY <1>1, <1>2
  <2> QED BY <1>1, <1>4, <2>1, NewCall
<1> QED BY <1>3, <1>5, Received DEF Delete, OwnInv, Marked, Touch

\* A handler goes on with rows that were its realization's before the statement.
LEMMA Continued ==
  ASSUME OwnInv, Stays, Tabled', Sound', UNCHANGED <<running, touched>>, NEW c \in Calls, NEW q, Works(q), Put(c, q), Adopts(q)
  PROVE  OwnInv'
<1>1. Adopts(q)'
  BY StaysAdopts
<1>2. Marked'
  BY DEF OwnInv, Marked
<1> QED BY <1>1, <1>2, Resumed

LEMMA OnlyRead ==
  ASSUME OwnInv, UNCHANGED <<tables, running, touched>>, NEW c \in Calls, NEW q, Works(q), Put(c, q), Adopts(q)
  PROVE  OwnInv'
<1>1. Tabled' /\ Sound' /\ Stays
  BY Unmoved DEF OwnInv
<1> QED BY <1>1, Continued

\* A handler ends.
LEMMA Finished ==
  ASSUME OwnInv, Stays, Tabled', Sound', Marked', NEW c \in Calls, Put(c, NoCall)
  PROVE  OwnInv'
  BY Idle, Resumed

LEMMA OwnStartUpdate == ASSUME OwnInv, NEW c \in Calls, StartUpdate(c) PROVE OwnInv'
<1>1. PICK r : r = call[c]
  OBVIOUS
<1>2. r.op = "update" /\ r.at = "start" /\ UNCHANGED <<tables, running>>
  BY <1>1 DEF StartUpdate
<1>3. r \in Job /\ r # NoCall /\ r.rz \in Realizations /\ r.op \in Ops /\ Adopts(r)
  BY <1>1, <1>2, AtWork DEF OwnInv
<1>4. PICK now \in Nat : now = realization[r.rz]
  BY <1>3 DEF OwnInv, Tabled
<1>5. CASE now = 0 \/ ~Exists(r.from)
  BY <1>1, <1>2, <1>3, <1>4, <1>5, ThrowKeeps DEF StartUpdate
<1>6. CASE ~(now = 0 \/ ~Exists(r.from))
  <2>1. now \in DOMAIN scenario /\ scenario[now].own = r.rz /\ Tabled /\ Sound
    BY <1>3, <1>4, <1>6, ScenarioOf DEF OwnInv
  <2>2. touched' = touched /\ Put(c, IF r.from = now \/ scenario[now].tmpl = r.from THEN [r EXCEPT !.at = "sync", !.scn = now]
                                     ELSE IF scenario[now].own = r.rz
                                     THEN [r EXCEPT !.at = "discard", !.old = now, !.cur = Read(scenario[now].list)]
                                     ELSE [r EXCEPT !.at = "adopt"])
    BY <1>1, <1>4, <1>6 DEF StartUpdate
  <2>3. CASE r.from = now \/ scenario[now].tmpl = r.from
    <3>1. PICK q : q = [r EXCEPT !.at = "sync", !.scn = now]
      OBVIOUS
    <3>2. /\ q \in Job /\ q.op = r.op /\ q.at = "sync" /\ q.rz = r.rz /\ q.old = r.old /\ q.scn = now /\ q.cur = r.cur /\ q.next = r.next
      BY <1>3, <1>4, <3>1 DEF Job, Stages
    <3>3. Works(q)
      BY <1>3, <3>2 DEF Works, Stages
    <3>4. Adopts(q)
      BY <1>3, <2>1, <3>2 DEF Adopts
    <3> QED BY <1>2, <2>2, <2>3, <3>1, <3>3, <3>4, OnlyRead
  <2>4. CASE ~(r.from = now \/ scenario[now].tmpl = r.from)
    <3>1. PICK seen : seen = Read(scenario[now].list)
      OBVIOUS
    <3>2. seen \in Seq(Seen) /\ Ids(seen) = ToSet(scenario[now].list)
      BY <2>1, <3>1, ListOf, ReadIs
    <3>3. PICK q : q = [r EXCEPT !.at = "discard", !.old = now, !.cur = seen]
      OBVIOUS
    <3>4. q \in Job /\ q.op = r.op /\ q.at = "discard" /\ q.rz = r.rz /\ q.old = now /\ q.cur = seen /\ q.next = r.next
      BY <1>3, <1>4, <3>2, <3>3 DEF Job, Stages
    <3>5. Works(q)
      BY <1>3, <3>4 DEF Works, Stages
    <3>6. Adopts(q)
      BY <1>2, <1>3, <2>1, <3>2, <3>4, OwnIsMine DEF Adopts
    <3>7. Put(c, q)
      BY <2>1, <2>2, <2>4, <3>1, <3>3
    <3> QED BY <1>2, <2>2, <3>5, <3>6, <3>7, OnlyRead
  <2> QED BY <2>3, <2>4
<1> QED BY <1>5, <1>6

LEMMA OwnDiscard == ASSUME OwnInv, NEW c \in Calls, Discard(c) PROVE OwnInv'
<1>1. PICK r : r = call[c]
  OBVIOUS
<1>2. r.at = "discard" /\ Without(Ids(r.cur)) /\ Put(c, [r EXCEPT !.at = "adopt", !.cur = <<>>])
      /\ UNCHANGED <<realization, running, touched>>
  BY <1>1 DEF Discard
<1>3. r \in Job /\ r.rz \in Realizations /\ r.op \in Ops /\ Adopts(r)
  BY <1>1, <1>2, AtWork DEF OwnInv
<1>4. Tabled' /\ Sound' /\ Stays
  BY <1>2, Dropped DEF OwnInv
<1>5. PICK e : e = <<>>
  OBVIOUS
<1>6. e \in Seq(Seen) /\ Ids(e) = {}
  BY <1>5 DEF Ids
<1>7. PICK q : q = [r EXCEPT !.at = "adopt", !.cur = e]
  OBVIOUS
<1>8. q \in Job /\ q.op = r.op /\ q.at = "adopt" /\ q.rz = r.rz /\ q.old = r.old /\ q.cur = e /\ q.next = r.next
  BY <1>3, <1>6, <1>7 DEF Job, Stages
<1>9. Works(q)
  BY <1>3, <1>8 DEF Works, Stages
<1>10. Adopts(q)
  BY <1>2, <1>3, <1>6, <1>8 DEF Adopts
<1> QED BY <1>2, <1>4, <1>5, <1>7, <1>9, <1>10, Continued

LEMMA SourceIs ==
  ASSUME Tabled, Sound, NEW n, Exists(n), NEW r \in Realizations, NEW src, src = Copies(n, r)
  PROVE  src \in Seq(Row) /\ \A i \in DOMAIN src : src[i].own = r /\ src[i].live
<1>1. PICK list \in Seq(Nat) : list = scenario[n].list /\ ToSet(list) \subseteq Live
  BY ListOf DEF Exists
<1>2. PICK m \in Nat : m = Len(list) /\ DOMAIN list = 1..m
  OBVIOUS
<1>3. ASSUME NEW i \in 1..m
      PROVE  src[i] \in Row /\ src[i].own = r /\ src[i].live
  <2>1. list[i] \in Live
    BY <1>1, <1>2 DEF ToSet
  <2>2. PICK s \in Row : s = station[list[i]] /\ s.live
    BY <2>1, LiveRows DEF Live
  <2>3. PICK t \in Nat : t = IF s.tmpl = 0 THEN list[i] ELSE s.tmpl
    BY <1>1, <1>2, <2>2 DEF Row
  <2>4. src[i] = [s EXCEPT !.own = r, !.tmpl = t]
    BY <1>1, <1>2, <2>2, <2>3 DEF Copies
  <2> QED BY <2>2, <2>3, <2>4 DEF Row
<1>4. src = [i \in 1..m |-> src[i]] /\ \A i \in 1..m : src[i] \in Row
  BY <1>1, <1>2, <1>3 DEF Copies
<1>5. src \in Seq(Row) /\ DOMAIN src = 1..m
  <2>1. src \in [1..m -> Row]
    BY <1>4, Zenon
  <2> QED BY <2>1
<1> QED BY <1>3, <1>5

LEMMA OwnReadSource == ASSUME OwnInv, NEW c \in Calls, ReadSource(c) PROVE OwnInv'
<1>1. PICK r : r = call[c]
  OBVIOUS
<1>2. r.at = "adopt" /\ UNCHANGED <<tables, running>>
  BY <1>1 DEF ReadSource
<1>3. r \in Job /\ r # NoCall /\ r.rz \in Realizations /\ r.op \in Ops /\ Adopts(r)
  BY <1>1, <1>2, AtWork DEF OwnInv
<1>4. CASE ~Exists(r.from)
  BY <1>1, <1>2, <1>3, <1>4, ThrowKeeps DEF ReadSource
<1>5. CASE Exists(r.from)
  <2>1. PICK src : src = Copies(r.from, r.rz)
    OBVIOUS
  <2>2. src \in Seq(Row) /\ \A i \in DOMAIN src : src[i].own = r.rz /\ src[i].live
    BY <1>3, <1>5, <2>1, SourceIs DEF OwnInv
  <2>3. PICK q : q = [r EXCEPT !.at = "clone", !.src = src]
    OBVIOUS
  <2>4. q \in Job /\ q.op = r.op /\ q.at = "clone" /\ q.rz = r.rz /\ q.from = r.from /\ q.old = r.old /\ q.cur = r.cur /\ q.next = r.next /\ q.src = src
    BY <1>3, <2>2, <2>3 DEF Job, Stages
  <2>5. Works(q)
    BY <1>3, <2>4 DEF Works, Stages
  <2>6. IsInjective(<<>>)
    BY DEF IsInjective
  <2>7. Adopts(q)
    BY <1>2, <1>3, <1>5, <2>2, <2>4, <2>6 DEF Adopts, Exists
  <2>8. Put(c, q) /\ touched' = touched
    BY <1>1, <1>5, <2>1, <2>3 DEF ReadSource
  <2> QED BY <1>2, <2>5, <2>7, <2>8, OnlyRead
<1> QED BY <1>4, <1>5

LEMMA NothingLong ==
  ASSUME NEW A, NEW s \in Seq(A), Len(s) = 0
  PROVE  s = <<>>
  OBVIOUS

LEMMA HeadTail ==
  ASSUME NEW A, NEW s \in Seq(A), s # <<>>
  PROVE  /\ Head(s) \in A /\ Head(s) = s[1] /\ 1 \in DOMAIN s /\ Tail(s) \in Seq(A)
         /\ \A i \in DOMAIN Tail(s) : i + 1 \in DOMAIN s /\ Tail(s)[i] = s[i + 1]
<1>1. PICK n \in Nat : n = Len(s) /\ DOMAIN s = 1..n /\ n # 0
  BY NothingLong
<1>2. Tail(s) \in Seq(A) /\ Len(Tail(s)) = n - 1 /\ DOMAIN Tail(s) = 1..(n - 1)
  BY <1>1
<1>3. \A i \in 1..(n - 1) : i + 1 \in 1..n /\ Tail(s)[i] = s[i + 1]
  BY <1>1
<1> QED BY <1>1, <1>2, <1>3

\* The next row of the clone, as it is made.
Clones(c, r, s, k, q) ==
  /\ s.own = r.rz /\ s.live /\ s.code = k /\ k = CodeFor(Head(r.src).code, None, r.rz, 0)
  /\ station' = Append(station, s) /\ Len(station) < MaxStations
  /\ q = [r EXCEPT !.src = Tail(@), !.next = Append(@, Len(station) + 1)]
  /\ q.op = r.op /\ q.at = "clone" /\ q.rz = r.rz /\ q.from = r.from /\ q.old = r.old /\ q.scn = r.scn /\ q.cur = r.cur
  /\ q.drafts = r.drafts /\ q.used = r.used
  /\ q.next = Append(r.next, Len(station) + 1) /\ q.src = Tail(r.src) /\ Works(q)
  /\ Put(c, q) /\ UNCHANGED <<scenario, realization, running, touched, asked>>

LEMMA CloneIs ==
  ASSUME OwnInv, NEW c \in Calls, CloneStation(c), NEW r, r = call[c]
  PROVE  \/ UNCHANGED <<tables, running, asked>> /\ Throw(c)
         \/ \E s \in Row, k \in Codes \cup {None, Random}, q \in Job : Clones(c, r, s, k, q)
<1>0. CASE ~Refers(Head(r.src).tmpl)
  BY <1>0 DEF CloneStation, tables
<1> SUFFICES ASSUME Refers(Head(r.src).tmpl)
             PROVE  \E s \in Row, k \in Codes \cup {None, Random}, q \in Job : Clones(c, r, s, k, q)
  BY <1>0
<1>1. r.at = "clone" /\ r.src # <<>> /\ Len(station) < MaxStations
      /\ station' = Append(station, [Head(r.src) EXCEPT !.code = CodeFor(Head(r.src).code, None, r.rz, 0)])
      /\ Put(c, [r EXCEPT !.src = Tail(@), !.next = Append(@, Len(station) + 1)])
      /\ UNCHANGED <<scenario, realization, running, touched, asked>>
  BY DEF CloneStation
<1>2. r \in Job /\ r.rz \in Realizations /\ r.op \in Ops /\ Adopts(r) /\ r.src \in Seq(Row) /\ r.next \in Seq(Nat)
  <2>1. r \in Job /\ r.rz \in Realizations /\ r.op \in Ops /\ Adopts(r)
    BY <1>1, AtWork DEF OwnInv
  <2> QED BY <2>1 DEF Job
<1>3. PICK h \in Row : h = Head(r.src) /\ h.own = r.rz /\ h.live
  BY <1>1, <1>2, HeadTail DEF Adopts
<1>4. PICK k : k = CodeFor(h.code, None, r.rz, 0)
  OBVIOUS
<1>5. k \in Codes \cup {None, Random}
  <2>1. h.code \in Codes \cup {None, Random}
    BY DEF Row
  <2>2. PICK w, rz : w = h.code /\ rz = r.rz
    OBVIOUS
  <2>3. w \in Codes \cup {None, Random} /\ None \in Codes \cup {None, Random} /\ k = CodeFor(w, None, rz, 0)
    BY <1>4, <2>1, <2>2
  <2> QED BY <2>3, CodeForIs
<1>6. PICK s : s = [h EXCEPT !.code = k]
  OBVIOUS
<1>7. s \in Row /\ s.own = r.rz /\ s.live /\ s.code = k
  BY <1>3, <1>5, <1>6 DEF Row
<1>8. PICK x \in Nat : x = Len(station) + 1
  BY DEF OwnInv, Tabled
<1>9. PICK t \in Seq(Row), l \in Seq(Nat) : t = Tail(r.src) /\ l = Append(r.next, x)
  <2>1. Tail(r.src) \in Seq(Row)
    BY <1>1, <1>2, HeadTail
  <2>2. Append(r.next, x) \in Seq(Nat)
    BY <1>2
  <2> QED BY <2>1, <2>2
<1>10. PICK q : q = [r EXCEPT !.src = t, !.next = l]
  OBVIOUS
<1>11. /\ q \in Job /\ q.op = r.op /\ q.at = r.at /\ q.rz = r.rz /\ q.from = r.from /\ q.old = r.old /\ q.scn = r.scn /\ q.cur = r.cur
       /\ q.drafts = r.drafts /\ q.used = r.used /\ q.next = l /\ q.src = t
  BY <1>2, <1>10 DEF Job
<1>12. Works(q)
  BY <1>1, <1>2, <1>11 DEF Works, Stages
<1>13. station' = Append(station, s)
  BY <1>1, <1>3, <1>4, <1>6
<1>14. q = [r EXCEPT !.src = Tail(@), !.next = Append(@, Len(station) + 1)]
  BY <1>8, <1>9, <1>10
<1>15. q.next = Append(r.next, Len(station) + 1) /\ q.src = Tail(r.src)
  BY <1>8, <1>9, <1>11
<1>16. k = CodeFor(Head(r.src).code, None, r.rz, 0)
  BY <1>3, <1>4
<1>17. Put(c, q)
  BY <1>1, <1>14
<1> HIDE DEF Put
<1>18. Clones(c, r, s, k, q)
  BY <1>1, <1>7, <1>11, <1>12, <1>13, <1>14, <1>15, <1>16, <1>17 DEF Clones
<1> QED BY <1>5, <1>7, <1>11, <1>18

\* What a row that is made may have for a code.
LEMMA CodeIsFree ==
  ASSUME NEW w \in Codes \cup {None, Random}, NEW r, NEW k, k = CodeFor(w, None, r, 0), Tabled
  PROVE  \A u \in Live : station[u].own = r /\ r # None => station[u].code # k \/ k \in {None, Random}
<1>1. 0 \notin Live
  BY LiveRows
<1> QED BY <1>1, CodeForIs

LEMMA OwnCloneStation == ASSUME OwnInv, NEW c \in Calls, CloneStation(c) PROVE OwnInv'
<1>1. PICK r : r = call[c]
  OBVIOUS
<1>3. r.at = "clone" /\ r.src # <<>>
  BY <1>1 DEF CloneStation
<1>14. CASE UNCHANGED <<tables, running, asked>> /\ Throw(c)
  BY <1>1, <1>3, <1>14, AtWork, ThrowKeeps DEF OwnInv
<1> SUFFICES ASSUME ~(UNCHANGED <<tables, running, asked>> /\ Throw(c)) PROVE OwnInv'
  BY <1>14
<1>2. PICK s \in Row, k \in Codes \cup {None, Random}, q \in Job : Clones(c, r, s, k, q)
  BY <1>1, CloneIs
<1>4. r \in Job /\ Adopts(r) /\ r.src \in Seq(Row) /\ r.next \in Seq(Nat)
  <2>1. r \in Job /\ Adopts(r)
    BY <1>1, <1>3, AtWork DEF OwnInv
  <2> QED BY <2>1 DEF Job
<1>5. Head(r.src).code \in Codes \cup {None, Random}
  <2>1. Head(r.src) \in Row
    BY <1>3, <1>4, HeadTail
  <2> QED BY <2>1 DEF Row
<1>6. PICK x \in Nat : x = Len(station) + 1
  BY DEF OwnInv, Tabled
<1>7. /\ Tabled' /\ Sound' /\ Stays
      /\ x \notin Stations /\ Live' = Live \cup {x} /\ station'[x] = s
  <2>1. \A u \in Live : station[u].own = s.own /\ s.own # None => station[u].code # s.code \/ s.code \in {None, Random}
    <3>1. k = CodeFor(Head(r.src).code, None, r.rz, 0) /\ s.own = r.rz /\ s.code = k
      BY <1>2 DEF Clones
    <3>2. \A u \in Live : station[u].own = r.rz /\ r.rz # None => station[u].code # k \/ k \in {None, Random}
      BY <1>5, <3>1, CodeIsFree DEF OwnInv
    <3> QED BY <3>1, <3>2
  <2> QED BY <1>2, <1>6, <2>1, Added DEF OwnInv, Clones
<1>8. Adopts(r)'
  BY <1>4, <1>7, StaysAdopts
<1>9. q.next \in Seq(Nat) /\ ToSet(q.next) = ToSet(r.next) \cup {x} /\ IsInjective(q.next)
  <2>1. x \notin ToSet(r.next)
    BY <1>4, <1>7 DEF Adopts, Mine
  <2>2. IsInjective(r.next)
    BY <1>3, <1>4 DEF Adopts
  <2> QED BY <1>2, <1>4, <1>6, <2>1, <2>2, AppendedSet, AppendedOnce DEF Clones
<1>10. \A i \in DOMAIN q.src : q.src[i].own = q.rz /\ q.src[i].live
  BY <1>2, <1>3, <1>4, HeadTail DEF Adopts, Clones
<1>11. Mine(x, q.rz)'
  BY <1>2, <1>7 DEF Mine, Live, Clones
<1>12. Adopts(q)'
  BY <1>2, <1>3, <1>8, <1>9, <1>10, <1>11 DEF Adopts, Clones
<1>13. Marked'
  BY <1>2 DEF OwnInv, Marked, Clones
<1> QED BY <1>2, <1>7, <1>12, <1>13, Resumed DEF Clones

\* The scenario with the rows that were made for it.
LEMMA OwnAddScenario == ASSUME OwnInv, NEW c \in Calls, AddScenario(c) PROVE OwnInv'
<1>1. PICK r : r = call[c]
  OBVIOUS
<1>2. r.at = "clone" /\ Len(scenario) < MaxScenarios /\ UNCHANGED <<station, realization, running>>
  BY <1>1 DEF AddScenario
<1>3. r \in Job /\ r # NoCall /\ r.rz \in Realizations /\ r.op \in Ops /\ Adopts(r) /\ r.next \in Seq(Nat)
  <2>1. r \in Job /\ r # NoCall /\ r.rz \in Realizations /\ r.op \in Ops /\ Adopts(r)
    BY <1>1, <1>2, AtWork DEF OwnInv
  <2> QED BY <2>1 DEF Job
<1>6. PICK from : from = IF scenario[r.from].tmpl = 0 THEN r.from ELSE scenario[r.from].tmpl
  OBVIOUS
<1>4. CASE ~(ToSet(r.next) \subseteq Live /\ Exists(from))
  <2>1. UNCHANGED tables /\ Throw(c)
    BY <1>1, <1>2, <1>4, <1>6 DEF AddScenario, tables
  <2> QED BY <1>1, <1>2, <1>3, <2>1, ThrowKeeps
<1>5. CASE ToSet(r.next) \subseteq Live /\ Exists(from)
  <2>1. from = IF scenario[r.from].tmpl = 0 THEN r.from ELSE scenario[r.from].tmpl
    BY <1>6
  <2>2. from \in Nat
    <3>1. r.from \in DOMAIN scenario
      BY <1>2, <1>3 DEF Adopts
    <3>2. scenario[r.from] \in Plan /\ r.from \in Nat
      BY <3>1, ListOf DEF OwnInv
    <3> QED BY <2>1, <3>2 DEF Plan
  <2>3. PICK p : p = [own |-> r.rz, tmpl |-> from, list |-> r.next, live |-> TRUE]
    OBVIOUS
  <2>4. p \in Plan /\ p.own = r.rz /\ p.list = r.next /\ p.live
    BY <1>3, <2>2, <2>3 DEF Plan
  <2>5. PICK x \in Nat : x = Len(scenario) + 1
    BY DEF OwnInv, Tabled
  <2>6. PICK e : e = <<>>
    OBVIOUS
  <2>7. PICK q : q = [r EXCEPT !.at = "sync", !.scn = x, !.next = e]
    OBVIOUS
  <2>8. scenario' = Append(scenario, p) /\ Put(c, q) /\ touched' = touched
    BY <1>1, <1>5, <2>1, <2>3, <2>5, <2>6, <2>7 DEF AddScenario
  <2>9. e \in Seq(Nat) /\ ToSet(e) = {}
    BY <2>6 DEF ToSet
  <2>10. q \in Job /\ q.op = r.op /\ q.at = "sync" /\ q.rz = r.rz /\ q.old = r.old /\ q.scn = x /\ q.cur = r.cur /\ q.next = e
    BY <1>3, <2>5, <2>7, <2>9 DEF Job, Stages
  <2>11. Works(q)
    BY <1>3, <2>10 DEF Works, Stages
  <2>12. /\ Tabled' /\ Sound' /\ Stays /\ x \in DOMAIN scenario' /\ scenario'[x] = p
    <3>1. IsInjective(p.list) /\ ToSet(p.list) \subseteq Live /\ \A y \in ToSet(p.list) : station[y].own = p.own
      BY <1>2, <1>3, <1>5, <2>4 DEF Adopts, Mine, Live
    <3> QED BY <1>2, <2>4, <2>5, <2>8, <3>1, Planned DEF OwnInv
  <2>13. Adopts(r)'
    BY <1>3, <2>12, StaysAdopts
  <2>14. Adopts(q)'
    BY <2>4, <2>9, <2>10, <2>12, <2>13 DEF Adopts
  <2>15. Marked'
    BY <1>2, <2>8 DEF OwnInv, Marked
  <2> QED BY <2>8, <2>11, <2>12, <2>14, <2>15, Resumed
<1> QED BY <1>4, <1>5

LEMMA OwnReadCurrent == ASSUME OwnInv, NEW c \in Calls, ReadCurrent(c) PROVE OwnInv'
<1>1. PICK r : r = call[c]
  OBVIOUS
<1>2. r.at = "sync" /\ UNCHANGED <<tables, running, touched>>
  BY <1>1 DEF ReadCurrent
<1>3. r \in Job /\ r.rz \in Realizations /\ r.op \in Ops /\ Adopts(r)
  BY <1>1, <1>2, AtWork DEF OwnInv
<1>4. r.scn \in DOMAIN scenario /\ (scenario[r.scn].live => scenario[r.scn].own = r.rz)
  BY <1>2, <1>3 DEF Adopts
<1>5. PICK seen : seen = Read(scenario[r.scn].list)
  OBVIOUS
<1>6. seen \in Seq(Seen) /\ Ids(seen) = ToSet(scenario[r.scn].list)
  BY <1>4, <1>5, ListOf, ReadIs DEF OwnInv
<1>7. PICK a \in {"save", "draft"} : a = IF r.drafts = <<>> THEN "save" ELSE "draft"
  OBVIOUS
<1>8. PICK q : q = [r EXCEPT !.cur = seen, !.at = a]
  OBVIOUS
<1>9. q \in Job /\ q.op = r.op /\ q.at = a /\ q.rz = r.rz /\ q.old = r.old /\ q.scn = r.scn /\ q.cur = seen /\ q.next = r.next
  BY <1>3, <1>6, <1>7, <1>8 DEF Job, Stages
<1>10. Works(q)
  BY <1>3, <1>7, <1>9 DEF Works, Stages
<1>11. Adopts(q)
  <2>1. \A x \in Ids(seen) : Mine(x, r.rz)
    BY <1>4, <1>6, OwnIsMine DEF OwnInv
  <2> QED BY <1>3, <1>4, <1>7, <1>9, <2>1 DEF Adopts
<1>12. Put(c, q)
  BY <1>1, <1>5, <1>7, <1>8 DEF ReadCurrent
<1> QED BY <1>2, <1>10, <1>11, <1>12, OnlyRead

\* A draft finds a row that was read.
LEMMA ExistingIs ==
  ASSUME NEW j \in Job, NEW d, NEW x, x = Existing(j, d), x # 0
  PROVE  x \in Ids(j.cur)
<1> DEFINE ofTemplate == {i \in DOMAIN j.cur : j.cur[i].tmpl = d.id /\ j.cur[i].id \notin j.used}
<1>1. CASE d.id \in Ids(j.cur)
  BY <1>1 DEF Existing
<1>2. CASE d.id \notin Ids(j.cur)
  <2>1. ofTemplate # {} /\ x = j.cur[CHOOSE i \in ofTemplate : \A k \in ofTemplate : i <= k].id
    BY <1>2 DEF Existing
  <2>2. ofTemplate \subseteq Nat
    BY DEF Job
  <2> HIDE DEF ofTemplate
  <2>3. \E i \in ofTemplate : \A k \in ofTemplate : i <= k
    BY <2>1, <2>2, Least
  <2>4. PICK i \in ofTemplate : x = j.cur[i].id
    BY <2>1, <2>3, Zenon
  <2> QED BY <2>4 DEF ofTemplate, Ids
<1> QED BY <1>1, <1>2

\* The next draft: the row it is written to, or the one that is made.
Makes(c, r, s, k, q) ==
  /\ Existing(r, r.drafts[Len(r.next) + 1]) = 0 /\ Len(station) < MaxStations
  /\ s.own = r.rz /\ s.live /\ s.code = k /\ k = CodeFor(r.drafts[Len(r.next) + 1].code, None, r.rz, 0)
  /\ station' = Append(station, s) /\ q.next = Append(r.next, Len(station) + 1) /\ q.used = r.used
Writes(c, r, x, k, q) ==
  /\ Existing(r, r.drafts[Len(r.next) + 1]) = x /\ x \in Live /\ x \in Ids(r.cur)
  /\ k = CodeFor(r.drafts[Len(r.next) + 1].code, station[x].code, station[x].own, x)
  /\ \E w \in Row : Recodes(w, x, k) /\ station' = [station EXCEPT ![x] = w]
  /\ q.next = Append(r.next, x) /\ q.used = r.used \cup {x}
SameElse(c, r, q) ==
  /\ q \in Job /\ Works(q) /\ q.op = r.op /\ q.at = r.at /\ q.rz = r.rz /\ q.from = r.from /\ q.old = r.old /\ q.scn = r.scn
  /\ q.drafts = r.drafts /\ q.src = r.src /\ q.cur = r.cur
  /\ Put(c, q) /\ UNCHANGED <<scenario, realization, running, touched, asked>>

LEMMA DraftIs ==
  ASSUME OwnInv, NEW c \in Calls, ApplyDraft(c), NEW r, r = call[c]
  PROVE  /\ r.at = "draft" /\ r \in Job /\ r # NoCall /\ r.rz \in Realizations /\ r.op \in Ops /\ Adopts(r)
         /\ Len(r.next) \in Nat /\ Len(r.next) < Len(r.drafts) /\ r.drafts[Len(r.next) + 1] \in Draft
         /\ \/ UNCHANGED <<tables, running, asked>> /\ Throw(c)
            \/ \E s \in Row, k \in Codes \cup {None, Random}, q \in Job : Makes(c, r, s, k, q) /\ SameElse(c, r, q)
            \/ \E x \in Live, k \in Codes \cup {None, Random}, q \in Job : Writes(c, r, x, k, q) /\ SameElse(c, r, q)
<1>1. r.at = "draft" /\ Len(r.next) < Len(r.drafts) /\ UNCHANGED <<scenario, realization, running, asked>>
  BY DEF ApplyDraft
<1>2. r \in Job /\ r # NoCall /\ r.rz \in Realizations /\ r.op \in Ops /\ Adopts(r)
  BY <1>1, AtWork DEF OwnInv
<1>3. r.next \in Seq(Nat) /\ r.drafts \in Seq(Draft) /\ r.used \subseteq Nat
  BY <1>2 DEF Job
<1>4. PICK d \in Draft : d = r.drafts[Len(r.next) + 1]
  BY <1>1, <1>3
<1>5. PICK x : x = Existing(r, d)
  OBVIOUS
<1>6. d.code \in Codes \cup {None}
  BY DEF Draft
<1>10. d.tmpl \in Nat
  BY DEF Draft
<1>7. CASE x = 0 /\ Refers(d.tmpl)
  <2>1. PICK k : k = CodeFor(d.code, None, r.rz, 0)
    OBVIOUS
  <2>2. k \in Codes \cup {None, Random}
    BY <1>6, <2>1, CodeForIs
  <2>3. PICK s : s = [own |-> r.rz, tmpl |-> d.tmpl, live |-> TRUE, code |-> k]
    OBVIOUS
  <2>4. s \in Row /\ s.own = r.rz /\ s.live /\ s.code = k
    BY <1>2, <1>10, <2>2, <2>3 DEF Row
  <2>5. PICK y \in Nat : y = Len(station) + 1
    BY DEF OwnInv, Tabled
  <2>6. PICK l \in Seq(Nat) : l = Append(r.next, y)
    <3>1. Append(r.next, y) \in Seq(Nat)
      BY <1>3
    <3> QED BY <3>1
  <2>7. PICK q : q = [r EXCEPT !.next = l]
    OBVIOUS
  <2>8. /\ q \in Job /\ q.op = r.op /\ q.at = r.at /\ q.rz = r.rz /\ q.from = r.from /\ q.old = r.old /\ q.scn = r.scn
        /\ q.drafts = r.drafts /\ q.src = r.src /\ q.cur = r.cur /\ q.used = r.used /\ q.next = l
    BY <1>2, <2>6, <2>7 DEF Job
  <2>9. Works(q)
    BY <1>1, <1>2, <2>8 DEF Works, Stages
  <2>10. Len(station) < MaxStations /\ station' = Append(station, s) /\ Put(c, q) /\ touched' = touched
    BY <1>4, <1>5, <1>7, <2>1, <2>3, <2>5, <2>6, <2>7 DEF ApplyDraft
  <2>11. Makes(c, r, s, k, q)
    BY <1>4, <1>5, <1>7, <2>1, <2>4, <2>5, <2>6, <2>8, <2>10 DEF Makes
  <2>12. SameElse(c, r, q)
    BY <1>1, <2>8, <2>9, <2>10 DEF SameElse
  <2> QED BY <1>1, <1>2, <1>3, <1>4, <2>2, <2>4, <2>8, <2>11, <2>12
<1>8. CASE x # 0 /\ x \in Live /\ Refers(d.tmpl)
  <2>1. x \in Ids(r.cur)
    BY <1>2, <1>5, <1>8, ExistingIs
  <2>2. x \in Nat /\ station[x] \in Row
    BY <1>8, LiveRows DEF OwnInv
  <2>3. PICK k : k = CodeFor(d.code, station[x].code, station[x].own, x)
    OBVIOUS
  <2>4. k \in Codes \cup {None, Random}
    <3>0. PICK o : o = station[x].own
      OBVIOUS
    <3>1. PICK h \in Codes \cup {None, Random} : h = station[x].code
      BY <2>2 DEF Row
    <3>2. d.code \in Codes \cup {None, Random} /\ k = CodeFor(d.code, h, o, x)
      BY <1>6, <2>3, <3>0, <3>1
    <3> QED BY <3>2, CodeForIs
  <2>5. PICK l \in Seq(Nat) : l = Append(r.next, x)
    <3>1. Append(r.next, x) \in Seq(Nat)
      BY <1>3, <2>2
    <3> QED BY <3>1
  <2>6. PICK u \in SUBSET Nat : u = r.used \cup {x}
    BY <1>3, <2>2
  <2>7. PICK q : q = [r EXCEPT !.next = l, !.used = u]
    OBVIOUS
  <2>8. /\ q \in Job /\ q.op = r.op /\ q.at = r.at /\ q.rz = r.rz /\ q.from = r.from /\ q.old = r.old /\ q.scn = r.scn
        /\ q.drafts = r.drafts /\ q.src = r.src /\ q.cur = r.cur /\ q.used = u /\ q.next = l
    BY <1>2, <2>5, <2>6, <2>7 DEF Job
  <2>9. Works(q)
    BY <1>1, <1>2, <2>8 DEF Works, Stages
  <2>10. Put(c, q) /\ touched' = touched
    BY <1>4, <1>5, <1>8, <2>5, <2>6, <2>7 DEF ApplyDraft
  <2>11. \E w \in Row : Recodes(w, x, k) /\ station' = [station EXCEPT ![x] = w]
    <3>1. PICK w : w = Edited(x, d)
      OBVIOUS
    <3>2. station' = [station EXCEPT ![x] = w]
      BY <1>4, <1>5, <1>8, <3>1 DEF ApplyDraft
    <3>3. PICK t \in Nat : t = IF d.tmpl = 0 THEN station[x].tmpl ELSE d.tmpl
      BY <1>10, <2>2 DEF Row
    <3>4. w = [station[x] EXCEPT !.code = k, !.tmpl = t]
      BY <2>2, <2>3, <3>1, <3>3 DEF Edited
    <3>5. w \in Row /\ Recodes(w, x, k)
      BY <2>2, <2>4, <3>3, <3>4 DEF Row, Recodes
    <3> QED BY <3>2, <3>5
  <2>12. Writes(c, r, x, k, q)
    BY <1>4, <1>5, <1>8, <2>1, <2>3, <2>5, <2>6, <2>8, <2>11 DEF Writes
  <2>13. SameElse(c, r, q)
    BY <1>1, <2>8, <2>9, <2>10 DEF SameElse
  <2>14. \E y \in Live, m \in Codes \cup {None, Random}, p \in Job : Writes(c, r, y, m, p) /\ SameElse(c, r, p)
    BY <1>8, <2>4, <2>8, <2>12, <2>13
  <2>15. Len(r.next) \in Nat /\ Len(r.next) < Len(r.drafts) /\ r.drafts[Len(r.next) + 1] \in Draft
    BY <1>1, <1>3, <1>4
  <2> QED BY <1>1, <1>2, <2>14, <2>15, Zenon
<1>9. CASE ~Refers(d.tmpl) \/ (x # 0 /\ x \notin Live)
  <2>1. Throw(c) /\ station' = station
    BY <1>4, <1>5, <1>9 DEF ApplyDraft
  <2> QED BY <1>1, <1>2, <1>3, <1>4, <2>1 DEF tables
<1> QED BY <1>7, <1>8, <1>9

LEMMA OwnApplyDraft == ASSUME OwnInv, NEW c \in Calls, ApplyDraft(c) PROVE OwnInv'
<1>1. PICK r : r = call[c]
  OBVIOUS
<1>2. /\ r.at = "draft" /\ r \in Job /\ r # NoCall /\ r.rz \in Realizations /\ r.op \in Ops /\ Adopts(r)
      /\ r.drafts[Len(r.next) + 1] \in Draft
  BY <1>1, DraftIs
<1>3. r.next \in Seq(Nat) /\ r.drafts[Len(r.next) + 1].code \in Codes \cup {None}
  BY <1>2 DEF Job, Draft
<1>4. CASE UNCHANGED <<tables, running, asked>> /\ Throw(c)
  BY <1>1, <1>2, <1>4, ThrowKeeps
<1>5. ASSUME NEW s \in Row, NEW k \in Codes \cup {None, Random}, NEW q \in Job, Makes(c, r, s, k, q), SameElse(c, r, q)
      PROVE  OwnInv'
  <2>1. PICK x \in Nat : x = Len(station) + 1
    BY DEF OwnInv, Tabled
  <2>2. \A u \in Live : station[u].own = s.own /\ s.own # None => station[u].code # s.code \/ s.code \in {None, Random}
    <3>1. k = CodeFor(r.drafts[Len(r.next) + 1].code, None, r.rz, 0) /\ s.own = r.rz /\ s.code = k
      BY <1>5 DEF Makes
    <3>2. \A u \in Live : station[u].own = r.rz /\ r.rz # None => station[u].code # k \/ k \in {None, Random}
      BY <1>3, <3>1, CodeIsFree DEF OwnInv
    <3> QED BY <3>1, <3>2
  <2>3. /\ Tabled' /\ Sound' /\ Stays
        /\ x \notin Stations /\ Live' = Live \cup {x} /\ station'[x] = s
    BY <1>5, <2>1, <2>2, Added DEF OwnInv, Makes, SameElse
  <2>4. Adopts(r)'
    BY <1>2, <2>3, StaysAdopts
  <2>5. ToSet(q.next) = ToSet(r.next) \cup {x}
    BY <1>3, <1>5, <2>1, AppendedSet DEF Makes
  <2>6. Mine(x, q.rz)'
    BY <1>5, <2>3 DEF Mine, Live, Makes, SameElse
  <2>7. Adopts(q)'
    BY <1>2, <1>5, <2>4, <2>5, <2>6 DEF Adopts, SameElse
  <2>8. Marked'
    BY <1>5 DEF OwnInv, Marked, SameElse
  <2> QED BY <1>5, <2>3, <2>7, <2>8, Resumed DEF SameElse
<1>6. ASSUME NEW x \in Live, NEW k \in Codes \cup {None, Random}, NEW q \in Job, Writes(c, r, x, k, q), SameElse(c, r, q)
      PROVE  OwnInv'
  <2>1. \A u \in Live \ {x} : station[u].own = station[x].own /\ station[x].own # None
                                => station[u].code # k \/ k \in {None, Random}
    <3>1. PICK w \in Codes \cup {None, Random} : w = r.drafts[Len(r.next) + 1].code
      BY <1>3
    <3>5. PICK o : o = station[x].own
      OBVIOUS
    <3>2. PICK h \in Codes \cup {None, Random} : h = station[x].code
      <4>1. station[x] \in Row
        BY LiveRows DEF OwnInv
      <4> QED BY <4>1 DEF Row
    <3>0. k = CodeFor(w, h, o, x)
      BY <1>6, <3>1, <3>2, <3>5 DEF Writes
    <3>3. CASE w = None
      <4>1. k = station[x].code
        BY <3>0, <3>2, <3>3, CodeForIs
      <4> QED BY <4>1 DEF OwnInv, Sound, CodesApart
    <3>4. CASE w # None
      <4>1. \A u \in Live \ {x} : station[u].own = o => station[u].code # k \/ k = Random
        BY <3>0, <3>4 DEF CodeFor
      <4> QED BY <3>5, <4>1
    <3> QED BY <3>3, <3>4
  <2>2. Tabled' /\ Sound' /\ Stays
    BY <1>6, <2>1, Recoded DEF OwnInv, Writes, SameElse
  <2>3. x \in Nat /\ Mine(x, r.rz)
    BY <1>2, <1>6, LiveRows DEF Adopts, Writes, OwnInv
  <2>4. ToSet(q.next) = ToSet(r.next) \cup {x}
    BY <1>3, <1>6, <2>3, AppendedSet DEF Writes
  <2>5. Adopts(q)
    BY <1>2, <1>6, <2>3, <2>4 DEF Adopts, SameElse
  <2> QED BY <1>6, <2>2, <2>5, Continued DEF SameElse
<1> QED BY <1>1, <1>4, <1>5, <1>6, DraftIs

LEMMA OwnPrune == ASSUME OwnInv, NEW c \in Calls, Prune(c) PROVE OwnInv'
<1>1. PICK r : r = call[c]
  OBVIOUS
<1>2. r.at = "draft" /\ Without(Ids(r.cur) \ r.used) /\ Put(c, [r EXCEPT !.at = "replace"])
      /\ UNCHANGED <<realization, running, touched>>
  BY <1>1 DEF Prune
<1>3. r \in Job /\ r.rz \in Realizations /\ r.op \in Ops /\ Adopts(r)
  BY <1>1, <1>2, AtWork DEF OwnInv
<1>4. Tabled' /\ Sound' /\ Stays
  BY <1>2, Dropped DEF OwnInv
<1>5. PICK q : q = [r EXCEPT !.at = "replace"]
  OBVIOUS
<1>6. q \in Job /\ q.op = r.op /\ q.at = "replace" /\ q.rz = r.rz /\ q.old = r.old /\ q.scn = r.scn /\ q.cur = r.cur /\ q.next = r.next
  BY <1>3, <1>5 DEF Job, Stages
<1>7. Works(q)
  BY <1>3, <1>6 DEF Works, Stages
<1>8. Adopts(q)
  BY <1>2, <1>3, <1>6 DEF Adopts
<1> QED BY <1>2, <1>4, <1>5, <1>7, <1>8, Continued

LEMMA OwnReplace == ASSUME OwnInv, NEW c \in Calls, Replace(c) PROVE OwnInv'
<1>1. PICK r : r = call[c]
  OBVIOUS
<1>2. r.at = "replace" /\ UNCHANGED <<station, realization, running>>
  BY <1>1 DEF Replace
<1>3. r \in Job /\ r # NoCall /\ r.rz \in Realizations /\ r.op \in Ops /\ Adopts(r) /\ r.next \in Seq(Nat)
  <2>1. r \in Job /\ r # NoCall /\ r.rz \in Realizations /\ r.op \in Ops /\ Adopts(r)
    BY <1>1, <1>2, AtWork DEF OwnInv
  <2> QED BY <2>1 DEF Job
<1>4. CASE ~(Exists(r.scn) /\ ToSet(r.next) \subseteq Live /\ IsInjective(r.next))
  <2>1. UNCHANGED tables /\ Throw(c)
    BY <1>1, <1>2, <1>4 DEF Replace, tables
  <2> QED BY <1>1, <1>2, <1>3, <2>1, ThrowKeeps
<1>5. CASE Exists(r.scn) /\ ToSet(r.next) \subseteq Live /\ IsInjective(r.next)
  <2>1. scenario' = [scenario EXCEPT ![r.scn].list = r.next] /\ Put(c, [r EXCEPT !.at = "save"]) /\ touched' = touched
    BY <1>1, <1>5 DEF Replace
  <2>2. scenario[r.scn].own = r.rz
    BY <1>2, <1>3, <1>5 DEF Adopts, Exists
  <2>3. \A x \in ToSet(r.next) : station[x].own = scenario[r.scn].own
    BY <1>3, <1>5, <2>2 DEF Adopts, Mine, Live
  <2>4. Tabled' /\ Sound' /\ Stays
    BY <1>2, <1>3, <1>5, <2>1, <2>3, Relisted DEF OwnInv
  <2>5. PICK q : q = [r EXCEPT !.at = "save"]
    OBVIOUS
  <2>6. q \in Job /\ q.op = r.op /\ q.at = "save" /\ q.rz = r.rz /\ q.old = r.old /\ q.scn = r.scn /\ q.cur = r.cur /\ q.next = r.next
    BY <1>3, <2>5 DEF Job, Stages
  <2>7. Works(q)
    BY <1>3, <2>6 DEF Works, Stages
  <2>8. Adopts(q)
    BY <1>2, <1>3, <2>6 DEF Adopts
  <2> QED BY <1>2, <2>1, <2>4, <2>5, <2>7, <2>8, Continued
<1> QED BY <1>4, <1>5

LEMMA OwnSaveRealization == ASSUME OwnInv, NEW c \in Calls, SaveRealization(c) PROVE OwnInv'
<1>1. PICK r : r = call[c]
  OBVIOUS
<1>2. r.at = "save" /\ UNCHANGED <<station, scenario, running>>
  BY <1>1 DEF SaveRealization
<1>3. r \in Job /\ r # NoCall /\ r.rz \in Realizations /\ r.op \in Ops /\ Adopts(r) /\ r.scn \in Nat
  <2>1. r \in Job /\ r # NoCall /\ r.rz \in Realizations /\ r.op \in Ops /\ Adopts(r)
    BY <1>1, <1>2, AtWork DEF OwnInv
  <2> QED BY <2>1 DEF Job
<1> DEFINE good == Exists(r.scn) /\ (r.op = "update" => realization[r.rz] # 0)
<1>4. CASE ~good
  <2>1. UNCHANGED tables /\ Throw(c)
    BY <1>1, <1>2, <1>4 DEF SaveRealization, tables
  <2> QED BY <1>1, <1>2, <1>3, <2>1, ThrowKeeps
<1>5. CASE good
  <2>1. realization' = [realization EXCEPT ![r.rz] = r.scn] /\ touched' = touched
        /\ Put(c, IF r.old # 0 THEN [r EXCEPT !.at = "drop"] ELSE NoCall)
    BY <1>1, <1>5 DEF SaveRealization
  <2>2. Tabled' /\ Sound' /\ Stays
    <3>1. scenario[r.scn].own = r.rz
      BY <1>2, <1>3, <1>5 DEF Adopts, Exists
    <3> QED BY <1>2, <1>3, <1>5, <2>1, <3>1, Saved DEF OwnInv
  <2>3. CASE r.old = 0
    BY <1>2, <2>1, <2>2, <2>3, Finished DEF OwnInv, Marked
  <2>4. CASE r.old # 0
    <3>1. PICK q : q = [r EXCEPT !.at = "drop"]
      OBVIOUS
    <3>2. q \in Job /\ q.op = r.op /\ q.at = "drop" /\ q.rz = r.rz /\ q.old = r.old /\ q.cur = r.cur /\ q.next = r.next
      BY <1>3, <3>1 DEF Job, Stages
    <3>3. Works(q)
      BY <1>3, <3>2 DEF Works, Stages
    <3>4. Adopts(q)
      BY <1>3, <3>2 DEF Adopts
    <3> QED BY <1>2, <2>1, <2>2, <2>4, <3>1, <3>3, <3>4, Continued
  <2> QED BY <2>3, <2>4
<1> QED BY <1>4, <1>5

LEMMA OwnDropScenario == ASSUME OwnInv, NEW c \in Calls, DropScenario(c) PROVE OwnInv'
<1>1. PICK r : r = call[c]
  OBVIOUS
<1>2. r.at = "drop" /\ UNCHANGED <<station, realization, running>>
  BY <1>1 DEF DropScenario
<1>3. r # NoCall
  BY <1>1, <1>2, AtWork DEF OwnInv
<1>4. CASE ~(Exists(r.old) /\ ~Referenced(r.old))
  <2>1. UNCHANGED tables /\ Throw(c)
    BY <1>1, <1>2, <1>4 DEF DropScenario, tables
  <2> QED BY <1>1, <1>2, <1>3, <2>1, ThrowKeeps
<1>5. CASE Exists(r.old) /\ ~Referenced(r.old)
  <2>1. Removed(r.old) /\ Put(c, NoCall) /\ touched' = touched
    BY <1>1, <1>5 DEF DropScenario
  <2>2. Tabled' /\ Sound' /\ Stays
    BY <1>2, <1>5, <2>1, Gone DEF OwnInv
  <2> QED BY <1>2, <2>1, <2>2, Finished DEF OwnInv, Marked
<1> QED BY <1>4, <1>5

LEMMA OwnStartDelete == ASSUME OwnInv, NEW c \in Calls, StartDelete(c) PROVE OwnInv'
<1>1. PICK r : r = call[c]
  OBVIOUS
<1>2. r.op = "delete" /\ r.at = "start" /\ UNCHANGED <<tables, running, touched>>
  BY <1>1 DEF StartDelete
<1>3. r \in Job /\ r.rz \in Realizations /\ r.op \in Ops /\ Adopts(r)
  BY <1>1, <1>2, AtWork DEF OwnInv
<1>4. PICK now \in Nat : now = realization[r.rz]
  BY <1>3 DEF OwnInv, Tabled
<1>5. CASE now = 0 \/ r.rz \in running
  <2>1. Put(c, NoCall)
    BY <1>1, <1>4, <1>5 DEF StartDelete
  <2> QED BY <1>2, <2>1, Unmoved, Finished DEF OwnInv, Marked
<1>6. CASE ~(now = 0 \/ r.rz \in running)
  <2>1. now \in DOMAIN scenario /\ scenario[now].own = r.rz
    BY <1>3, <1>4, <1>6, ScenarioOf DEF OwnInv
  <2>2. PICK seen : seen = Read(scenario[now].list)
    OBVIOUS
  <2>3. seen \in Seq(Seen) /\ Ids(seen) = ToSet(scenario[now].list)
    BY <2>1, <2>2, ListOf, ReadIs DEF OwnInv
  <2>4. PICK q : q = [r EXCEPT !.at = "stations", !.old = now, !.cur = seen]
    OBVIOUS
  <2>5. q \in Job /\ q.op = r.op /\ q.at = "stations" /\ q.rz = r.rz /\ q.old = now /\ q.cur = seen /\ q.next = r.next
    BY <1>3, <1>4, <2>3, <2>4 DEF Job, Stages
  <2>6. Works(q)
    BY <1>3, <2>5 DEF Works, Stages
  <2>7. Adopts(q)
    <3>1. \A x \in Ids(seen) : Mine(x, r.rz)
      BY <2>1, <2>3, OwnIsMine DEF OwnInv
    <3> QED BY <1>3, <2>1, <2>5, <3>1 DEF Adopts
  <2>8. Put(c, q)
    BY <1>1, <1>4, <1>6, <2>2, <2>4 DEF StartDelete
  <2> QED BY <1>2, <2>6, <2>7, <2>8, OnlyRead
<1> QED BY <1>5, <1>6

LEMMA OwnDeleteStations == ASSUME OwnInv, NEW c \in Calls, DeleteStations(c) PROVE OwnInv'
<1>1. PICK r : r = call[c]
  OBVIOUS
<1>2. r.at = "stations" /\ Without(Ids(r.cur)) /\ Put(c, [r EXCEPT !.at = "row"]) /\ UNCHANGED <<realization, running, touched>>
  BY <1>1 DEF DeleteStations
<1>3. r \in Job /\ r.rz \in Realizations /\ r.op \in Ops /\ Adopts(r)
  BY <1>1, <1>2, AtWork DEF OwnInv
<1>4. Tabled' /\ Sound' /\ Stays
  BY <1>2, Dropped DEF OwnInv
<1>5. PICK q : q = [r EXCEPT !.at = "row"]
  OBVIOUS
<1>6. q \in Job /\ q.op = r.op /\ q.at = "row" /\ q.rz = r.rz /\ q.old = r.old /\ q.cur = r.cur /\ q.next = r.next
  BY <1>3, <1>5 DEF Job, Stages
<1>7. Works(q)
  BY <1>3, <1>6 DEF Works, Stages
<1>8. Adopts(q)
  BY <1>3, <1>6 DEF Adopts
<1> QED BY <1>2, <1>4, <1>5, <1>7, <1>8, Continued

LEMMA OwnDeleteRow == ASSUME OwnInv, NEW c \in Calls, DeleteRow(c) PROVE OwnInv'
<1>1. PICK r : r = call[c]
  OBVIOUS
<1>2. r.at = "row" /\ UNCHANGED <<station, scenario>>
  BY <1>1 DEF DeleteRow
<1>3. r \in Job /\ r # NoCall /\ r.rz \in Realizations /\ r.op \in Ops /\ Adopts(r)
  BY <1>1, <1>2, AtWork DEF OwnInv
<1>4. CASE realization[r.rz] = 0
  <2>1. UNCHANGED <<tables, running>> /\ Throw(c)
    BY <1>1, <1>2, <1>4 DEF DeleteRow, tables
  <2> QED BY <1>1, <1>3, <2>1, ThrowKeeps
<1>5. CASE realization[r.rz] # 0
  <2>1. realization' = [realization EXCEPT ![r.rz] = 0] /\ running' = running \ {r.rz} /\ touched' = touched
        /\ Put(c, IF scenario[r.old].own = r.rz THEN [r EXCEPT !.at = "drop"] ELSE NoCall)
    BY <1>1, <1>5 DEF DeleteRow
  <2>2. Tabled' /\ Sound' /\ Stays
    BY <1>2, <1>3, <2>1, Saved DEF OwnInv
  <2>3. Marked'
    BY <2>1 DEF OwnInv, Marked
  <2>4. CASE scenario[r.old].own # r.rz
    BY <2>1, <2>2, <2>3, <2>4, Finished
  <2>5. CASE scenario[r.old].own = r.rz
    <3>1. PICK q : q = [r EXCEPT !.at = "drop"]
      OBVIOUS
    <3>2. q \in Job /\ q.op = r.op /\ q.at = "drop" /\ q.rz = r.rz /\ q.old = r.old /\ q.cur = r.cur /\ q.next = r.next
      BY <1>3, <3>1 DEF Job, Stages
    <3>3. Works(q)
      BY <1>3, <3>2 DEF Works, Stages
    <3>4. Adopts(q)
      BY <1>3, <3>2 DEF Adopts
    <3>5. Adopts(q)'
      BY <2>2, <3>4, StaysAdopts
    <3> QED BY <2>1, <2>2, <2>3, <2>5, <3>1, <3>3, <3>5, Resumed
  <2> QED BY <2>4, <2>5
<1> QED BY <1>4, <1>5

LEMMA OwnFail == ASSUME OwnInv, NEW c \in Calls, Fail(c) PROVE OwnInv'
  BY ThrowKeeps DEF Fail

-----------------------------------------------------------------------------
(* The library.                                                            *)

\* Nothing but the tables changes: the calls keep what they have adopted.
LEMMA Beneath ==
  ASSUME OwnInv, Stays, Tabled', Sound', Marked', UNCHANGED call
  PROVE  OwnInv'
<1>1. ASSUME NEW c \in Calls PROVE Adopts(call[c])'
  <2>1. PICK v : v = call[c]
    OBVIOUS
  <2>2. Adopts(v)'
    BY <2>1, StaysAdopts DEF OwnInv
  <2> QED BY <2>1, <2>2
<1>2. Called'
  BY DEF OwnInv, Called
<1> QED BY <1>1, <1>2 DEF OwnInv

LEMMA WorkersAre ==
  ASSUME OwnInv
  PROVE  {call[c].rz : c \in {d \in Calls : call[d] # NoCall}} \subseteq Realizations
  BY DEF OwnInv, Called, Works

LEMMA OwnDeleteTemplateStation == ASSUME OwnInv, NEW s, DeleteTemplateStation(s) PROVE OwnInv'
<1>1. Marked'
  BY WorkersAre DEF OwnInv, Marked, DeleteTemplateStation
<1> QED BY <1>1, Dropped, Beneath DEF OwnInv, DeleteTemplateStation

LEMMA OwnDeleteTemplate == ASSUME OwnInv, NEW n, DeleteTemplate(n) PROVE OwnInv'
<1>1. Marked'
  BY WorkersAre DEF OwnInv, Marked, DeleteTemplate
<1> QED BY <1>1, Gone, Beneath DEF OwnInv, DeleteTemplate

LEMMA OwnStart == ASSUME OwnInv, NEW r \in Realizations, Start(r) PROVE OwnInv'
<1>1. Marked' /\ UNCHANGED tables /\ UNCHANGED call
  BY DEF OwnInv, Marked, Start
<1>2. Tabled' /\ Sound' /\ Stays
  BY <1>1, Unmoved DEF OwnInv
<1> QED BY <1>1, <1>2, Beneath

-----------------------------------------------------------------------------
(* The tables at first.                                                    *)

Lib == [i \in DOMAIN Library |-> [own |-> None, tmpl |-> i, code |-> Library[i], live |-> TRUE]]
Tmp == [i \in DOMAIN Templates |-> [own |-> None, tmpl |-> 0, list |-> Templates[i], live |-> TRUE]]
Cloned(r) == [i \in DOMAIN Templates[1] |-> [own |-> r, tmpl |-> Templates[1][i], code |-> FirstCode(i), live |-> TRUE]]
Copy(r) == [own |-> r, tmpl |-> 1, live |-> TRUE, list |-> [i \in DOMAIN Templates[1] |-> Len(Lib) + i]]

LEMMA Members ==
  ASSUME NEW A, NEW s \in Seq(A)
  PROVE  \E n \in Nat : n = Len(s) /\ DOMAIN s = 1..n /\ \A i \in 1..n : s[i] \in A
  OBVIOUS

\* A library with its templates: rows that belong to nobody.
LEMMA LibraryIs ==
  \E L, M, K \in Nat :
    /\ L = Len(Library) /\ M = Len(Templates) /\ K = Len(Templates[1]) /\ L + K <= MaxStations /\ M < MaxScenarios /\ M # 0
    /\ Lib \in Seq(Row) /\ Len(Lib) = L /\ DOMAIN Lib = 1..L /\ \A i \in 1..L : Lib[i].own = None /\ Lib[i].live
    /\ Tmp \in Seq(Plan) /\ Len(Tmp) = M /\ DOMAIN Tmp = 1..M
    /\ \A n \in 1..M : /\ Tmp[n].own = None /\ Tmp[n].live
                       /\ IsInjective(Tmp[n].list) /\ ToSet(Tmp[n].list) \subseteq 1..L
    /\ DOMAIN Templates[1] = 1..K /\ \A i \in 1..K : Templates[1][i] \in 1..L
    /\ \A i \in 1..L : Library[i] \in Codes \cup {None}
<1>1. PICK L \in Nat : L = Len(Library) /\ DOMAIN Library = 1..L /\ \A i \in 1..L : Library[i] \in Codes \cup {None}
  BY ScenariosAssumption
<1>2. Templates \in Seq(Seq(1..L))
  BY <1>1, ScenariosAssumption
<1>3. PICK M \in Nat : M = Len(Templates) /\ DOMAIN Templates = 1..M /\ \A n \in 1..M : Templates[n] \in Seq(1..L)
  BY <1>2, Members
<1>4. M # 0
  BY <1>2, <1>3, ScenariosAssumption
<1>5. PICK K \in Nat : K = Len(Templates[1]) /\ DOMAIN Templates[1] = 1..K /\ \A i \in 1..K : Templates[1][i] \in 1..L
  <2>1. Templates[1] \in Seq(1..L)
    BY <1>3, <1>4
  <2> QED BY <2>1, Members
<1>6. L + K <= MaxStations /\ M < MaxScenarios
  BY <1>1, <1>3, <1>5, ScenariosAssumption
<1>7. ASSUME NEW i \in 1..L PROVE Lib[i] \in Row /\ Lib[i].own = None /\ Lib[i].live
  <2>1. Lib[i] = [own |-> None, tmpl |-> i, code |-> Library[i], live |-> TRUE]
    BY <1>1 DEF Lib
  <2> QED BY <1>1, <2>1 DEF Row
<1>8. Lib \in Seq(Row) /\ Len(Lib) = L /\ DOMAIN Lib = 1..L
  <2>1. Lib = [i \in 1..L |-> Lib[i]] /\ \A i \in 1..L : Lib[i] \in Row
    BY <1>1, <1>7 DEF Lib
  <2> HIDE DEF Lib
  <2> QED BY <2>1, Listing
<1>9. ASSUME NEW n \in 1..M
      PROVE  Tmp[n] \in Plan /\ Tmp[n].own = None /\ Tmp[n].live /\ Tmp[n].list = Templates[n]
  <2>1. Tmp[n] = [own |-> None, tmpl |-> 0, list |-> Templates[n], live |-> TRUE]
    BY <1>3 DEF Tmp
  <2>2. Templates[n] \in Seq(Nat)
    <3>1. Templates[n] \in Seq(1..L)
      BY <1>3
    <3> QED BY <3>1
  <2> QED BY <2>1, <2>2 DEF Plan
<1>10. Tmp \in Seq(Plan) /\ Len(Tmp) = M /\ DOMAIN Tmp = 1..M
  <2>1. Tmp = [i \in 1..M |-> Tmp[i]] /\ \A i \in 1..M : Tmp[i] \in Plan
    BY <1>3, <1>9 DEF Tmp
  <2> HIDE DEF Tmp
  <2> QED BY <2>1, Listing
<1>11. ASSUME NEW n \in 1..M PROVE IsInjective(Tmp[n].list) /\ ToSet(Tmp[n].list) \subseteq 1..L
  <2>1. IsInjective(Templates[n])
    BY <1>3, ScenariosAssumption
  <2>2. ToSet(Templates[n]) \subseteq 1..L
    BY <1>3 DEF ToSet
  <2> QED BY <1>9, <2>1, <2>2
<1> QED BY <1>1, <1>3, <1>4, <1>5, <1>6, <1>7, <1>8, <1>9, <1>10, <1>11

\* The codes of the copy, apart.
LEMMA FirstCodes ==
  ASSUME NEW K \in Nat, \A i \in 1..K : Library[Templates[1][i]] \in Codes \cup {None}
  PROVE  /\ \A i \in 1..K : FirstCode(i) \in Codes \cup {None, Random}
         /\ \A i, k \in 1..K : i # k => FirstCode(i) # FirstCode(k) \/ FirstCode(i) \in {None, Random}
<1> DEFINE code(k) == Library[Templates[1][k]]
<1>1. \A i \in 1..K : FirstCode(i) = IF code(i) # None /\ \E k \in 1..(i - 1) : code(k) = code(i) THEN Random ELSE code(i)
  BY DEF FirstCode
<1>2. \A i \in 1..K : code(i) \in Codes \cup {None}
  OBVIOUS
<1> HIDE DEF code
<1>3. \A i, k \in 1..K : k < i => FirstCode(i) # FirstCode(k) \/ FirstCode(i) \in {None, Random}
  <2> SUFFICES ASSUME NEW i \in 1..K, NEW k \in 1..K, k < i, FirstCode(i) = FirstCode(k), FirstCode(i) \notin {None, Random}
               PROVE  FALSE
    OBVIOUS
  <2>1. k \in 1..(i - 1)
    OBVIOUS
  <2>2. FirstCode(i) = code(i) /\ FirstCode(k) = code(k)
    BY <1>1
  <2>3. code(i) # None
    BY <2>2
  <2> QED BY <1>1, <2>1, <2>2, <2>3
<1> QED BY <1>1, <1>2, <1>3

LEMMA Joined ==
  ASSUME NEW A, NEW s \in Seq(A), NEW t \in Seq(A), NEW n \in Nat, NEW k \in Nat, Len(s) = n, Len(t) = k
  PROVE  /\ s \o t \in Seq(A) /\ Len(s \o t) = n + k /\ DOMAIN (s \o t) = 1..(n + k)
         /\ \A i \in 1..n : (s \o t)[i] = s[i]
         /\ \A i \in 1..k : (s \o t)[n + i] = t[i]
  OBVIOUS

LEMMA FirstTables ==
  ASSUME Init
  PROVE  Tabled /\ Sound /\ \A u \in Realizations : Complete(u)
<1>1. PICK L, M, K \in Nat :
    /\ L = Len(Library) /\ M = Len(Templates) /\ K = Len(Templates[1]) /\ L + K <= MaxStations /\ M < MaxScenarios /\ M # 0
    /\ Lib \in Seq(Row) /\ Len(Lib) = L /\ DOMAIN Lib = 1..L /\ \A i \in 1..L : Lib[i].own = None /\ Lib[i].live
    /\ Tmp \in Seq(Plan) /\ Len(Tmp) = M /\ DOMAIN Tmp = 1..M
    /\ \A n \in 1..M : /\ Tmp[n].own = None /\ Tmp[n].live
                       /\ IsInjective(Tmp[n].list) /\ ToSet(Tmp[n].list) \subseteq 1..L
    /\ DOMAIN Templates[1] = 1..K /\ \A i \in 1..K : Templates[1][i] \in 1..L
    /\ \A i \in 1..L : Library[i] \in Codes \cup {None}
  BY LibraryIs
<1>2. \/ station = Lib /\ scenario = Tmp /\ realization = [r \in Realizations |-> 0]
      \/ \E r \in Realizations : /\ station = Lib \o Cloned(r) /\ scenario = Append(Tmp, Copy(r))
                                 /\ realization = [[u \in Realizations |-> 0] EXCEPT ![r] = Len(Tmp) + 1]
  BY DEF Init, Lib, Tmp, Cloned, Copy
<1>3. CASE station = Lib /\ scenario = Tmp /\ realization = [r \in Realizations |-> 0]
  <2>1. Tabled
    BY <1>1, <1>3, Names DEF Tabled
  <2>2. Stations = 1..L /\ Live = 1..L /\ DOMAIN scenario = 1..M
    BY <1>1, <1>3 DEF Stations, Live
  <2>3. Listed
    BY <1>1, <1>3, <2>2 DEF Listed
  <2>4. References
    BY <1>3 DEF References
  <2>5. CodesApart
    BY <1>1, <1>3, <2>2 DEF CodesApart
  <2>6. StationsOwned
    BY <1>1, <1>3, <2>2 DEF StationsOwned, ToSet
  <2>7. ASSUME NEW u \in Realizations PROVE Complete(u)
    <3>1. Plans(u) = {} /\ Rows(u) = {} /\ realization[u] = 0
      BY <1>1, <1>3, <2>2, Names DEF Plans, Rows
    <3> QED BY <3>1 DEF Complete
  <2> QED BY <2>1, <2>3, <2>4, <2>5, <2>6, <2>7 DEF Sound
<1>4. ASSUME NEW r \in Realizations, station = Lib \o Cloned(r), scenario = Append(Tmp, Copy(r)),
             realization = [[u \in Realizations |-> 0] EXCEPT ![r] = Len(Tmp) + 1]
      PROVE  Tabled /\ Sound /\ \A u \in Realizations : Complete(u)
  <2>1. /\ \A i \in 1..K : FirstCode(i) \in Codes \cup {None, Random}
        /\ \A i, k \in 1..K : i # k => FirstCode(i) # FirstCode(k) \/ FirstCode(i) \in {None, Random}
    BY <1>1, FirstCodes
  <2>2. ASSUME NEW i \in 1..K PROVE Cloned(r)[i] \in Row /\ Cloned(r)[i].own = r /\ Cloned(r)[i].live /\ Cloned(r)[i].code = FirstCode(i)
    <3>1. Cloned(r)[i] = [own |-> r, tmpl |-> Templates[1][i], code |-> FirstCode(i), live |-> TRUE]
      BY <1>1 DEF Cloned
    <3>2. Templates[1][i] \in Nat /\ FirstCode(i) \in Codes \cup {None, Random}
      BY <1>1, <2>1
    <3> QED BY <3>1, <3>2 DEF Row
  <2>3. Cloned(r) \in Seq(Row) /\ Len(Cloned(r)) = K /\ DOMAIN Cloned(r) = 1..K
    <3>1. PICK t : t = Cloned(r)
      OBVIOUS
    <3>2. t = [i \in 1..K |-> t[i]] /\ \A i \in 1..K : t[i] \in Row
      BY <1>1, <2>2, <3>1 DEF Cloned
    <3> QED BY <3>1, <3>2, Listing
  <2>4. /\ station \in Seq(Row) /\ Len(station) = L + K /\ DOMAIN station = 1..(L + K)
        /\ \A s \in 1..L : station[s] = Lib[s]
        /\ \A i \in 1..K : station[L + i] = Cloned(r)[i]
    <3>1. PICK t : t = Cloned(r)
      OBVIOUS
    <3>2. PICK lib : lib = Lib
      OBVIOUS
    <3>3. lib \in Seq(Row) /\ t \in Seq(Row) /\ Len(lib) = L /\ Len(t) = K /\ station = lib \o t
      BY <1>1, <1>4, <2>3, <3>1, <3>2
    <3>4. /\ lib \o t \in Seq(Row) /\ Len(lib \o t) = L + K /\ DOMAIN (lib \o t) = 1..(L + K)
          /\ \A i \in 1..L : (lib \o t)[i] = lib[i]
          /\ \A i \in 1..K : (lib \o t)[L + i] = t[i]
      <4>1. lib \in Seq(Row)
        BY <3>3
      <4>2. t \in Seq(Row)
        BY <3>3
      <4>3. L \in Nat /\ K \in Nat /\ Len(lib) = L /\ Len(t) = K
        BY <3>3
      <4>4. lib \o t \in Seq(Row)
        BY <4>1, <4>2
      <4>5. Len(lib \o t) = L + K
        BY <4>1, <4>2, <4>3
      <4>6. \A i \in 1..L : (lib \o t)[i] = lib[i]
        BY <4>1, <4>2, <4>3
      <4>7. \A i \in 1..K : (lib \o t)[L + i] = t[i]
        BY <4>1, <4>2, <4>3
      <4>8. DOMAIN (lib \o t) = 1..(L + K)
        BY <4>4, <4>5
      <4> QED BY <4>4, <4>5, <4>6, <4>7, <4>8
    <3> QED BY <3>1, <3>2, <3>3, <3>4
  <2>a. \A i \in 1..K : station[L + i].own = r /\ station[L + i].live /\ station[L + i].code = FirstCode(i)
    BY <2>2, <2>4
  <2>5. Stations = 1..(L + K) /\ \A s \in 1..(L + K) : s \in 1..L \/ \E i \in 1..K : s = L + i
    <3>1. \A s \in 1..(L + K) : s \in 1..L \/ (s - L \in 1..K /\ s = L + (s - L))
      OBVIOUS
    <3> QED BY <2>4, <3>1 DEF Stations
  <2>6. Live = 1..(L + K)
    <3>1. \A s \in 1..(L + K) : station[s].live
      <4> SUFFICES ASSUME NEW s \in 1..(L + K) PROVE station[s].live
        OBVIOUS
      <4>1. CASE s \in 1..L
        BY <1>1, <2>4, <4>1
      <4>2. CASE \E i \in 1..K : s = L + i
        BY <2>a, <4>2
      <4> QED BY <2>5, <4>1, <4>2
    <3> QED BY <2>5, <3>1 DEF Live
  <2>7. PICK list : list = [i \in 1..K |-> L + i]
    OBVIOUS
  <2>8. list \in Seq(Nat) /\ IsInjective(list) /\ DOMAIN list = 1..K /\ \A i \in 1..K : list[i] = L + i
    <3>1. list \in Seq(Nat) /\ DOMAIN list = 1..K /\ \A i \in 1..K : list[i] = L + i
      BY <2>7
    <3> QED BY <3>1 DEF IsInjective
  <2>9. ToSet(list) \subseteq 1..(L + K)
    BY <2>8 DEF ToSet
  <2>10. Copy(r) = [own |-> r, tmpl |-> 1, live |-> TRUE, list |-> list]
    BY <1>1, <2>7 DEF Copy
  <2>11. PICK p : p = Copy(r)
    OBVIOUS
  <2>12. p \in Plan /\ p.own = r /\ p.live /\ p.list = list
    BY <2>8, <2>10, <2>11 DEF Plan
  <2>13. /\ scenario \in Seq(Plan) /\ Len(scenario) = M + 1 /\ DOMAIN scenario = (1..M) \cup {M + 1} /\ M + 1 \notin 1..M
         /\ scenario[M + 1] = p /\ \A n \in 1..M : scenario[n] = Tmp[n]
    <3>1. scenario \in Seq(Plan) /\ Len(scenario) = M + 1 /\ DOMAIN scenario = 1..(M + 1)
      BY <1>1, <1>4, <2>11, <2>12
    <3>2. 1..(M + 1) = (1..M) \cup {M + 1} /\ M + 1 \notin 1..M
      OBVIOUS
    <3> QED BY <1>1, <1>4, <2>11, <2>12, <3>1, <3>2
  <2>14. realization \in [Realizations -> Nat] /\ realization[r] = M + 1 /\ \A u \in Realizations \ {r} : realization[u] = 0
    BY <1>1, <1>4
  <2>15. Tabled
    BY <1>1, <2>4, <2>13, <2>14, Names DEF Tabled
  <2>16. Listed
    <3> SUFFICES ASSUME NEW n \in (1..M) \cup {M + 1}
                 PROVE  /\ IsInjective(scenario[n].list) /\ ToSet(scenario[n].list) \subseteq Live
                        /\ ~scenario[n].live => scenario[n].list = <<>>
      BY <2>13 DEF Listed
    <3>1. CASE n = M + 1
      BY <2>6, <2>8, <2>9, <2>12, <2>13, <3>1
    <3>2. CASE n \in 1..M
      <4>1. 1..L \subseteq 1..(L + K)
        OBVIOUS
      <4> QED BY <1>1, <2>6, <2>13, <3>2, <4>1
    <3> QED BY <3>1, <3>2
  <2>17. References
    BY <2>12, <2>13, <2>14 DEF References, Exists
  <2>18. CodesApart
    <3> SUFFICES ASSUME NEW s \in 1..(L + K), NEW u \in 1..(L + K), s # u, station[s].own # None, station[s].own = station[u].own
                 PROVE  station[s].code # station[u].code \/ station[s].code \in {None, Random}
      BY <2>6 DEF CodesApart
    <3>1. PICK i \in 1..K : s = L + i
      BY <1>1, <2>4, <2>5
    <3>2. PICK k \in 1..K : u = L + k
      BY <1>1, <2>4, <2>5, ZenonT(40)
    <3>3. i # k
      BY <3>1, <3>2
    <3>4. station[s].code = FirstCode(i) /\ station[u].code = FirstCode(k)
      BY <2>a, <3>1, <3>2
    <3> QED BY <2>1, <3>3, <3>4
  <2>19. StationsOwned
    <3>1. ASSUME NEW n \in (1..M) \cup {M + 1}, NEW i \in DOMAIN scenario[n].list
          PROVE  station[scenario[n].list[i]].own = scenario[n].own
      <4>1. CASE n = M + 1
        <5>1. scenario[n].list = list /\ scenario[n].own = r
          BY <2>12, <2>13, <4>1
        <5>2. i \in 1..K /\ list[i] = L + i
          BY <2>8, <5>1
        <5> QED BY <2>a, <5>1, <5>2
      <4>2. CASE n \in 1..M
        <5>1. scenario[n].list[i] \in 1..L
          BY <1>1, <2>13, <4>2 DEF ToSet
        <5> QED BY <1>1, <2>4, <2>13, <4>2, <5>1
      <4> QED BY <4>1, <4>2
    <3>2. \A u \in Realizations : realization[u] # 0 => scenario[realization[u]].own = u
      BY <2>12, <2>13, <2>14
    <3> QED BY <2>13, <3>1, <3>2 DEF StationsOwned
  <2>20. ASSUME NEW u \in Realizations PROVE Complete(u)
    <3>1. CASE u = r
      <4>1. Plans(u) = {M + 1}
        <5>1. \A n \in 1..M : scenario[n].own # u
          BY <1>1, <2>13, Names
        <5> QED BY <2>12, <2>13, <3>1, <5>1 DEF Plans, Exists
      <4>2. Rows(u) = ToSet(list)
        <5>1. \A s \in 1..L : station[s].own # u
          BY <1>1, <2>4, Names
        <5>2. \A i \in 1..K : station[L + i].own = u /\ L + i \in Live
          BY <2>a, <2>6, <3>1
        <5>3. Rows(u) = {L + i : i \in 1..K}
          BY <2>5, <2>6, <5>1, <5>2 DEF Rows
        <5> QED BY <2>8, <5>3 DEF ToSet
      <4> QED BY <2>12, <2>13, <2>14, <3>1, <4>1, <4>2 DEF Complete, InPlan
    <3>2. CASE u # r
      <4>1. \A n \in (1..M) \cup {M + 1} : scenario[n].own # u
        BY <1>1, <2>12, <2>13, <3>2, Names
      <4>2. \A s \in 1..(L + K) : station[s].own # u
        <5> SUFFICES ASSUME NEW s \in 1..(L + K) PROVE station[s].own # u
          OBVIOUS
        <5>1. CASE s \in 1..L
          BY <1>1, <2>4, <5>1, Names
        <5>2. CASE \E i \in 1..K : s = L + i
          BY <2>a, <3>2, <5>2
        <5> QED BY <2>5, <5>1, <5>2
      <4> QED BY <2>6, <2>13, <2>14, <3>2, <4>1, <4>2 DEF Complete, Plans, Rows
    <3> QED BY <3>1, <3>2
  <2> QED BY <2>15, <2>16, <2>17, <2>18, <2>19, <2>20 DEF Sound
<1> QED BY <1>2, <1>3, <1>4

LEMMA OwnInit == Init => OwnInv
<1> SUFFICES ASSUME Init PROVE OwnInv
  OBVIOUS
<1>1. running = {} /\ touched = {} /\ call = [c \in Calls |-> NoCall]
  BY DEF Init
<1>2. Marked
  BY <1>1 DEF Marked
<1>3. Called /\ \A c \in Calls : Adopts(call[c])
  BY <1>1, Idle DEF Called
<1> QED BY <1>2, <1>3, FirstTables DEF OwnInv

LEMMA OwnStep == OwnInv /\ [Next]_vars => OwnInv'
<1> SUFFICES ASSUME OwnInv, [Next]_vars PROVE OwnInv'
  OBVIOUS
<1>1. ASSUME NEW c \in Calls, Handle(c) PROVE OwnInv'
  BY <1>1, OwnStartUpdate, OwnDiscard, OwnReadSource, OwnCloneStation, OwnAddScenario, OwnReadCurrent, OwnApplyDraft,
     OwnPrune, OwnReplace, OwnSaveRealization, OwnDropScenario, OwnStartDelete, OwnDeleteStations, OwnDeleteRow DEF Handle
<1>2. ASSUME NEW c \in Calls, NEW r \in Realizations, NEW n \in DOMAIN scenario, NEW f \in Forms(r, n), Create(c, r, n, f) \/ Update(c, r, n, f)
      PROVE  OwnInv'
  <2>1. n \in Nat /\ f \in Seq(Draft)
    BY ListOf, FormsTyped DEF OwnInv
  <2> QED BY <1>2, <2>1, OwnCreate, OwnUpdate
<1>3. CASE UNCHANGED vars
  <2>1. UNCHANGED <<tables, running, touched, call>>
    BY <1>3 DEF vars
  <2>2. Tabled' /\ Sound' /\ Stays
    BY <2>1, Unmoved DEF OwnInv
  <2> QED BY <2>1, <2>2, Beneath DEF OwnInv, Marked
<1>4. CASE Next
  <2>1. \/ \E c \in Calls : Handle(c) \/ Fail(c) \/ \E r \in Realizations : Delete(c, r)
        \/ \E c \in Calls, r \in Realizations : \E n \in DOMAIN scenario : \E f \in Forms(r, n) : Create(c, r, n, f) \/ Update(c, r, n, f)
        \/ \E s \in Stations : DeleteTemplateStation(s)
        \/ \E n \in DOMAIN scenario : DeleteTemplate(n)
        \/ \E r \in Realizations : Start(r)
    BY <1>4 DEF Next
  <2> QED BY <1>1, <1>2, <2>1, OwnFail, OwnDelete, OwnDeleteTemplateStation, OwnDeleteTemplate, OwnStart
<1> QED BY <1>3, <1>4

LEMMA OwnAlways == Spec => []OwnInv
  BY OwnInit, OwnStep, PTL DEF Spec

LEMMA OwnTypes == OwnInv => TypeOK
<1> SUFFICES ASSUME OwnInv PROVE TypeOK
  OBVIOUS
<1>1. \A s \in Stations : station[s].own \in Realizations \cup {None} /\ station[s].code \in Codes \cup {None, Random}
  <2> SUFFICES ASSUME NEW s \in Stations
               PROVE  station[s].own \in Realizations \cup {None} /\ station[s].code \in Codes \cup {None, Random}
    OBVIOUS
  <2>1. station[s] \in Row
    BY LiveRows DEF OwnInv
  <2> QED BY <2>1 DEF Row
<1>2. \A c \in Calls : call[c] = NoCall \/ (call[c].op \in Ops /\ call[c].at \in Stages)
  BY DEF OwnInv, Called, Works
<1> QED BY <1>1, <1>2 DEF OwnInv, Tabled, Marked, Sound, Listed, References, CodesApart, TypeOK

-----------------------------------------------------------------------------
\* The rows are typed, a scenario lists rows that exist, each once, the scenario of a realization exists, and the codes
\* of a realization's stations are apart, whatever requests overlap or break off.
THEOREM TypeCorrect == Spec => []TypeOK
  BY OwnAlways, OwnTypes, PTL

\* No request of a realization reaches a template or the stations of another one: a scenario
\* lists stations of its realization only, and a realization's scenario is its own.
THEOREM OwnedCorrect == Spec => []StationsOwned
<1>1. OwnInv => StationsOwned
  BY DEF OwnInv, Sound
<1> QED BY <1>1, OwnAlways, PTL

-----------------------------------------------------------------------------
(* What a statement leaves alone: everything of a realization that none of *)
(* the rows it writes belongs to.                                          *)

Same(u) ==
  /\ Rows(u)' = Rows(u) /\ Plans(u)' = Plans(u) /\ realization'[u] = realization[u] /\ asked'[u] = asked[u]
  /\ \A n \in Plans(u) : InPlan(n)' = InPlan(n)
  /\ \A s \in Rows(u) : station'[s].code = station[s].code

LEMMA SameRest ==
  ASSUME NEW u, Same(u)
  PROVE  /\ Complete(u) => Complete(u)'
         /\ Answered(u) => Answered(u)'
<1>1. ASSUME Complete(u) PROVE Complete(u)'
  <2>1. realization[u] # 0 => realization[u] \in Plans(u)
    BY <1>1 DEF Complete
  <2> QED BY <1>1, <2>1 DEF Complete, Same
<1>2. ASSUME Answered(u) PROVE Answered(u)'
  BY <1>2 DEF Answered, Same
<1> QED BY <1>1, <1>2

LEMMA SameEmptied ==
  ASSUME NEW u, NEW n, Same(u), Emptied(u, n)
  PROVE  Emptied(u, n)'
<1>1. n # 0 => n \in Plans(u)
  BY DEF Emptied
<1> QED BY <1>1 DEF Emptied, Same

LEMMA SameProgress ==
  ASSUME NEW j, Same(j.rz), Progress(j)
  PROVE  Progress(j)'
<1>1. j.at \in {"start", "discard", "stations"} => Complete(j.rz)' /\ realization'[j.rz] # 0
  BY SameRest DEF Progress, Same
<1>2. j.at \in {"discard", "stations"} => j.old = realization'[j.rz] /\ Ids(j.cur) = InPlan(j.old)'
  <2> SUFFICES ASSUME j.at \in {"discard", "stations"} PROVE j.old = realization'[j.rz] /\ Ids(j.cur) = InPlan(j.old)'
    OBVIOUS
  <2>1. j.old = realization[j.rz] /\ Ids(j.cur) = InPlan(j.old) /\ Complete(j.rz) /\ realization[j.rz] # 0
    BY DEF Progress
  <2>2. j.old \in Plans(j.rz)
    BY <2>1 DEF Complete
  <2> QED BY <2>1, <2>2 DEF Same
<1>3. j.at = "adopt" => Emptied(j.rz, j.old)' /\ Rows(j.rz)' = {}
  BY SameEmptied DEF Progress, Same
<1>4. j.at = "clone" => Emptied(j.rz, j.old)' /\ Rows(j.rz)' = ToSet(j.next)
  BY SameEmptied DEF Progress, Same
<1>5. j.at \in {"sync", "draft", "replace", "save"} => Beside(j) /\ Beside(j)' /\ InPlan(j.scn)' = InPlan(j.scn)
  <2> SUFFICES ASSUME j.at \in {"sync", "draft", "replace", "save"} PROVE Beside(j) /\ Beside(j)' /\ InPlan(j.scn)' = InPlan(j.scn)
    OBVIOUS
  <2>1. Beside(j)
    BY DEF Progress
  <2>2. j.scn \in Plans(j.rz)
    BY <2>1 DEF Beside
  <2> QED BY <2>1, <2>2 DEF Beside, Same
<1>6. /\ j.at = "sync" => Rows(j.rz)' = InPlan(j.scn)'
      /\ j.at = "draft" => Ids(j.cur) = InPlan(j.scn)' /\ Rows(j.rz)' = InPlan(j.scn)' \cup ToSet(j.next)
      /\ j.at = "replace" => Rows(j.rz)' = ToSet(j.next)
      /\ j.at = "save" => Rows(j.rz)' = InPlan(j.scn)'
  BY <1>5 DEF Progress, Same
<1>7. j.at = "row" => Emptied(j.rz, j.old)' /\ Rows(j.rz)' = {}
  BY SameEmptied DEF Progress, Same
<1>8. j.at = "drop" => /\ j.old # realization'[j.rz] /\ Plans(j.rz)' = {realization'[j.rz], j.old} \ {0}
                       /\ Rows(j.rz)' = IF realization'[j.rz] = 0 THEN {} ELSE InPlan(realization[j.rz])'
  <2> SUFFICES ASSUME j.at = "drop"
               PROVE  /\ j.old # realization'[j.rz] /\ Plans(j.rz)' = {realization'[j.rz], j.old} \ {0}
                      /\ Rows(j.rz)' = IF realization'[j.rz] = 0 THEN {} ELSE InPlan(realization[j.rz])'
    OBVIOUS
  <2>1. /\ j.old # realization[j.rz] /\ Plans(j.rz) = {realization[j.rz], j.old} \ {0}
        /\ Rows(j.rz) = IF realization[j.rz] = 0 THEN {} ELSE InPlan(realization[j.rz])
    BY DEF Progress
  <2>2. realization[j.rz] # 0 => realization[j.rz] \in Plans(j.rz)
    BY <2>1
  <2>3. CASE realization[j.rz] = 0
    BY <2>1, <2>3 DEF Same
  <2>4. CASE realization[j.rz] # 0
    <3>1. InPlan(realization[j.rz])' = InPlan(realization[j.rz])
      BY <2>2, <2>4 DEF Same, InPlan
    <3> QED BY <2>1, <2>4, <3>1 DEF Same
  <2> QED BY <2>3, <2>4
<1> QED BY <1>1, <1>2, <1>3, <1>4, <1>5, <1>6, <1>7, <1>8 DEF Progress

\* The stations a call has written are among its realization's.
LEMMA Written ==
  ASSUME NEW j, Progress(j), Given(j), j.at \in {"draft", "replace", "save"}
  PROVE  ToSet(j.next) \subseteq Rows(j.rz)
  BY DEF Progress, Given

LEMMA SameGiven ==
  ASSUME NEW j, Same(j.rz), Progress(j), Given(j)
  PROVE  Given(j)'
<1>1. j.at \in {"draft", "replace", "save"} =>
        \A i \in DOMAIN j.next : Unrivalled(j, i) /\ Latest(j.next, i) => station'[j.next[i]].code = j.drafts[i].code
  <2> SUFFICES ASSUME j.at \in {"draft", "replace", "save"}, NEW i \in DOMAIN j.next, Unrivalled(j, i), Latest(j.next, i)
               PROVE  station'[j.next[i]].code = j.drafts[i].code
    OBVIOUS
  <2>1. j.next[i] \in Rows(j.rz)
    BY Written DEF ToSet
  <2>2. station[j.next[i]].code = j.drafts[i].code
    BY DEF Given
  <2> QED BY <2>1, <2>2 DEF Same
<1>2. j.at = "draft" => \A s \in Rows(j.rz)' : Source(j, s)'
  BY DEF Given, Source, Same
<1>3. j.at = "save" => ToSet(j.next) \subseteq InPlan(j.scn)'
  <2>1. j.at = "save" => j.scn \in Plans(j.rz)
    BY DEF Progress, Beside
  <2> QED BY <2>1 DEF Given, Same
<1>4. j.at \in {"start", "drop"} => Answered(j.rz)'
  BY SameRest DEF Given
<1> QED BY <1>1, <1>2, <1>3, <1>4 DEF Given, Unrivalled, Latest

LEMMA PlanRows ==
  ASSUME Tabled, Sound, NEW u, NEW n \in Plans(u)
  PROVE  n \in DOMAIN scenario /\ scenario[n].live /\ scenario[n].own = u /\ InPlan(n) \subseteq Rows(u)
  BY ListOf DEF Plans, Exists, InPlan, Rows

LEMMA SameUnmoved ==
  ASSUME NEW u, UNCHANGED tables, asked'[u] = asked[u]
  PROVE  Same(u)
<1>1. station' = station /\ scenario' = scenario /\ realization' = realization
  BY DEF tables
<1> QED BY <1>1 DEF Same, Rows, Plans, InPlan, Live, Stations, Exists

LEMMA SameDropped ==
  ASSUME Tabled, Sound, NEW u, NEW S, Without(S), UNCHANGED realization, asked'[u] = asked[u], S \cap Rows(u) = {}
  PROVE  Same(u)
<1>1. /\ Live' = Live \ S /\ DOMAIN scenario' = DOMAIN scenario
      /\ \A s \in Live' : station'[s].own = station[s].own /\ station'[s].code = station[s].code
      /\ \A n \in DOMAIN scenario :
           /\ scenario'[n].own = scenario[n].own /\ scenario'[n].live = scenario[n].live
           /\ ToSet(scenario'[n].list) = ToSet(scenario[n].list) \ S
  BY Dropped
<1>2. Rows(u)' = Rows(u) /\ \A s \in Rows(u) : station'[s].code = station[s].code
  BY <1>1 DEF Rows
<1>3. Plans(u)' = Plans(u)
  BY <1>1 DEF Plans, Exists
<1>4. \A n \in Plans(u) : InPlan(n)' = InPlan(n)
  <2> SUFFICES ASSUME NEW n \in Plans(u) PROVE InPlan(n)' = InPlan(n)
    OBVIOUS
  <2>1. InPlan(n)' = InPlan(n) \ S
    BY <1>1, PlanRows DEF InPlan
  <2>2. InPlan(n) \subseteq Rows(u)
    BY PlanRows
  <2> QED BY <2>1, <2>2
<1> QED BY <1>2, <1>3, <1>4 DEF Same

LEMMA SameAdded ==
  ASSUME Tabled, Sound, NEW u, NEW s \in Row, s.own # u, station' = Append(station, s),
         UNCHANGED <<scenario, realization>>, asked'[u] = asked[u]
  PROVE  Same(u)
<1>1. PICK N \in Nat : N = Len(station) /\ DOMAIN station = 1..N
  BY DEF Tabled
<1>2. /\ DOMAIN station' = (1..N) \cup {N + 1} /\ station'[N + 1] = s
      /\ \A x \in 1..N : station'[x] = station[x]
  <2>1. 1..(N + 1) = (1..N) \cup {N + 1}
    OBVIOUS
  <2> QED BY <1>1, <2>1 DEF Tabled
<1>3. Rows(u)' = Rows(u)
  BY <1>1, <1>2 DEF Rows, Live, Stations
<1>4. \A x \in Rows(u) : station'[x].code = station[x].code
  BY <1>1, <1>2 DEF Rows, Live, Stations
<1> QED BY <1>3, <1>4 DEF Same, Plans, InPlan, Exists

LEMMA SameRecoded ==
  ASSUME Tabled, Sound, NEW u, NEW x \in Live, NEW k, station[x].own # u,
         NEW w \in Row, Recodes(w, x, k), station' = [station EXCEPT ![x] = w],
         UNCHANGED <<scenario, realization>>, asked'[u] = asked[u]
  PROVE  Same(u)
<1>1. DOMAIN station' = DOMAIN station /\ \A s \in DOMAIN station : s # x => station'[s] = station[s]
  OBVIOUS
<1>2. station[x] \in Row /\ x \in DOMAIN station
  BY LiveRows DEF Stations
<1>3. station'[x].own = station[x].own
  BY <1>2 DEF Recodes
<1>4. Rows(u)' = Rows(u) /\ \A s \in Rows(u) : station'[s].code = station[s].code
  BY <1>1, <1>2, <1>3 DEF Rows, Live, Stations
<1> QED BY <1>4 DEF Same, Plans, InPlan, Exists

LEMMA SamePlanned ==
  ASSUME Tabled, Sound, NEW u, NEW p \in Plan, p.own # u, scenario' = Append(scenario, p),
         UNCHANGED <<station, realization>>, asked'[u] = asked[u]
  PROVE  Same(u)
<1>1. PICK M \in Nat : M = Len(scenario) /\ DOMAIN scenario = 1..M
  BY DEF Tabled
<1>2. /\ DOMAIN scenario' = (1..M) \cup {M + 1} /\ scenario'[M + 1] = p
      /\ \A n \in 1..M : scenario'[n] = scenario[n]
  <2>1. 1..(M + 1) = (1..M) \cup {M + 1}
    OBVIOUS
  <2> QED BY <1>1, <2>1 DEF Tabled
<1>3. Plans(u)' = Plans(u)
  BY <1>1, <1>2 DEF Plans, Exists
<1>4. \A n \in Plans(u) : InPlan(n)' = InPlan(n)
  BY <1>1, <1>2 DEF Plans, Exists, InPlan
<1> QED BY <1>3, <1>4 DEF Same, Rows, Live, Stations

LEMMA SameRelisted ==
  ASSUME Tabled, Sound, NEW u, NEW m, NEW l \in Seq(Nat), scenario[m].own # u, Exists(m),
         scenario' = [scenario EXCEPT ![m].list = l], UNCHANGED <<station, realization>>, asked'[u] = asked[u]
  PROVE  Same(u)
<1>1. DOMAIN scenario' = DOMAIN scenario /\ \A n \in DOMAIN scenario : n # m => scenario'[n] = scenario[n]
  OBVIOUS
<1>2. scenario[m] \in Plan /\ m \in DOMAIN scenario
  BY ListOf DEF Exists
<1>3. scenario'[m].own = scenario[m].own
  BY <1>2 DEF Plan
<1>4. Plans(u)' = Plans(u) /\ m \notin Plans(u)
  BY <1>1, <1>2, <1>3 DEF Plans, Exists
<1>5. \A n \in Plans(u) : InPlan(n)' = InPlan(n)
  BY <1>1, <1>4 DEF Plans, Exists, InPlan
<1> QED BY <1>4, <1>5 DEF Same, Rows, Live, Stations

LEMMA SameSaved ==
  ASSUME Tabled, NEW u \in Realizations, NEW r \in Realizations, u # r, NEW n, realization' = [realization EXCEPT ![r] = n],
         UNCHANGED <<station, scenario>>, asked'[u] = asked[u]
  PROVE  Same(u)
<1>1. realization'[u] = realization[u]
  BY DEF Tabled
<1> QED BY <1>1 DEF Same, Rows, Plans, InPlan, Live, Stations, Exists

LEMMA SameGone ==
  ASSUME Tabled, Sound, NEW u, NEW m, Exists(m), ~Referenced(m), Removed(m), scenario[m].own # u,
         UNCHANGED <<station, realization>>, asked'[u] = asked[u]
  PROVE  Same(u)
<1>1. /\ DOMAIN scenario' = DOMAIN scenario /\ ~scenario'[m].live
      /\ \A n \in DOMAIN scenario \ {m} : /\ scenario'[n].own = scenario[n].own /\ scenario'[n].live = scenario[n].live
                                          /\ scenario'[n].list = scenario[n].list
  BY Gone
<1>2. Plans(u)' = Plans(u) /\ m \notin Plans(u)
  BY <1>1 DEF Plans, Exists
<1>3. \A n \in Plans(u) : InPlan(n)' = InPlan(n)
  BY <1>1, <1>2 DEF Plans, Exists, InPlan
<1> QED BY <1>2, <1>3 DEF Same, Rows, Live, Stations

\* What a handler writes is its own realization's.
LEMMA NotOfOthers ==
  ASSUME OwnInv, NEW c \in Calls, NEW u, u # call[c].rz
  PROVE  /\ Ids(call[c].cur) \cap Rows(u) = {}
         /\ \A x \in Ids(call[c].cur) \cap Live : station[x].own # u
  BY DEF OwnInv, Adopts, Mine, Rows, Live

LEMMA OthersSync ==
  ASSUME OwnInv, AskedAll, NEW c \in Calls, NEW u \in Realizations, u # call[c].rz,
         ApplyDraft(c) \/ Prune(c) \/ Replace(c) \/ SaveRealization(c)
  PROVE  Same(u)
<1>1. PICK r : r = call[c]
  OBVIOUS
<1>2. CASE ApplyDraft(c)
  <2>1. CASE UNCHANGED <<tables, running, asked>>
    BY <2>1, SameUnmoved
  <2>2. ASSUME NEW s \in Row, NEW k \in Codes \cup {None, Random}, NEW q \in Job, Makes(c, r, s, k, q), SameElse(c, r, q)
        PROVE  Same(u)
    BY <1>1, <2>2, SameAdded DEF OwnInv, Makes, SameElse
  <2>3. ASSUME NEW x \in Live, NEW k \in Codes \cup {None, Random}, NEW q \in Job, Writes(c, r, x, k, q), SameElse(c, r, q)
        PROVE  Same(u)
    <3>1. station[x].own # u
      BY <1>1, <2>3, NotOfOthers DEF Writes
    <3> QED BY <2>3, <3>1, SameRecoded DEF OwnInv, Writes, SameElse
  <2> QED BY <1>1, <1>2, <2>1, <2>2, <2>3, DraftIs
<1>3. CASE Prune(c)
  <2>1. (Ids(r.cur) \ r.used) \cap Rows(u) = {}
    BY <1>1, NotOfOthers
  <2> QED BY <1>1, <1>3, <2>1, SameDropped DEF Prune, OwnInv
<1>4. CASE Replace(c)
  <2>1. CASE scenario' = scenario
    BY <1>4, <2>1, SameUnmoved DEF Replace, tables
  <2>2. CASE scenario' # scenario
    <3>1. Exists(r.scn) /\ scenario' = [scenario EXCEPT ![r.scn].list = r.next] /\ r.at = "replace"
          /\ UNCHANGED <<station, realization, asked>>
      BY <1>1, <1>4, <2>2 DEF Replace
    <3>2. r \in Job /\ Adopts(r)
      BY <1>1, <3>1, AtWork DEF OwnInv
    <3>3. scenario[r.scn].own = r.rz /\ r.next \in Seq(Nat)
      BY <3>1, <3>2 DEF Adopts, Exists, Job
    <3> QED BY <1>1, <3>1, <3>3, SameRelisted DEF OwnInv
  <2> QED BY <2>1, <2>2
<1>5. CASE SaveRealization(c)
  <2>1. r.at = "save" /\ UNCHANGED <<station, scenario>>
        /\ (UNCHANGED <<realization, asked>>
            \/ (realization' = [realization EXCEPT ![r.rz] = r.scn] /\ asked' = [asked EXCEPT ![r.rz] = Promised(r)]))
    BY <1>1, <1>5 DEF SaveRealization
  <2>2. r.rz \in Realizations
    BY <1>1, <2>1, AtWork DEF OwnInv
  <2>3. asked'[u] = asked[u]
    BY <1>1, <2>1 DEF AskedAll
  <2>4. CASE UNCHANGED <<realization, asked>>
    BY <2>1, <2>4, SameUnmoved DEF tables
  <2>5. CASE realization' = [realization EXCEPT ![r.rz] = r.scn]
    BY <1>1, <2>1, <2>2, <2>3, <2>5, SameSaved DEF OwnInv
  <2> QED BY <2>1, <2>4, <2>5
<1> QED BY <1>2, <1>3, <1>4, <1>5

LEMMA Others ==
  ASSUME OwnInv, AskedAll, NEW c \in Calls, Handle(c), NEW u \in Realizations, u # call[c].rz
  PROVE  Same(u)
<1>1. PICK r : r = call[c]
  OBVIOUS
<1>2. CASE StartUpdate(c) \/ ReadSource(c) \/ ReadCurrent(c) \/ StartDelete(c)
  <2>1. UNCHANGED tables /\ asked' = asked
    BY <1>2 DEF StartUpdate, ReadSource, ReadCurrent, StartDelete
  <2> QED BY <2>1, SameUnmoved
<1>3. CASE Discard(c) \/ DeleteStations(c)
  <2>1. Without(Ids(r.cur)) /\ UNCHANGED <<realization, asked>>
    BY <1>1, <1>3 DEF Discard, DeleteStations
  <2> QED BY <1>1, <2>1, NotOfOthers, SameDropped DEF OwnInv
<1>4. CASE CloneStation(c)
  <2>1. CASE UNCHANGED <<tables, running, asked>>
    BY <2>1, SameUnmoved
  <2>2. ASSUME NEW s \in Row, NEW k \in Codes \cup {None, Random}, NEW q \in Job, Clones(c, r, s, k, q)
        PROVE  Same(u)
    BY <1>1, <2>2, SameAdded DEF OwnInv, Clones
  <2> QED BY <1>1, <1>4, <2>1, <2>2, CloneIs
<1>5. CASE AddScenario(c)
  <2>1. CASE scenario' = scenario
    BY <1>5, <2>1, SameUnmoved DEF AddScenario, tables
  <2>2. CASE scenario' # scenario
    <3>1. PICK from : from = IF scenario[r.from].tmpl = 0 THEN r.from ELSE scenario[r.from].tmpl
      OBVIOUS
    <3>2. scenario' = Append(scenario, [own |-> r.rz, tmpl |-> from, list |-> r.next, live |-> TRUE])
          /\ r.at = "clone" /\ UNCHANGED <<station, realization, asked>>
      BY <1>1, <1>5, <2>2, <3>1 DEF AddScenario
    <3>3. r \in Job /\ Adopts(r) /\ r.rz \in Realizations
      BY <1>1, <3>2, AtWork DEF OwnInv
    <3>4. from \in Nat /\ r.next \in Seq(Nat)
      <4>1. scenario[r.from] \in Plan /\ r.from \in Nat
        BY <3>2, <3>3, ListOf DEF Adopts, OwnInv
      <4> QED BY <3>1, <3>3, <4>1 DEF Plan, Job
    <3>5. PICK p : p = [own |-> r.rz, tmpl |-> from, list |-> r.next, live |-> TRUE]
      OBVIOUS
    <3>6. p \in Plan /\ p.own = r.rz
      BY <3>3, <3>4, <3>5 DEF Plan
    <3> QED BY <1>1, <3>2, <3>5, <3>6, SamePlanned DEF OwnInv
  <2> QED BY <2>1, <2>2
<1>6. CASE DropScenario(c)
  <2>1. CASE scenario' = scenario
    BY <1>6, <2>1, SameUnmoved DEF DropScenario, tables
  <2>2. CASE scenario' # scenario
    <3>1. Exists(r.old) /\ ~Referenced(r.old) /\ Removed(r.old) /\ UNCHANGED <<station, realization, asked>>
      BY <1>1, <1>6, <2>2 DEF DropScenario
    <3>2. r.old # 0
      BY <3>1, ListOf DEF OwnInv, Exists
    <3>3. scenario[r.old].own = r.rz
      BY <1>1, <3>1, <3>2 DEF OwnInv, Adopts, Exists
    <3> QED BY <1>1, <3>1, <3>3, SameGone DEF OwnInv
  <2> QED BY <2>1, <2>2
<1>7. CASE DeleteRow(c)
  <2>1. r.at = "row" /\ UNCHANGED <<station, scenario>>
        /\ (UNCHANGED <<realization, asked>>
            \/ (realization' = [realization EXCEPT ![r.rz] = 0] /\ asked' = [asked EXCEPT ![r.rz] = {}]))
    BY <1>1, <1>7 DEF DeleteRow
  <2>2. r.rz \in Realizations
    BY <1>1, <2>1, AtWork DEF OwnInv
  <2>3. asked'[u] = asked[u]
    BY <1>1, <2>1 DEF AskedAll
  <2>4. CASE UNCHANGED <<realization, asked>>
    BY <2>1, <2>4, SameUnmoved DEF tables
  <2>5. CASE realization' = [realization EXCEPT ![r.rz] = 0]
    BY <1>1, <2>1, <2>2, <2>3, <2>5, SameSaved DEF OwnInv
  <2> QED BY <2>1, <2>4, <2>5
<1> QED BY <1>2, <1>3, <1>4, <1>5, <1>6, <1>7, OthersSync DEF Handle

-----------------------------------------------------------------------------
(* A handler goes on or ends, and everything of its realization is as it   *)
(* should be at that stage; the other realizations stay as they are.       *)

LEMMA Moved ==
  ASSUME OwnInv, LeftInv, NEW c \in Calls, NEW q, Put(c, q), NEW r \in Realizations, r = call[c].rz,
         q = NoCall \/ q.rz = r, AskedAll', touched \subseteq touched',
         \A u \in Realizations : u # r => Same(u),
         r \notin touched' => IF q = NoCall THEN Complete(r)' /\ Answered(r)' ELSE Progress(q)' /\ Given(q)'
  PROVE  LeftInv'
<1>1. call'[c] = q /\ \A d \in Calls \ {c} : call'[d] = call[d]
  BY DEF OwnInv, Called, Put
<1>2. NoCall.rz \notin Realizations
  BY Names DEF NoCall
<1>3. OneEach'
  <2> SUFFICES ASSUME NEW d \in Calls, NEW e \in Calls, call'[d].rz \in Realizations \ touched', call'[d].rz = call'[e].rz PROVE d = e
    BY DEF OneEach
  <2>1. \A b \in Calls : call'[b].rz \in Realizations => call[b].rz = call'[b].rz
    BY <1>1, <1>2
  <2> QED BY <2>1 DEF LeftInv, OneEach
<1>4. ASSUME NEW u \in Realizations \ touched', ~Busy(u)' PROVE Complete(u)' /\ Answered(u)'
  <2>1. CASE u = r
    <3>1. q = NoCall
      BY <1>1, <1>4, <2>1 DEF Busy
    <3> QED BY <1>4, <2>1, <3>1
  <2>2. CASE u # r
    <3>1. ~Busy(u)
      BY <1>1, <1>4, <2>2 DEF Busy
    <3>2. Complete(u) /\ Answered(u)
      BY <1>4, <3>1 DEF LeftInv
    <3> QED BY <2>2, <3>2, SameRest
  <2> QED BY <2>1, <2>2
<1>5. ASSUME NEW d \in Calls, call'[d].rz \in Realizations \ touched' PROVE Progress(call[d])' /\ Given(call[d])'
  <2>1. CASE d = c
    <3>1. q # NoCall /\ q.rz = r /\ r \notin touched'
      BY <1>1, <1>2, <1>5, <2>1
    <3>2. Progress(q)' /\ Given(q)'
      BY <3>1
    <3> QED BY <1>1, <2>1, <3>2
  <2>2. CASE d # c
    <3>1. PICK j : j = call[d]
      OBVIOUS
    <3>2. call'[d] = j /\ j.rz \in Realizations \ touched' /\ j.rz \in Realizations \ touched
      BY <1>1, <1>5, <2>2, <3>1
    <3>3. j.rz # r
      BY <2>2, <3>1, <3>2 DEF LeftInv, OneEach
    <3>4. Progress(j) /\ Given(j)
      BY <3>1, <3>2 DEF LeftInv
    <3>5. Progress(j)' /\ Given(j)'
      BY <3>2, <3>3, <3>4, SameProgress, SameGiven
    <3> QED BY <3>2, <3>5
  <2> QED BY <2>1, <2>2
<1> QED BY <1>3, <1>4, <1>5 DEF LeftInv

\* A handler that throws vouches for nothing any more.
LEMMA ThrowLeft ==
  ASSUME OwnInv, LeftInv, NEW c \in Calls, call[c] # NoCall, Throw(c), asked' = asked,
         \A u \in Realizations : u # call[c].rz => Same(u)
  PROVE  LeftInv'
<1>1. PICK r : r = call[c].rz
  OBVIOUS
<1>2. r \in Realizations
  BY <1>1 DEF OwnInv, Called, Works
<1>3. touched' = touched \cup {r} /\ Put(c, NoCall)
  BY <1>1 DEF Throw
<1>4. AskedAll'
  BY DEF LeftInv, AskedAll
<1> QED BY <1>1, <1>2, <1>3, <1>4, Moved

LEMMA Working ==
  ASSUME OwnInv, LeftInv, NEW c \in Calls, Handle(c), NEW r, r = call[c]
  PROVE  /\ r \in Job /\ r # NoCall /\ r.rz \in Realizations /\ r.op \in Ops /\ Adopts(r)
         /\ \A u \in Realizations : u # r.rz => Same(u)
         /\ r.rz \notin touched => Progress(r) /\ Given(r)
<1>1. r.at # "idle" \/ r.op # None
  <2>1. \/ r.op = "update" \/ r.op = "delete"
        \/ r.at \in {"discard", "adopt", "clone", "sync", "draft", "replace", "save", "drop", "stations", "row"}
    BY DEF Handle, StartUpdate, Discard, ReadSource, CloneStation, AddScenario, ReadCurrent, ApplyDraft, Prune, Replace,
           SaveRealization, DropScenario, StartDelete, DeleteStations, DeleteRow
  <2> QED BY <2>1 DEF None
<1>2. r \in Job /\ r # NoCall /\ r.rz \in Realizations /\ r.op \in Ops
  BY <1>1, AtWork DEF OwnInv
<1>3. Adopts(r)
  BY DEF OwnInv
<1>4. \A u \in Realizations : u # r.rz => Same(u)
  BY Others DEF LeftInv
<1>5. r.rz \notin touched => Progress(r) /\ Given(r)
  BY <1>2 DEF LeftInv
<1> QED BY <1>2, <1>3, <1>4, <1>5

\* A handler that only reads.
LEMMA ReadLeft ==
  ASSUME OwnInv, LeftInv, NEW c \in Calls, Handle(c), UNCHANGED <<tables, touched, asked>>, NEW r, r = call[c],
         NEW q, Put(c, q), q.rz = r.rz, r.rz \notin touched => Progress(q) /\ Given(q)
  PROVE  LeftInv'
<1>1. r.rz \in Realizations /\ \A u \in Realizations : u # r.rz => Same(u)
  BY Working
<1>2. AskedAll'
  BY DEF LeftInv, AskedAll
<1>3. Same(q.rz)
  BY SameUnmoved
<1>4. r.rz \notin touched => Progress(q)' /\ Given(q)'
  BY <1>3, SameProgress, SameGiven
<1>5. q # NoCall
  BY <1>1, Names DEF NoCall
<1> QED BY <1>1, <1>2, <1>4, <1>5, Moved

LEMMA LeftStartUpdate == ASSUME OwnInv, LeftInv, NEW c \in Calls, StartUpdate(c) PROVE LeftInv'
<1>1. PICK r : r = call[c]
  OBVIOUS
<1>0. Handle(c)
  BY DEF Handle
<1>2. r.op = "update" /\ r.at = "start" /\ UNCHANGED <<tables, asked>>
  BY <1>1 DEF StartUpdate
<1>3. /\ r \in Job /\ r # NoCall /\ r.rz \in Realizations /\ Adopts(r) /\ r.next = <<>>
      /\ \A u \in Realizations : u # r.rz => Same(u)
      /\ r.rz \notin touched => Progress(r) /\ Given(r)
  BY <1>0, <1>1, <1>2, Working DEF Adopts
<1>4. PICK now \in Nat : now = realization[r.rz]
  BY <1>3 DEF OwnInv, Tabled
<1>5. CASE now = 0 \/ ~Exists(r.from)
  BY <1>1, <1>2, <1>3, <1>4, <1>5, ThrowLeft DEF StartUpdate
<1>6. CASE ~(now = 0 \/ ~Exists(r.from))
  <2>1. now \in DOMAIN scenario /\ scenario[now].own = r.rz /\ Tabled /\ Sound
    BY <1>3, <1>4, <1>6, ScenarioOf DEF OwnInv
  <2>2. touched' = touched /\ Put(c, IF r.from = now \/ scenario[now].tmpl = r.from THEN [r EXCEPT !.at = "sync", !.scn = now]
                                     ELSE IF scenario[now].own = r.rz
                                     THEN [r EXCEPT !.at = "discard", !.old = now, !.cur = Read(scenario[now].list)]
                                     ELSE [r EXCEPT !.at = "adopt"])
    BY <1>1, <1>4, <1>6 DEF StartUpdate
  <2>3. CASE r.from = now \/ scenario[now].tmpl = r.from
    <3>1. PICK q : q = [r EXCEPT !.at = "sync", !.scn = now]
      OBVIOUS
    <3>2. /\ q.op = r.op /\ q.at = "sync" /\ q.rz = r.rz /\ q.old = r.old /\ q.scn = now /\ q.next = r.next /\ q.used = r.used
      BY <1>3, <1>4, <3>1 DEF Job
    <3>3. ASSUME r.rz \notin touched PROVE Progress(q) /\ Given(q)
      <4>1. Complete(r.rz) /\ r.old = 0 /\ r.used = {}
        BY <1>2, <1>3, <3>3 DEF Progress
      <4>2. Beside(q) /\ Rows(q.rz) = InPlan(q.scn)
        BY <1>2, <1>4, <1>6, <3>2, <4>1 DEF Beside, Complete
      <4> QED BY <1>2, <1>3, <3>2, <4>1, <4>2 DEF Progress, Given
    <3> QED BY <1>0, <1>1, <1>2, <2>2, <2>3, <3>1, <3>2, <3>3, ReadLeft
  <2>4. CASE ~(r.from = now \/ scenario[now].tmpl = r.from)
    <3>1. PICK seen : seen = Read(scenario[now].list)
      OBVIOUS
    <3>2. Ids(seen) = InPlan(now)
      BY <2>1, <3>1, ListOf, ReadIs DEF InPlan
    <3>3. PICK q : q = [r EXCEPT !.at = "discard", !.old = now, !.cur = seen]
      OBVIOUS
    <3>4. q.op = r.op /\ q.at = "discard" /\ q.rz = r.rz /\ q.old = now /\ q.cur = seen /\ q.used = r.used
      BY <1>3, <3>3 DEF Job
    <3>5. ASSUME r.rz \notin touched PROVE Progress(q) /\ Given(q)
      <4>1. Complete(r.rz) /\ r.used = {}
        BY <1>2, <1>3, <3>5 DEF Progress
      <4> QED BY <1>2, <1>4, <1>6, <3>2, <3>4, <4>1 DEF Progress, Given
    <3>6. Put(c, q)
      BY <2>1, <2>2, <2>4, <3>1, <3>3
    <3> QED BY <1>0, <1>1, <1>2, <2>2, <3>4, <3>5, <3>6, ReadLeft
  <2> QED BY <2>3, <2>4
<1> QED BY <1>5, <1>6

LEMMA LeftReadSource == ASSUME OwnInv, LeftInv, NEW c \in Calls, ReadSource(c) PROVE LeftInv'
<1>1. PICK r : r = call[c]
  OBVIOUS
<1>0. Handle(c)
  BY DEF Handle
<1>2. r.at = "adopt" /\ UNCHANGED <<tables, asked>>
  BY <1>1 DEF ReadSource
<1>3. /\ r \in Job /\ r # NoCall /\ r.rz \in Realizations /\ r.next = <<>>
      /\ \A u \in Realizations : u # r.rz => Same(u)
      /\ r.rz \notin touched => Progress(r) /\ Given(r)
  BY <1>0, <1>1, <1>2, Working DEF Adopts
<1>4. CASE ~Exists(r.from)
  BY <1>1, <1>2, <1>3, <1>4, ThrowLeft DEF ReadSource
<1>5. CASE Exists(r.from)
  <2>1. PICK src : src = Copies(r.from, r.rz)
    OBVIOUS
  <2>2. PICK q : q = [r EXCEPT !.at = "clone", !.src = src]
    OBVIOUS
  <2>3. q.op = r.op /\ q.at = "clone" /\ q.rz = r.rz /\ q.old = r.old /\ q.next = r.next /\ q.used = r.used
    BY <1>3, <2>2 DEF Job
  <2>4. ASSUME r.rz \notin touched PROVE Progress(q) /\ Given(q)
    <3>1. ToSet(q.next) = {}
      BY <1>3, <2>3 DEF ToSet
    <3> QED BY <1>2, <1>3, <2>3, <2>4, <3>1 DEF Progress, Given
  <2>5. Put(c, q) /\ touched' = touched
    BY <1>1, <1>5, <2>1, <2>2 DEF ReadSource
  <2> QED BY <1>0, <1>1, <1>2, <2>3, <2>4, <2>5, ReadLeft
<1> QED BY <1>4, <1>5

LEMMA LeftStartDelete == ASSUME OwnInv, LeftInv, NEW c \in Calls, StartDelete(c) PROVE LeftInv'
<1>1. PICK r : r = call[c]
  OBVIOUS
<1>0. Handle(c)
  BY DEF Handle
<1>2. r.op = "delete" /\ r.at = "start" /\ UNCHANGED <<tables, touched, asked>>
  BY <1>1 DEF StartDelete
<1>3. /\ r \in Job /\ r.rz \in Realizations
      /\ \A u \in Realizations : u # r.rz => Same(u)
      /\ r.rz \notin touched => Progress(r) /\ Given(r)
  BY <1>0, <1>1, <1>2, Working
<1>4. PICK now \in Nat : now = realization[r.rz]
  BY <1>3 DEF OwnInv, Tabled
<1>5. CASE now = 0 \/ r.rz \in running
  <2>1. Put(c, NoCall)
    BY <1>1, <1>4, <1>5 DEF StartDelete
  <2>2. Same(r.rz)
    BY <1>2, SameUnmoved
  <2>3. r.rz \notin touched' => Complete(r.rz)' /\ Answered(r.rz)'
    BY <1>2, <1>3, <2>2, SameRest DEF Progress, Given
  <2>4. AskedAll'
    BY <1>2 DEF LeftInv, AskedAll
  <2> QED BY <1>1, <1>2, <1>3, <2>1, <2>3, <2>4, Moved
<1>6. CASE ~(now = 0 \/ r.rz \in running)
  <2>1. now \in DOMAIN scenario
    BY <1>3, <1>4, <1>6, ScenarioOf DEF OwnInv
  <2>2. PICK seen : seen = Read(scenario[now].list)
    OBVIOUS
  <2>3. Ids(seen) = InPlan(now)
    BY <2>1, <2>2, ListOf, ReadIs DEF OwnInv, InPlan
  <2>4. PICK q : q = [r EXCEPT !.at = "stations", !.old = now, !.cur = seen]
    OBVIOUS
  <2>5. q.op = r.op /\ q.at = "stations" /\ q.rz = r.rz /\ q.old = now /\ q.cur = seen
    BY <1>3, <2>4 DEF Job
  <2>6. r.rz \notin touched => Progress(q) /\ Given(q)
    BY <1>2, <1>3, <1>4, <1>6, <2>3, <2>5 DEF Progress, Given
  <2>7. Put(c, q)
    BY <1>1, <1>4, <1>6, <2>2, <2>4 DEF StartDelete
  <2> QED BY <1>0, <1>1, <1>2, <2>5, <2>6, <2>7, ReadLeft
<1> QED BY <1>5, <1>6

LEMMA LeftReadCurrent == ASSUME OwnInv, LeftInv, NEW c \in Calls, ReadCurrent(c) PROVE LeftInv'
<1>1. PICK r : r = call[c]
  OBVIOUS
<1>0. Handle(c)
  BY DEF Handle
<1>2. r.at = "sync" /\ UNCHANGED <<tables, touched, asked>>
  BY <1>1 DEF ReadCurrent
<1>3. /\ r \in Job /\ r.rz \in Realizations /\ Adopts(r)
      /\ r.rz \notin touched => Progress(r) /\ Given(r)
  BY <1>0, <1>1, <1>2, Working
<1>4. r.scn \in DOMAIN scenario
  BY <1>2, <1>3 DEF Adopts
<1>5. PICK list \in Seq(Nat) : list = scenario[r.scn].list /\ ToSet(list) \subseteq Live
  BY <1>4, ListOf DEF OwnInv
<1>6. PICK seen : seen = Read(list)
  OBVIOUS
<1>7. /\ Ids(seen) = ToSet(list) /\ DOMAIN seen = DOMAIN list
      /\ \A i \in DOMAIN list : seen[i].id = list[i] /\ seen[i].code = station[list[i]].code
  BY <1>5, <1>6, ReadIs DEF OwnInv
<1>8. PICK a : a = IF r.drafts = <<>> THEN "save" ELSE "draft"
  OBVIOUS
<1>9. PICK q : q = [r EXCEPT !.cur = seen, !.at = a]
  OBVIOUS
<1>10. q.op = r.op /\ q.at = a /\ q.rz = r.rz /\ q.old = r.old /\ q.scn = r.scn /\ q.cur = seen /\ q.next = r.next
       /\ q.used = r.used /\ q.drafts = r.drafts
  BY <1>3, <1>9 DEF Job
<1>11. ASSUME r.rz \notin touched PROVE Progress(q) /\ Given(q)
  <2>1. Beside(r) /\ r.op # "delete" /\ Rows(r.rz) = InPlan(r.scn) /\ r.next = <<>> /\ r.used = {}
    BY <1>2, <1>3, <1>11 DEF Progress
  <2>2. Beside(q) /\ q.op # "delete" /\ Rows(q.rz) = InPlan(q.scn) /\ q.next = <<>> /\ q.used = {}
    BY <1>10, <2>1 DEF Beside
  <2>3. ToSet(q.next) = {} /\ Ids(q.cur) = InPlan(q.scn) /\ a \in {"save", "draft"} /\ DOMAIN q.next = {} /\ Len(q.next) = 0
    BY <1>5, <1>7, <1>8, <1>10, <2>2 DEF ToSet, InPlan
  <2>4. Len(q.drafts) \in Nat /\ IsInjective(q.next)
    BY <1>3, <1>10, <2>3 DEF Job, IsInjective
  <2>5. Progress(q)
    BY <1>10, <2>2, <2>3 DEF Progress
  <2>6. \A s \in Rows(q.rz) : Source(q, s)
    <3> SUFFICES ASSUME NEW s \in Rows(q.rz) PROVE \E k \in DOMAIN q.cur : q.cur[k].id = s /\ q.cur[k].code = station[s].code
      BY DEF Source
    <3>1. s \in ToSet(list)
      BY <1>5, <1>10, <2>2 DEF InPlan
    <3>2. PICK k \in DOMAIN list : list[k] = s
      BY <3>1 DEF ToSet
    <3> QED BY <1>7, <1>10, <3>2
  <2>7. Given(q)
    BY <1>10, <2>3, <2>4, <2>6 DEF Given
  <2> QED BY <2>5, <2>7
<1>12. Put(c, q)
  BY <1>1, <1>5, <1>6, <1>8, <1>9 DEF ReadCurrent
<1> QED BY <1>0, <1>1, <1>2, <1>10, <1>11, <1>12, ReadLeft

\* What a realization has after rows are gone.
LEMMA DroppedOwn ==
  ASSUME Tabled, Sound, NEW S, Without(S), UNCHANGED realization, NEW u
  PROVE  /\ Rows(u)' = Rows(u) \ S /\ Plans(u)' = Plans(u) /\ \A n \in Plans(u) : InPlan(n)' = InPlan(n) \ S
         /\ \A s \in Rows(u) \ S : station'[s].code = station[s].code
<1>1. /\ Live' = Live \ S /\ DOMAIN scenario' = DOMAIN scenario
      /\ \A s \in Live' : station'[s].own = station[s].own /\ station'[s].code = station[s].code
      /\ \A n \in DOMAIN scenario :
           /\ scenario'[n].own = scenario[n].own /\ scenario'[n].live = scenario[n].live
           /\ ToSet(scenario'[n].list) = ToSet(scenario[n].list) \ S
  BY Dropped
<1>2. Rows(u)' = Rows(u) \ S /\ \A s \in Rows(u) \ S : station'[s].code = station[s].code
  BY <1>1 DEF Rows
<1>3. Plans(u)' = Plans(u)
  BY <1>1 DEF Plans, Exists
<1>4. \A n \in Plans(u) : InPlan(n)' = InPlan(n) \ S
  BY <1>1, PlanRows DEF InPlan
<1> QED BY <1>2, <1>3, <1>4

\* A handler that deletes all its realization had; a later stage is left with an empty scenario.
LEMMA LeftCleared ==
  ASSUME OwnInv, LeftInv, NEW c \in Calls, Handle(c), NEW r, r = call[c], r.at \in {"discard", "stations"},
         Without(Ids(r.cur)), UNCHANGED <<realization, touched, asked>>,
         NEW q, Put(c, q), q.op = r.op, q.rz = r.rz, q.old = r.old, q.used = r.used,
         q.at = IF r.at = "discard" THEN "adopt" ELSE "row"
  PROVE  LeftInv'
<1>1. /\ r.rz \in Realizations
      /\ \A u \in Realizations : u # r.rz => Same(u)
      /\ r.rz \notin touched => Progress(r) /\ Given(r)
  BY Working
<1>2. ASSUME r.rz \notin touched PROVE Progress(q)' /\ Given(q)'
  <2>1. Complete(r.rz) /\ realization[r.rz] # 0 /\ r.old = realization[r.rz] /\ Ids(r.cur) = InPlan(r.old)
        /\ (r.at = "discard" => r.op = "update" /\ r.used = {}) /\ (r.at = "stations" => r.op = "delete")
    BY <1>1, <1>2 DEF Progress
  <2>2. Plans(r.rz) = {r.old} /\ Rows(r.rz) = InPlan(r.old)
    BY <2>1 DEF Complete
  <2>3. Rows(r.rz)' = {} /\ Plans(r.rz)' = {r.old} /\ InPlan(r.old)' = {}
    <3>1. PICK S : S = Ids(r.cur)
      OBVIOUS
    <3>2. Rows(r.rz)' = Rows(r.rz) \ S /\ Plans(r.rz)' = Plans(r.rz) /\ \A n \in Plans(r.rz) : InPlan(n)' = InPlan(n) \ S
      BY <3>1, DroppedOwn DEF OwnInv
    <3> QED BY <2>1, <2>2, <3>1, <3>2
  <2>4. Emptied(q.rz, q.old)' /\ Rows(q.rz)' = {}
    BY <2>1, <2>3 DEF Emptied
  <2> QED BY <2>1, <2>4 DEF Progress, Given
<1>3. q # NoCall
  BY <1>1, Names DEF NoCall
<1>4. AskedAll'
  BY DEF LeftInv, AskedAll
<1> QED BY <1>1, <1>2, <1>3, <1>4, Moved

LEMMA LeftDiscard == ASSUME OwnInv, LeftInv, NEW c \in Calls, Discard(c) PROVE LeftInv'
<1>1. PICK r : r = call[c]
  OBVIOUS
<1>0. Handle(c)
  BY DEF Handle
<1>2. r.at = "discard" /\ Without(Ids(r.cur)) /\ UNCHANGED <<realization, touched, asked>>
  BY <1>1 DEF Discard
<1>3. r \in Job
  BY <1>0, <1>1, Working
<1>4. PICK e : e = <<>>
  OBVIOUS
<1>5. PICK q : q = [r EXCEPT !.at = "adopt", !.cur = e]
  OBVIOUS
<1>6. Put(c, q)
  BY <1>1, <1>4, <1>5 DEF Discard
<1>7. q.op = r.op /\ q.rz = r.rz /\ q.old = r.old /\ q.used = r.used /\ q.at = "adopt"
  BY <1>3, <1>5 DEF Job
<1> QED BY <1>0, <1>1, <1>2, <1>6, <1>7, LeftCleared

LEMMA LeftDeleteStations == ASSUME OwnInv, LeftInv, NEW c \in Calls, DeleteStations(c) PROVE LeftInv'
<1>1. PICK r : r = call[c]
  OBVIOUS
<1>0. Handle(c)
  BY DEF Handle
<1>2. r.at = "stations" /\ Without(Ids(r.cur)) /\ UNCHANGED <<realization, touched, asked>>
  BY <1>1 DEF DeleteStations
<1>3. r \in Job
  BY <1>0, <1>1, Working
<1>4. PICK q : q = [r EXCEPT !.at = "row"]
  OBVIOUS
<1>5. Put(c, q)
  BY <1>1, <1>4 DEF DeleteStations
<1>6. q.op = r.op /\ q.rz = r.rz /\ q.old = r.old /\ q.used = r.used /\ q.at = "row"
  BY <1>3, <1>4 DEF Job
<1> QED BY <1>0, <1>1, <1>2, <1>5, <1>6, LeftCleared

\* What a realization has after a row of its own is made.
LEMMA AddedOwn ==
  ASSUME Tabled, Sound, NEW s \in Row, s.live, NEW x \in Nat, x = Len(station) + 1, station' = Append(station, s),
         UNCHANGED <<scenario, realization>>
  PROVE  /\ Rows(s.own)' = Rows(s.own) \cup {x} /\ x \notin Rows(s.own)
         /\ Plans(s.own)' = Plans(s.own) /\ \A n \in Plans(s.own) : InPlan(n)' = InPlan(n)
         /\ station'[x] = s /\ \A u \in Rows(s.own) : station'[u].code = station[u].code
<1>1. PICK N \in Nat : N = Len(station) /\ DOMAIN station = 1..N /\ x = N + 1
  BY DEF Tabled
<1>2. /\ DOMAIN station' = (1..N) \cup {x} /\ station'[x] = s
      /\ \A u \in 1..N : station'[u] = station[u]
  <2>1. 1..(N + 1) = (1..N) \cup {N + 1}
    OBVIOUS
  <2> QED BY <1>1, <2>1 DEF Tabled
<1>3. Rows(s.own)' = Rows(s.own) \cup {x} /\ x \notin Rows(s.own)
  BY <1>1, <1>2 DEF Rows, Live, Stations
<1>4. \A u \in Rows(s.own) : station'[u].code = station[u].code
  BY <1>1, <1>2 DEF Rows, Live, Stations
<1> QED BY <1>2, <1>3, <1>4 DEF Plans, InPlan, Exists

LEMMA LeftCloneStation == ASSUME OwnInv, LeftInv, NEW c \in Calls, CloneStation(c) PROVE LeftInv'
<1>1. PICK r : r = call[c]
  OBVIOUS
<1>0. Handle(c)
  BY DEF Handle
<1>3. r.at = "clone"
  BY <1>1 DEF CloneStation
<1>4. /\ r \in Job /\ r # NoCall /\ r.rz \in Realizations /\ r.next \in Seq(Nat)
      /\ \A u \in Realizations : u # r.rz => Same(u)
      /\ r.rz \notin touched => Progress(r) /\ Given(r)
  <2>1. /\ r \in Job /\ r # NoCall /\ r.rz \in Realizations
        /\ \A u \in Realizations : u # r.rz => Same(u)
        /\ r.rz \notin touched => Progress(r) /\ Given(r)
    BY <1>0, <1>1, Working
  <2> QED BY <2>1 DEF Job
<1>10. CASE UNCHANGED <<tables, running, asked>> /\ Throw(c)
  BY <1>1, <1>4, <1>10, ThrowLeft
<1> SUFFICES ASSUME ~(UNCHANGED <<tables, running, asked>> /\ Throw(c)) PROVE LeftInv'
  BY <1>10
<1>2. PICK s \in Row, k \in Codes \cup {None, Random}, q \in Job : Clones(c, r, s, k, q)
  BY <1>1, CloneIs
<1>5. PICK x \in Nat : x = Len(station) + 1
  BY DEF OwnInv, Tabled
<1>6. /\ s.own = r.rz /\ s.live /\ station' = Append(station, s) /\ UNCHANGED <<scenario, realization, touched, asked>>
      /\ q.op = r.op /\ q.at = "clone" /\ q.rz = r.rz /\ q.old = r.old /\ q.used = r.used
      /\ q.next = Append(r.next, x) /\ Put(c, q)
  BY <1>2, <1>5 DEF Clones
<1>7. ASSUME r.rz \notin touched PROVE Progress(q)' /\ Given(q)'
  <2>1. Emptied(r.rz, r.old) /\ Rows(r.rz) = ToSet(r.next) /\ (r.op = "create") = (r.old = 0) /\ r.op # "delete" /\ r.used = {}
    BY <1>3, <1>4, <1>7 DEF Progress
  <2>2. /\ Rows(r.rz)' = Rows(r.rz) \cup {x} /\ Plans(r.rz)' = Plans(r.rz)
        /\ \A n \in Plans(r.rz) : InPlan(n)' = InPlan(n)
    BY <1>5, <1>6, AddedOwn DEF OwnInv
  <2>3. ToSet(q.next) = ToSet(r.next) \cup {x}
    BY <1>4, <1>6, AppendedSet
  <2>4. Emptied(q.rz, q.old)'
    BY <1>6, <2>1, <2>2 DEF Emptied
  <2> QED BY <1>6, <2>1, <2>2, <2>3, <2>4 DEF Progress, Given
<1>8. q # NoCall
  BY <1>4, <1>6, Names DEF NoCall
<1>9. AskedAll'
  BY <1>6 DEF LeftInv, AskedAll
<1> QED BY <1>1, <1>4, <1>6, <1>7, <1>8, <1>9, Moved

LEMMA LeftAddScenario == ASSUME OwnInv, LeftInv, NEW c \in Calls, AddScenario(c) PROVE LeftInv'
<1>1. PICK r : r = call[c]
  OBVIOUS
<1>0. Handle(c)
  BY DEF Handle
<1>2. r.at = "clone" /\ Len(scenario) < MaxScenarios /\ UNCHANGED <<station, realization, asked>>
  BY <1>1 DEF AddScenario
<1>3. /\ r \in Job /\ r # NoCall /\ r.rz \in Realizations /\ Adopts(r) /\ r.next \in Seq(Nat)
      /\ \A u \in Realizations : u # r.rz => Same(u)
      /\ r.rz \notin touched => Progress(r) /\ Given(r)
  <2>1. /\ r \in Job /\ r # NoCall /\ r.rz \in Realizations /\ Adopts(r)
        /\ \A u \in Realizations : u # r.rz => Same(u)
        /\ r.rz \notin touched => Progress(r) /\ Given(r)
    BY <1>0, <1>1, Working
  <2> QED BY <2>1 DEF Job
<1>6. PICK from : from = IF scenario[r.from].tmpl = 0 THEN r.from ELSE scenario[r.from].tmpl
  OBVIOUS
<1>4. CASE ~(ToSet(r.next) \subseteq Live /\ Exists(from))
  BY <1>1, <1>2, <1>3, <1>4, <1>6, ThrowLeft DEF AddScenario
<1>5. CASE ToSet(r.next) \subseteq Live /\ Exists(from)
  <2>1. from = IF scenario[r.from].tmpl = 0 THEN r.from ELSE scenario[r.from].tmpl
    BY <1>6
  <2>2. PICK p : p = [own |-> r.rz, tmpl |-> from, list |-> r.next, live |-> TRUE]
    OBVIOUS
  <2>3. PICK x \in Nat : x = Len(scenario) + 1
    BY DEF OwnInv, Tabled
  <2>4. PICK e : e = <<>>
    OBVIOUS
  <2>5. PICK q : q = [r EXCEPT !.at = "sync", !.scn = x, !.next = e]
    OBVIOUS
  <2>6. scenario' = Append(scenario, p) /\ Put(c, q) /\ touched' = touched
    BY <1>1, <1>5, <2>1, <2>2, <2>3, <2>4, <2>5 DEF AddScenario
  <2>7. q.op = r.op /\ q.at = "sync" /\ q.rz = r.rz /\ q.old = r.old /\ q.scn = x /\ q.next = e /\ q.used = r.used
    BY <1>3, <2>5 DEF Job
  <2>8. /\ DOMAIN scenario' = DOMAIN scenario \cup {x} /\ x \notin DOMAIN scenario /\ x # 0
        /\ scenario'[x] = p /\ \A n \in DOMAIN scenario : scenario'[n] = scenario[n]
    <3>1. PICK M \in Nat : M = Len(scenario) /\ DOMAIN scenario = 1..M
      BY DEF OwnInv, Tabled
    <3>0. x = M + 1
      BY <2>3, <3>1
    <3>2. 1..(M + 1) = (1..M) \cup {M + 1}
      OBVIOUS
    <3> QED BY <2>6, <3>0, <3>1, <3>2 DEF OwnInv, Tabled
  <2>9. ASSUME r.rz \notin touched PROVE Progress(q)' /\ Given(q)'
    <3>1. Emptied(r.rz, r.old) /\ Rows(r.rz) = ToSet(r.next) /\ (r.op = "create") = (r.old = 0) /\ r.op # "delete" /\ r.used = {}
      BY <1>2, <1>3, <2>9 DEF Progress
    <3>2. Plans(r.rz)' = Plans(r.rz) \cup {x} /\ InPlan(x)' = ToSet(r.next)
      BY <2>2, <2>8 DEF Plans, Exists, InPlan
    <3>3. Rows(r.rz)' = Rows(r.rz)
      BY <1>2 DEF Rows, Live, Stations
    <3>4. x # r.old
      BY <2>8, <3>1 DEF Emptied, Plans
    <3>5. Beside(q)'
      BY <1>2, <2>7, <2>8, <3>1, <3>2, <3>4 DEF Beside, Emptied
    <3> QED BY <2>4, <2>7, <3>1, <3>2, <3>3, <3>5 DEF Progress, Given
  <2>10. q # NoCall
    BY <1>3, <2>7, Names DEF NoCall
  <2>11. AskedAll'
    BY <1>2 DEF LeftInv, AskedAll
  <2> QED BY <1>1, <1>3, <2>6, <2>7, <2>9, <2>10, <2>11, Moved
<1> QED BY <1>4, <1>5

\* The stations without a draft go: those with one are what stays.
LEMMA LeftPrune == ASSUME OwnInv, LeftInv, NEW c \in Calls, Prune(c) PROVE LeftInv'
<1>1. PICK r : r = call[c]
  OBVIOUS
<1>0. Handle(c)
  BY DEF Handle
<1>2. r.at = "draft" /\ Without(Ids(r.cur) \ r.used) /\ UNCHANGED <<realization, touched, asked>>
  BY <1>1 DEF Prune
<1>3. /\ r \in Job /\ r.rz \in Realizations
      /\ \A u \in Realizations : u # r.rz => Same(u)
      /\ r.rz \notin touched => Progress(r) /\ Given(r)
  BY <1>0, <1>1, Working
<1>4. PICK q : q = [r EXCEPT !.at = "replace"]
  OBVIOUS
<1>5. Put(c, q)
  BY <1>1, <1>4 DEF Prune
<1>6. q.op = r.op /\ q.rz = r.rz /\ q.old = r.old /\ q.scn = r.scn /\ q.cur = r.cur /\ q.next = r.next /\ q.drafts = r.drafts
      /\ q.at = "replace"
  BY <1>3, <1>4 DEF Job
<1>7. ASSUME r.rz \notin touched PROVE Progress(q)' /\ Given(q)'
  <2>1. /\ Beside(r) /\ r.op # "delete" /\ Ids(r.cur) = InPlan(r.scn) /\ Rows(r.rz) = InPlan(r.scn) \cup ToSet(r.next)
        /\ r.used \subseteq ToSet(r.next) /\ ToSet(r.next) \cap Ids(r.cur) \subseteq r.used
    BY <1>2, <1>3, <1>7 DEF Progress
  <2>2. PICK S : S = Ids(r.cur) \ r.used
    OBVIOUS
  <2>3. /\ Rows(r.rz)' = Rows(r.rz) \ S /\ Plans(r.rz)' = Plans(r.rz)
        /\ \A s \in Rows(r.rz) \ S : station'[s].code = station[s].code
    BY <1>2, <2>2, DroppedOwn DEF OwnInv
  <2>4. Rows(q.rz)' = ToSet(q.next) /\ Beside(q)'
    BY <1>2, <1>6, <2>1, <2>2, <2>3 DEF Beside
  <2>5. Progress(q)'
    BY <1>6, <2>1, <2>4 DEF Progress
  <2>6. Len(q.next) <= Len(q.drafts)
        /\ \A i \in DOMAIN q.next : Unrivalled(q, i) /\ Latest(q.next, i) => station[q.next[i]].code = q.drafts[i].code
    BY <1>2, <1>3, <1>6, <1>7 DEF Given, Unrivalled
  <2>7. ASSUME NEW i \in DOMAIN q.next, Unrivalled(q, i), Latest(q.next, i) PROVE station'[q.next[i]].code = q.drafts[i].code
    <3>1. q.next[i] \in ToSet(r.next)
      BY <1>6, <2>7 DEF ToSet
    <3>2. q.next[i] \in Rows(r.rz) \ S
      BY <2>1, <2>2, <3>1
    <3> QED BY <2>3, <2>6, <2>7, <3>2
  <2>8. Given(q)'
    BY <1>6, <2>6, <2>7 DEF Given, Unrivalled, Latest
  <2> QED BY <2>5, <2>8
<1>8. q # NoCall
  BY <1>3, <1>6, Names DEF NoCall
<1>9. AskedAll'
  BY <1>2 DEF LeftInv, AskedAll
<1> QED BY <1>1, <1>2, <1>3, <1>5, <1>6, <1>7, <1>8, <1>9, Moved

LEMMA LeftReplace == ASSUME OwnInv, LeftInv, NEW c \in Calls, Replace(c) PROVE LeftInv'
<1>1. PICK r : r = call[c]
  OBVIOUS
<1>0. Handle(c)
  BY DEF Handle
<1>2. r.at = "replace" /\ UNCHANGED <<station, realization, asked>>
  BY <1>1 DEF Replace
<1>3. /\ r \in Job /\ r # NoCall /\ r.rz \in Realizations /\ Adopts(r)
      /\ \A u \in Realizations : u # r.rz => Same(u)
      /\ r.rz \notin touched => Progress(r) /\ Given(r)
  BY <1>0, <1>1, Working
<1>4. CASE ~(Exists(r.scn) /\ ToSet(r.next) \subseteq Live /\ IsInjective(r.next))
  BY <1>1, <1>2, <1>3, <1>4, ThrowLeft DEF Replace
<1>5. CASE Exists(r.scn) /\ ToSet(r.next) \subseteq Live /\ IsInjective(r.next)
  <2>1. PICK m, l : m = r.scn /\ l = r.next /\ l \in Seq(Nat)
    BY <1>3 DEF Job
  <2>2. scenario' = [scenario EXCEPT ![m].list = l] /\ touched' = touched
    BY <1>1, <1>5, <2>1 DEF Replace
  <2>3. PICK q : q = [r EXCEPT !.at = "save"]
    OBVIOUS
  <2>4. Put(c, q)
    BY <1>1, <1>5, <2>3 DEF Replace
  <2>5. q.op = r.op /\ q.rz = r.rz /\ q.old = r.old /\ q.scn = r.scn /\ q.cur = r.cur /\ q.next = r.next /\ q.drafts = r.drafts
        /\ q.at = "save"
    BY <1>3, <2>3 DEF Job
  <2>6. /\ DOMAIN scenario' = DOMAIN scenario /\ scenario'[m].list = l
        /\ \A n \in DOMAIN scenario : scenario'[n].own = scenario[n].own /\ scenario'[n].live = scenario[n].live
    <3>1. m \in DOMAIN scenario /\ DOMAIN scenario' = DOMAIN scenario /\ \A n \in DOMAIN scenario : n # m => scenario'[n] = scenario[n]
      BY <1>5, <2>1, <2>2 DEF Exists
    <3>2. scenario[m] \in Plan
      BY <3>1, ListOf DEF OwnInv
    <3>3. scenario'[m].list = l /\ scenario'[m].own = scenario[m].own /\ scenario'[m].live = scenario[m].live
      BY <2>2, <3>1, <3>2 DEF Plan
    <3> QED BY <3>1, <3>3
  <2>7. ASSUME r.rz \notin touched PROVE Progress(q)' /\ Given(q)'
    <3>1. Beside(r) /\ r.op # "delete" /\ Rows(r.rz) = ToSet(r.next)
      BY <1>2, <1>3, <2>7 DEF Progress
    <3>2. Plans(r.rz)' = Plans(r.rz) /\ Rows(r.rz)' = Rows(r.rz) /\ InPlan(r.scn)' = ToSet(r.next)
      BY <1>2, <2>1, <2>6 DEF Plans, Exists, Rows, Live, Stations, InPlan
    <3>3. Beside(q)' /\ Rows(q.rz)' = InPlan(q.scn)'
      BY <1>2, <2>5, <3>1, <3>2 DEF Beside
    <3>4. Progress(q)'
      BY <2>5, <3>1, <3>3 DEF Progress
    <3>5. Len(q.next) <= Len(q.drafts)
          /\ \A i \in DOMAIN q.next : Unrivalled(q, i) /\ Latest(q.next, i) => station'[q.next[i]].code = q.drafts[i].code
      BY <1>2, <1>3, <2>5, <2>7 DEF Given, Unrivalled
    <3>6. Given(q)'
      BY <1>5, <2>5, <3>2, <3>5 DEF Given, Unrivalled, Latest
    <3> QED BY <3>4, <3>6
  <2>8. q # NoCall
    BY <1>3, <2>5, Names DEF NoCall
  <2>9. AskedAll'
    BY <1>2 DEF LeftInv, AskedAll
  <2> QED BY <1>1, <1>3, <2>2, <2>4, <2>5, <2>7, <2>8, <2>9, Moved
<1> QED BY <1>4, <1>5

\* The row names the scenario that was made for it, and the stations have the codes that were promised.
LEMMA LeftSaveRealization == ASSUME OwnInv, LeftInv, NEW c \in Calls, SaveRealization(c) PROVE LeftInv'
<1>1. PICK r : r = call[c]
  OBVIOUS
<1>0. Handle(c)
  BY DEF Handle
<1>2. r.at = "save" /\ UNCHANGED <<station, scenario>>
  BY <1>1 DEF SaveRealization
<1>3. /\ r \in Job /\ r # NoCall /\ r.rz \in Realizations
      /\ \A u \in Realizations : u # r.rz => Same(u)
      /\ r.rz \notin touched => Progress(r) /\ Given(r)
  BY <1>0, <1>1, Working
<1> DEFINE good == Exists(r.scn) /\ (r.op = "update" => realization[r.rz] # 0)
<1>4. CASE ~good
  <2>1. Throw(c) /\ asked' = asked
    BY <1>1, <1>4 DEF SaveRealization
  <2> QED BY <1>1, <1>3, <2>1, ThrowLeft
<1>5. CASE good
  <2>1. /\ realization' = [realization EXCEPT ![r.rz] = r.scn] /\ asked' = [asked EXCEPT ![r.rz] = Promised(r)] /\ touched' = touched
        /\ Put(c, IF r.old # 0 THEN [r EXCEPT !.at = "drop"] ELSE NoCall)
    BY <1>1, <1>5 DEF SaveRealization
  <2>2. realization'[r.rz] = r.scn /\ asked'[r.rz] = Promised(r) /\ AskedAll'
    BY <1>3, <2>1 DEF OwnInv, Tabled, LeftInv, AskedAll
  <2>3. ASSUME r.rz \notin touched
        PROVE  /\ Answered(r.rz)' /\ r.scn # 0 /\ r.scn # r.old /\ Plans(r.rz)' = {r.scn, r.old} \ {0} /\ Rows(r.rz)' = InPlan(r.scn)'
    <3>1. Beside(r) /\ Rows(r.rz) = InPlan(r.scn)
      BY <1>2, <1>3, <2>3 DEF Progress
    <3>2. Plans(r.rz)' = Plans(r.rz) /\ Rows(r.rz)' = Rows(r.rz) /\ InPlan(r.scn)' = InPlan(r.scn)
      BY <1>2 DEF Plans, Exists, Rows, Live, Stations, InPlan
    <3>3. /\ IsInjective(r.next) /\ ToSet(r.next) \subseteq InPlan(r.scn)
          /\ \A i \in DOMAIN r.next : Unrivalled(r, i) /\ Latest(r.next, i) => station[r.next[i]].code = r.drafts[i].code
      BY <1>2, <1>3, <2>3 DEF Given
    <3>4. ASSUME NEW x \in Promised(r) PROVE station'[x[1]].code = x[2] /\ x[1] \in Rows(r.rz)'
      <4>1. PICK i \in DOMAIN r.next : x = <<r.next[i], r.drafts[i].code>> /\ Unrivalled(r, i)
        BY DEF Promised, Unrivalled
      <4>2. Latest(r.next, i)
        <5> SUFFICES ASSUME NEW k \in DOMAIN r.next, k > i, r.next[k] = r.next[i] PROVE FALSE
          BY DEF Latest
        <5>1. k = i
          BY <3>3 DEF IsInjective
        <5>2. k \in Nat /\ i \in Nat
          BY <1>3 DEF Job
        <5> QED BY <5>1, <5>2
      <4>3. r.next[i] \in InPlan(r.scn)
        BY <3>3 DEF ToSet
      <4> QED BY <1>2, <3>1, <3>2, <3>3, <4>1, <4>2, <4>3
    <3> QED BY <2>2, <3>1, <3>2, <3>4 DEF Answered, Beside
  <2>4. CASE r.old = 0
    <3>1. r.rz \notin touched => Complete(r.rz)' /\ Answered(r.rz)'
      BY <2>2, <2>3, <2>4 DEF Complete
    <3> QED BY <1>1, <1>3, <2>1, <2>2, <2>4, <3>1, Moved
  <2>5. CASE r.old # 0
    <3>1. PICK q : q = [r EXCEPT !.at = "drop"]
      OBVIOUS
    <3>2. Put(c, q)
      BY <2>1, <2>5, <3>1
    <3>3. q.at = "drop" /\ q.rz = r.rz /\ q.old = r.old
      BY <1>3, <3>1 DEF Job
    <3>4. r.rz \notin touched => Progress(q)' /\ Given(q)'
      BY <2>2, <2>3, <2>5, <3>3 DEF Progress, Given
    <3>5. q # NoCall
      BY <1>3, <3>3, Names DEF NoCall
    <3> QED BY <1>1, <1>3, <2>1, <2>2, <3>2, <3>3, <3>4, <3>5, Moved
  <2> QED BY <2>4, <2>5
<1> QED BY <1>4, <1>5

LEMMA LeftDropScenario == ASSUME OwnInv, LeftInv, NEW c \in Calls, DropScenario(c) PROVE LeftInv'
<1>1. PICK r : r = call[c]
  OBVIOUS
<1>0. Handle(c)
  BY DEF Handle
<1>2. r.at = "drop" /\ UNCHANGED <<station, realization, asked>>
  BY <1>1 DEF DropScenario
<1>3. /\ r \in Job /\ r # NoCall /\ r.rz \in Realizations
      /\ \A u \in Realizations : u # r.rz => Same(u)
      /\ r.rz \notin touched => Progress(r) /\ Given(r)
  BY <1>0, <1>1, Working
<1>4. CASE ~(Exists(r.old) /\ ~Referenced(r.old))
  BY <1>1, <1>2, <1>3, <1>4, ThrowLeft DEF DropScenario
<1>5. CASE Exists(r.old) /\ ~Referenced(r.old)
  <2>1. Removed(r.old) /\ Put(c, NoCall) /\ touched' = touched
    BY <1>1, <1>5 DEF DropScenario
  <2>2. PICK m : m = r.old
    OBVIOUS
  <2>3. /\ DOMAIN scenario' = DOMAIN scenario /\ ~scenario'[m].live
        /\ \A n \in DOMAIN scenario \ {m} : /\ scenario'[n].own = scenario[n].own /\ scenario'[n].live = scenario[n].live
                                            /\ scenario'[n].list = scenario[n].list
    BY <1>2, <1>5, <2>1, <2>2, Gone DEF OwnInv
  <2>4. ASSUME r.rz \notin touched PROVE Complete(r.rz)' /\ Answered(r.rz)'
    <3>1. PICK n : n = realization[r.rz]
      OBVIOUS
    <3>2. m # 0 /\ m # n /\ Plans(r.rz) = {n, m} \ {0} /\ Rows(r.rz) = (IF n = 0 THEN {} ELSE InPlan(n)) /\ Answered(r.rz)
      BY <1>2, <1>3, <2>2, <2>4, <3>1 DEF Progress, Given
    <3>3. Plans(r.rz)' = {n} \ {0}
      <4>1. Plans(r.rz)' = Plans(r.rz) \ {m}
        BY <2>3 DEF Plans, Exists
      <4> QED BY <3>2, <4>1
    <3>4. n # 0 => InPlan(n)' = InPlan(n)
      <4>1. n # 0 => n \in DOMAIN scenario
        BY <3>2 DEF Plans
      <4> QED BY <2>3, <3>2, <4>1 DEF InPlan
    <3>5. Rows(r.rz)' = Rows(r.rz) /\ realization'[r.rz] = n
      BY <1>2, <3>1 DEF Rows, Live, Stations
    <3> QED BY <1>2, <3>2, <3>3, <3>4, <3>5 DEF Complete, Answered
  <2>5. AskedAll'
    BY <1>2 DEF LeftInv, AskedAll
  <2> QED BY <1>1, <1>3, <2>1, <2>4, <2>5, Moved
<1> QED BY <1>4, <1>5

LEMMA LeftDeleteRow == ASSUME OwnInv, LeftInv, NEW c \in Calls, DeleteRow(c) PROVE LeftInv'
<1>1. PICK r : r = call[c]
  OBVIOUS
<1>0. Handle(c)
  BY DEF Handle
<1>2. r.at = "row" /\ UNCHANGED <<station, scenario>>
  BY <1>1 DEF DeleteRow
<1>3. /\ r \in Job /\ r # NoCall /\ r.rz \in Realizations
      /\ \A u \in Realizations : u # r.rz => Same(u)
      /\ r.rz \notin touched => Progress(r) /\ Given(r)
  BY <1>0, <1>1, Working
<1>4. CASE realization[r.rz] = 0
  BY <1>1, <1>3, <1>4, ThrowLeft DEF DeleteRow
<1>5. CASE realization[r.rz] # 0
  <2>1. /\ realization' = [realization EXCEPT ![r.rz] = 0] /\ asked' = [asked EXCEPT ![r.rz] = {}] /\ touched' = touched
        /\ Put(c, IF scenario[r.old].own = r.rz THEN [r EXCEPT !.at = "drop"] ELSE NoCall)
    BY <1>1, <1>5 DEF DeleteRow
  <2>2. realization'[r.rz] = 0 /\ asked'[r.rz] = {} /\ AskedAll'
    BY <1>3, <2>1 DEF OwnInv, Tabled, LeftInv, AskedAll
  <2>3. ASSUME r.rz \notin touched
        PROVE  r.old # 0 /\ scenario[r.old].own = r.rz /\ Plans(r.rz)' = {r.old} /\ Rows(r.rz)' = {} /\ Answered(r.rz)'
    <3>1. Emptied(r.rz, r.old) /\ r.old # 0 /\ Rows(r.rz) = {}
      BY <1>2, <1>3, <2>3 DEF Progress
    <3>2. Plans(r.rz)' = Plans(r.rz) /\ Rows(r.rz)' = Rows(r.rz)
      BY <1>2 DEF Plans, Exists, Rows, Live, Stations
    <3>3. Plans(r.rz) = {r.old}
      BY <3>1 DEF Emptied
    <3>4. scenario[r.old].own = r.rz
      BY <3>3 DEF Plans
    <3> QED BY <2>2, <3>1, <3>2, <3>3, <3>4 DEF Answered
  <2>4. CASE scenario[r.old].own # r.rz
    BY <1>1, <1>3, <2>1, <2>2, <2>3, <2>4, Moved
  <2>5. CASE scenario[r.old].own = r.rz
    <3>1. PICK q : q = [r EXCEPT !.at = "drop"]
      OBVIOUS
    <3>2. Put(c, q)
      BY <2>1, <2>5, <3>1
    <3>3. q.at = "drop" /\ q.rz = r.rz /\ q.old = r.old
      BY <1>3, <3>1 DEF Job
    <3>4. r.rz \notin touched => Progress(q)' /\ Given(q)'
      BY <2>2, <2>3, <3>3 DEF Progress, Given
    <3>5. q # NoCall
      BY <1>3, <3>3, Names DEF NoCall
    <3> QED BY <1>1, <1>3, <2>1, <2>2, <3>2, <3>3, <3>4, <3>5, Moved
  <2> QED BY <2>4, <2>5
<1> QED BY <1>4, <1>5

\* One draft further: the list grows by the row x.
Further(r, x, q) ==
  /\ r.at = "draft" /\ q.at = "draft" /\ q.rz = r.rz /\ q.drafts = r.drafts /\ q.cur = r.cur
  /\ r.next \in Seq(Nat) /\ r.drafts \in Seq(Draft) /\ Len(r.next) < Len(r.drafts) /\ x \in Nat /\ q.next = Append(r.next, x)

LEMMA NextIs ==
  ASSUME NEW r, NEW x, NEW q, Further(r, x, q), NEW n, n = Len(r.next)
  PROVE  /\ n \in Nat /\ DOMAIN r.next = 1..n /\ DOMAIN q.next = (1..n) \cup {n + 1} /\ n + 1 \notin 1..n
         /\ q.next[n + 1] = x /\ \A i \in 1..n : q.next[i] = r.next[i] /\ n + 1 > i
         /\ Len(q.next) = n + 1 /\ n + 1 <= Len(q.drafts) /\ n + 1 \in DOMAIN q.drafts
<1>1. n \in Nat /\ DOMAIN r.next = 1..n /\ r.next \in Seq(Nat) /\ q.next = Append(r.next, x) /\ x \in Nat
  BY DEF Further
<1>2. 1..(n + 1) = (1..n) \cup {n + 1} /\ n + 1 \notin 1..n /\ \A i \in 1..n : n + 1 > i
  BY <1>1
<1>3. PICK m \in Nat : m = Len(q.drafts) /\ n < m /\ DOMAIN q.drafts = 1..m
  BY DEF Further
<1>4. n + 1 <= m /\ n + 1 \in 1..m
  BY <1>1, <1>3
<1> QED BY <1>1, <1>2, <1>3, <1>4

\* No other station of the realization has a code that only this draft asks for.
LEMMA OnlyHere ==
  ASSUME NEW r, NEW x, NEW q, Further(r, x, q), Given(r), NEW n, n = Len(r.next), Unrivalled(q, n + 1), r.drafts[n + 1] \in Draft
  PROVE  \A u \in Rows(r.rz) \ {x} : station[u].code # r.drafts[n + 1].code
<1> SUFFICES ASSUME NEW u \in Rows(r.rz) \ {x}, station[u].code = r.drafts[n + 1].code PROVE FALSE
  OBVIOUS
<1>1. r.drafts[n + 1].code \in Codes
  BY DEF Unrivalled, Draft, Further
<1>2. /\ q.next[n + 1] = x /\ DOMAIN r.next = 1..n /\ DOMAIN q.next = (1..n) \cup {n + 1} /\ n + 1 \notin 1..n
      /\ n \in Nat /\ n + 1 \in DOMAIN q.drafts
  BY NextIs
<1>3. Source(r, u)
  BY DEF Given, Further
<1>4. q.drafts = r.drafts /\ q.cur = r.cur
  BY DEF Further
<1>5. CASE station[u].code \in {None, Random}
  BY <1>1, <1>5, Names
<1>6. ASSUME NEW k \in DOMAIN r.cur, r.cur[k].id = u, r.cur[k].code = station[u].code PROVE FALSE
  BY <1>2, <1>4, <1>6 DEF Unrivalled
<1>7. ASSUME NEW k \in DOMAIN r.next, r.drafts[k].code = station[u].code PROVE FALSE
  <2>1. k \in DOMAIN q.drafts /\ k # n + 1
    <3>1. PICK m \in Nat : m = Len(q.drafts) /\ DOMAIN q.drafts = 1..m /\ n < m
      BY <1>2 DEF Further
    <3> QED BY <1>2, <1>7, <3>1
  <2> QED BY <1>4, <1>7, <2>1 DEF Unrivalled
<1> QED BY <1>3, <1>5, <1>6, <1>7 DEF Source

LEMMA GivenNext ==
  ASSUME NEW r, NEW x, NEW q, Further(r, x, q), Given(r), NEW n, n = Len(r.next), ToSet(r.next) \subseteq Rows(r.rz),
         Rows(r.rz)' \subseteq Rows(r.rz) \cup {x}, \A s \in Rows(r.rz) \ {x} : station'[s].code = station[s].code,
         Unrivalled(q, n + 1) => station'[x].code = r.drafts[n + 1].code, Source(q, x)'
  PROVE  Given(q)'
<1>1. /\ n \in Nat /\ DOMAIN r.next = 1..n /\ DOMAIN q.next = (1..n) \cup {n + 1} /\ n + 1 \notin 1..n
      /\ q.next[n + 1] = x /\ \A i \in 1..n : q.next[i] = r.next[i] /\ n + 1 > i
      /\ Len(q.next) = n + 1 /\ n + 1 <= Len(q.drafts)
  BY NextIs
<1>2. r.at = "draft" /\ q.at = "draft" /\ q.drafts = r.drafts /\ q.cur = r.cur /\ q.rz = r.rz
  BY DEF Further
<1>3. ASSUME NEW i \in DOMAIN q.next, Unrivalled(q, i), Latest(q.next, i) PROVE station'[q.next[i]].code = q.drafts[i].code
  <2>1. CASE i = n + 1
    BY <1>1, <1>2, <1>3, <2>1
  <2>2. CASE i \in 1..n
    <3>1. Unrivalled(r, i)
      BY <1>1, <1>2, <1>3, <2>2 DEF Unrivalled
    <3>2. Latest(r.next, i) /\ x # r.next[i]
      BY <1>1, <1>3, <2>2 DEF Latest
    <3>3. station[r.next[i]].code = r.drafts[i].code
      BY <1>1, <1>2, <2>2, <3>1, <3>2 DEF Given
    <3>4. r.next[i] \in Rows(r.rz) \ {x}
      BY <1>1, <2>2, <3>2 DEF ToSet
    <3>5. station'[r.next[i]].code = station[r.next[i]].code
      BY <3>4
    <3> QED BY <1>1, <1>2, <2>2, <3>3, <3>5
  <2> QED BY <1>1, <2>1, <2>2
<1>4. ASSUME NEW s \in Rows(r.rz)' PROVE Source(q, s)'
  <2>1. CASE s # x
    <3>1. s \in Rows(r.rz) /\ station'[s].code = station[s].code
      BY <2>1
    <3>2. Source(r, s)
      BY <1>2, <3>1 DEF Given
    <3> QED BY <1>1, <1>2, <3>1, <3>2 DEF Source
  <2> QED BY <2>1
<1> QED BY <1>1, <1>2, <1>3, <1>4 DEF Given, Unrivalled, Latest

\* A draft that makes a station.
LEMMA DraftMakes ==
  ASSUME OwnInv, LeftInv, NEW c \in Calls, Handle(c), NEW r, r = call[c], r.at = "draft", r.rz \notin touched,
         Len(r.next) < Len(r.drafts), r.drafts[Len(r.next) + 1] \in Draft,
         NEW s \in Row, NEW k \in Codes \cup {None, Random}, NEW q \in Job, Makes(c, r, s, k, q), SameElse(c, r, q)
  PROVE  Progress(q)' /\ Given(q)'
<1>1. r \in Job /\ r.rz \in Realizations /\ r.next \in Seq(Nat) /\ r.drafts \in Seq(Draft) /\ Progress(r) /\ Given(r)
  <2>1. r \in Job /\ r.rz \in Realizations /\ Progress(r) /\ Given(r)
    BY Working
  <2> QED BY <2>1 DEF Job
<1>2. PICK x \in Nat : x = Len(station) + 1
  BY DEF OwnInv, Tabled
<1>3. PICK n, d : n = Len(r.next) /\ d = r.drafts[n + 1] /\ d \in Draft
  OBVIOUS
<1>4. /\ q.op = r.op /\ q.at = "draft" /\ q.rz = r.rz /\ q.old = r.old /\ q.scn = r.scn /\ q.drafts = r.drafts /\ q.cur = r.cur
      /\ q.next = Append(r.next, x) /\ q.used = r.used /\ UNCHANGED <<scenario, realization>>
      /\ s.own = r.rz /\ s.live /\ s.code = k /\ k = CodeFor(d.code, None, r.rz, 0) /\ station' = Append(station, s)
  BY <1>2, <1>3 DEF Makes, SameElse
<1>5. Further(r, x, q)
  BY <1>1, <1>4 DEF Further
<1>6. /\ Beside(r) /\ r.op # "delete" /\ Ids(r.cur) = InPlan(r.scn) /\ Rows(r.rz) = InPlan(r.scn) \cup ToSet(r.next)
      /\ r.used \subseteq ToSet(r.next) /\ ToSet(r.next) \cap Ids(r.cur) \subseteq r.used
  BY <1>1 DEF Progress
<1>7. /\ Rows(r.rz)' = Rows(r.rz) \cup {x} /\ x \notin Rows(r.rz) /\ Plans(r.rz)' = Plans(r.rz)
      /\ \A m \in Plans(r.rz) : InPlan(m)' = InPlan(m)
      /\ station'[x] = s /\ \A u \in Rows(r.rz) : station'[u].code = station[u].code
  <2>1. Tabled /\ Sound /\ s.live /\ station' = Append(station, s) /\ UNCHANGED <<scenario, realization>>
    BY <1>4 DEF OwnInv
  <2>2. /\ Rows(s.own)' = Rows(s.own) \cup {x} /\ x \notin Rows(s.own) /\ Plans(s.own)' = Plans(s.own)
        /\ \A m \in Plans(s.own) : InPlan(m)' = InPlan(m)
        /\ station'[x] = s /\ \A u \in Rows(s.own) : station'[u].code = station[u].code
    BY <1>2, <2>1, AddedOwn
  <2> QED BY <1>4, <2>2
<1>8. ToSet(q.next) = ToSet(r.next) \cup {x}
  BY <1>1, <1>4, AppendedSet
<1>9. Beside(q)' /\ InPlan(q.scn)' = InPlan(r.scn)
  BY <1>4, <1>6, <1>7 DEF Beside
<1>10. Progress(q)'
  BY <1>4, <1>6, <1>7, <1>8, <1>9 DEF Progress
<1>11. PICK w \in Codes \cup {None, Random} : w = d.code
  BY <1>3 DEF Draft
<1>12. Unrivalled(q, n + 1) => station'[x].code = d.code
  <2> SUFFICES ASSUME Unrivalled(q, n + 1) PROVE k = w
    BY <1>4, <1>7, <1>11
  <2>1. \A u \in Rows(r.rz) \ {x} : station[u].code # w
    <3>1. Given(r) /\ n = Len(r.next) /\ r.drafts[n + 1] \in Draft /\ Unrivalled(q, n + 1)
      BY <1>1, <1>3
    <3>2. \A u \in Rows(r.rz) \ {x} : station[u].code # r.drafts[n + 1].code
      BY <1>5, <3>1, OnlyHere
    <3> QED BY <1>3, <1>11, <3>2
  <2>2. \A u \in Live \ {0} : station[u].own = r.rz => station[u].code # w
    BY <1>7, <2>1 DEF Rows
  <2>3. w # None
    BY <1>3, <1>4, <1>11 DEF Unrivalled
  <2> QED BY <1>4, <1>11, <2>2, <2>3 DEF CodeFor
<1>13. Source(q, x)'
  <2>1. k \in {None, Random, w}
    BY <1>4, <1>11 DEF CodeFor
  <2>2. n + 1 \in DOMAIN q.next /\ q.drafts[n + 1].code = w
    <3>1. n + 1 \in DOMAIN q.next
      BY <1>3, <1>5, NextIs
    <3> QED BY <1>3, <1>4, <1>11, <3>1
  <2> QED BY <1>4, <1>7, <2>1, <2>2 DEF Source
<1>14. Given(q)'
  BY <1>1, <1>3, <1>5, <1>6, <1>7, <1>12, <1>13, GivenNext
<1> QED BY <1>10, <1>14

\* A draft that is written to a station.
LEMMA DraftWrites ==
  ASSUME OwnInv, LeftInv, NEW c \in Calls, Handle(c), NEW r, r = call[c], r.at = "draft", r.rz \notin touched,
         Len(r.next) < Len(r.drafts), r.drafts[Len(r.next) + 1] \in Draft,
         NEW x \in Live, NEW k \in Codes \cup {None, Random}, NEW q \in Job, Writes(c, r, x, k, q), SameElse(c, r, q)
  PROVE  Progress(q)' /\ Given(q)'
<1>1. r \in Job /\ r.rz \in Realizations /\ r.next \in Seq(Nat) /\ r.drafts \in Seq(Draft) /\ Progress(r) /\ Given(r) /\ Adopts(r)
  <2>1. r \in Job /\ r.rz \in Realizations /\ Progress(r) /\ Given(r) /\ Adopts(r)
    BY Working
  <2> QED BY <2>1 DEF Job
<1>2. x \in Nat /\ station[x] \in Row /\ x \in DOMAIN station
  BY LiveRows DEF OwnInv, Stations
<1>3. PICK n, d : n = Len(r.next) /\ d = r.drafts[n + 1] /\ d \in Draft
  OBVIOUS
<1>4. /\ q.op = r.op /\ q.at = "draft" /\ q.rz = r.rz /\ q.old = r.old /\ q.scn = r.scn /\ q.drafts = r.drafts /\ q.cur = r.cur
      /\ q.next = Append(r.next, x) /\ q.used = r.used \cup {x} /\ UNCHANGED <<scenario, realization>>
      /\ x \in Ids(r.cur) /\ k = CodeFor(d.code, station[x].code, station[x].own, x)
  BY <1>3 DEF Writes, SameElse
<1>0. PICK v \in Row : Recodes(v, x, k) /\ station' = [station EXCEPT ![x] = v]
  BY DEF Writes
<1>5. Further(r, x, q)
  BY <1>1, <1>2, <1>4 DEF Further
<1>6. /\ Beside(r) /\ r.op # "delete" /\ Ids(r.cur) = InPlan(r.scn) /\ Rows(r.rz) = InPlan(r.scn) \cup ToSet(r.next)
      /\ r.used \subseteq ToSet(r.next) /\ ToSet(r.next) \cap Ids(r.cur) \subseteq r.used
  BY <1>1 DEF Progress
<1>7. /\ Rows(r.rz)' = Rows(r.rz) /\ Plans(r.rz)' = Plans(r.rz) /\ InPlan(r.scn)' = InPlan(r.scn)
      /\ station'[x].code = k /\ \A u \in Rows(r.rz) \ {x} : station'[u].code = station[u].code
  <2>1. DOMAIN station' = DOMAIN station /\ \A u \in DOMAIN station : u # x => station'[u] = station[u]
    BY <1>0
  <2>2. station'[x].own = station[x].own /\ station'[x].live = station[x].live /\ station'[x].code = k
    BY <1>0, <1>2 DEF Recodes
  <2>3. Rows(r.rz)' = Rows(r.rz)
    BY <2>1, <2>2 DEF Rows, Live, Stations
  <2>4. \A u \in Rows(r.rz) \ {x} : station'[u].code = station[u].code
    BY <2>1 DEF Rows, Live, Stations
  <2> QED BY <1>4, <2>2, <2>3, <2>4 DEF Plans, Exists, InPlan
<1>8. ToSet(q.next) = ToSet(r.next) \cup {x}
  <2>1. PICK l : l = r.next /\ l \in Seq(Nat) /\ x \in Nat
    BY <1>1, <1>2
  <2>2. ToSet(Append(l, x)) = ToSet(l) \cup {x}
    BY <2>1, AppendedSet
  <2> QED BY <1>4, <2>1, <2>2
<1>9. Beside(q)' /\ InPlan(q.scn)' = InPlan(r.scn)
  BY <1>4, <1>6, <1>7 DEF Beside
<1>10. Progress(q)'
  BY <1>4, <1>6, <1>7, <1>8, <1>9 DEF Progress
<1>11. PICK w \in Codes \cup {None, Random} : w = d.code
  BY <1>3 DEF Draft
<1>12. x \in Rows(r.rz) /\ station[x].own = r.rz
  BY <1>4, <1>6 DEF Rows
<1>13. Unrivalled(q, n + 1) => station'[x].code = d.code
  <2> SUFFICES ASSUME Unrivalled(q, n + 1) PROVE k = w
    BY <1>7, <1>11
  <2>1. \A u \in Rows(r.rz) \ {x} : station[u].code # w
    <3>1. Given(r) /\ n = Len(r.next) /\ r.drafts[n + 1] \in Draft /\ Unrivalled(q, n + 1)
      BY <1>1, <1>3
    <3>2. \A u \in Rows(r.rz) \ {x} : station[u].code # r.drafts[n + 1].code
      BY <1>5, <3>1, OnlyHere
    <3> QED BY <1>3, <1>11, <3>2
  <2>2. \A u \in Live \ {x} : station[u].own = r.rz => station[u].code # w
    BY <2>1 DEF Rows
  <2>3. w # None
    BY <1>3, <1>4, <1>11 DEF Unrivalled
  <2> QED BY <1>4, <1>11, <1>12, <2>2, <2>3 DEF CodeFor
<1>14. Source(q, x)'
  <2>1. n + 1 \in DOMAIN q.next /\ q.drafts[n + 1].code = w /\ DOMAIN r.next \subseteq DOMAIN q.next
    <3>1. n + 1 \in DOMAIN q.next /\ DOMAIN r.next \subseteq DOMAIN q.next
      BY <1>3, <1>5, NextIs
    <3> QED BY <1>3, <1>4, <1>11, <3>1
  <2>2. CASE w = None
    <3>1. k = station[x].code
      BY <1>4, <1>11, <2>2 DEF CodeFor
    <3>2. Source(r, x)
      BY <1>1, <1>12 DEF Given
    <3> QED BY <1>4, <1>7, <2>1, <3>1, <3>2 DEF Source
  <2>3. CASE w # None
    <3>1. k \in {w, Random}
      BY <1>4, <1>11, <2>3 DEF CodeFor
    <3> QED BY <1>7, <2>1, <3>1 DEF Source
  <2> QED BY <2>2, <2>3
<1>15. Given(q)'
  <2>1. n = Len(r.next) /\ Given(r) /\ ToSet(r.next) \subseteq Rows(r.rz)
    BY <1>1, <1>3, <1>6
  <2>2. Rows(r.rz)' \subseteq Rows(r.rz) \cup {x} /\ \A s \in Rows(r.rz) \ {x} : station'[s].code = station[s].code
    BY <1>7
  <2>3. Unrivalled(q, n + 1) => station'[x].code = r.drafts[n + 1].code
    BY <1>3, <1>13
  <2> QED BY <1>5, <1>14, <2>1, <2>2, <2>3, GivenNext
<1> QED BY <1>10, <1>15

LEMMA LeftApplyDraft == ASSUME OwnInv, LeftInv, NEW c \in Calls, ApplyDraft(c) PROVE LeftInv'
<1>1. PICK r : r = call[c]
  OBVIOUS
<1>0. Handle(c)
  BY DEF Handle
<1>2. /\ r.at = "draft" /\ r # NoCall /\ r.rz \in Realizations
      /\ Len(r.next) < Len(r.drafts) /\ r.drafts[Len(r.next) + 1] \in Draft
  BY <1>1, DraftIs
<1>3. \A u \in Realizations : u # r.rz => Same(u)
  BY <1>0, <1>1, Working
<1>4. CASE UNCHANGED <<tables, running, asked>> /\ Throw(c)
  BY <1>1, <1>2, <1>3, <1>4, ThrowLeft
<1>5. ASSUME NEW q \in Job, SameElse(c, r, q), r.rz \notin touched => Progress(q)' /\ Given(q)' PROVE LeftInv'
  <2>1. q.rz = r.rz /\ Put(c, q) /\ touched' = touched /\ asked' = asked
    BY <1>5 DEF SameElse
  <2>2. q # NoCall
    BY <1>2, <2>1, Names DEF NoCall
  <2>3. AskedAll'
    BY <2>1 DEF LeftInv, AskedAll
  <2> QED BY <1>1, <1>2, <1>3, <1>5, <2>1, <2>2, <2>3, Moved
<1>6. ASSUME NEW s \in Row, NEW k \in Codes \cup {None, Random}, NEW q \in Job, Makes(c, r, s, k, q), SameElse(c, r, q) PROVE LeftInv'
  BY <1>0, <1>1, <1>2, <1>5, <1>6, DraftMakes
<1>7. ASSUME NEW x \in Live, NEW k \in Codes \cup {None, Random}, NEW q \in Job, Writes(c, r, x, k, q), SameElse(c, r, q) PROVE LeftInv'
  BY <1>0, <1>1, <1>2, <1>5, <1>7, DraftWrites
<1> QED BY <1>1, <1>4, <1>6, <1>7, DraftIs

-----------------------------------------------------------------------------
(* Requests begin; the library changes.                                    *)

\* A request vouches for its realization if it is the only one.
LEMMA Begun ==
  ASSUME OwnInv, LeftInv, UNCHANGED <<tables, asked>>, NEW c \in Calls, call[c] = NoCall, NEW r \in Realizations,
         NEW q, Put(c, q), q.rz = r, touched \subseteq touched', Busy(r) => r \in touched',
         r \notin touched' => Progress(q) /\ Given(q)
  PROVE  LeftInv'
<1>1. call'[c] = q /\ \A d \in Calls \ {c} : call'[d] = call[d]
  BY DEF OwnInv, Called, Put
<1>2. NoCall.rz \notin Realizations
  BY Names DEF NoCall
<1>3. AskedAll'
  BY DEF LeftInv, AskedAll
<1>4. \A u \in Realizations : Same(u)
  BY SameUnmoved
<1>5. OneEach'
  <2> SUFFICES ASSUME NEW d \in Calls, NEW e \in Calls, call'[d].rz \in Realizations \ touched', call'[d].rz = call'[e].rz PROVE d = e
    BY DEF OneEach
  <2>1. CASE d # c /\ e # c
    BY <1>1, <2>1 DEF LeftInv, OneEach
  <2>2. CASE d = c /\ e # c
    BY <1>1, <2>2 DEF Busy
  <2>3. CASE d # c /\ e = c
    BY <1>1, <2>3 DEF Busy
  <2> QED BY <2>1, <2>2, <2>3
<1>6. ASSUME NEW u \in Realizations \ touched', ~Busy(u)' PROVE Complete(u)' /\ Answered(u)'
  <2>1. ~Busy(u)
    BY <1>1, <1>2, <1>6 DEF Busy
  <2>2. Complete(u) /\ Answered(u)
    BY <1>6, <2>1 DEF LeftInv
  <2> QED BY <1>4, <2>2, SameRest
<1>7. ASSUME NEW d \in Calls, call'[d].rz \in Realizations \ touched' PROVE Progress(call[d])' /\ Given(call[d])'
  <2>1. PICK j : j = call'[d]
    OBVIOUS
  <2>2. Progress(j) /\ Given(j)
    BY <1>1, <1>7, <2>1 DEF LeftInv
  <2>3. Same(j.rz)
    BY <1>4, <1>7, <2>1
  <2>4. Progress(j)' /\ Given(j)'
    BY <2>2, <2>3, SameProgress, SameGiven
  <2> QED BY <2>1, <2>4
<1> QED BY <1>3, <1>5, <1>6, <1>7 DEF LeftInv

LEMMA FreeIs ==
  ASSUME NEW c, Free(c)
  PROVE  call[c] = NoCall
<1> DEFINE idle == {d \in Calls : call[d] = NoCall}
<1>1. c \in idle
  BY DEF Free
<1> QED BY <1>1

LEMMA LeftCreate ==
  ASSUME OwnInv, LeftInv, NEW c \in Calls, NEW r \in Realizations, NEW n \in Nat, NEW f \in Seq(Draft), Create(c, r, n, f)
  PROVE  LeftInv'
<1>1. PICK q : q = New("create", "adopt", r, n, f)
  OBVIOUS
<1>2. q.op = "create" /\ q.at = "adopt" /\ q.rz = r /\ q.old = 0 /\ q.next = <<>> /\ q.used = {}
  <2>1. "create" \in Ops /\ "adopt" \in Stages
    BY DEF Ops, Stages
  <2> QED BY <1>1, <2>1, NewCall
<1>3. Put(c, q) /\ realization[r] = 0 /\ ~Busy(r) /\ UNCHANGED <<tables, touched, asked>>
  BY <1>1 DEF Create, New
<1>4. call[c] = NoCall
  BY FreeIs DEF Create
<1>5. ASSUME r \notin touched PROVE Progress(q) /\ Given(q)
  <2>1. Complete(r)
    BY <1>3, <1>5 DEF LeftInv
  <2>2. Emptied(r, 0) /\ Rows(r) = {}
    BY <1>3, <2>1 DEF Complete, Emptied
  <2> QED BY <1>2, <2>2 DEF Progress, Given
<1> QED BY <1>2, <1>3, <1>4, <1>5, Begun

\* An update or a delete starts from a realization that is complete, unless another request is at it.
LEMMA LeftStarted ==
  ASSUME OwnInv, LeftInv, UNCHANGED <<tables, asked>>, NEW c \in Calls, Free(c), NEW r \in Realizations, realization[r] # 0, Touch(r),
         NEW q, Put(c, q), q.at = "start", q.rz = r, q.old = 0, q.used = {}
  PROVE  LeftInv'
<1>1. touched \subseteq touched' /\ (Busy(r) => r \in touched')
  BY DEF Touch
<1>2. call[c] = NoCall
  BY FreeIs
<1>3. ASSUME r \notin touched' PROVE Progress(q) /\ Given(q)
  <2>1. Complete(r) /\ Answered(r)
    BY <1>1, <1>3 DEF LeftInv
  <2> QED BY <2>1 DEF Progress, Given
<1> QED BY <1>1, <1>2, <1>3, Begun

LEMMA LeftUpdate ==
  ASSUME OwnInv, LeftInv, NEW c \in Calls, NEW r \in Realizations, NEW n \in Nat, NEW f \in Seq(Draft), Update(c, r, n, f)
  PROVE  LeftInv'
<1>1. PICK q : q = New("update", "start", r, n, f)
  OBVIOUS
<1>2. q.at = "start" /\ q.rz = r /\ q.old = 0 /\ q.used = {}
  <2>1. "update" \in Ops /\ "start" \in Stages
    BY DEF Ops, Stages
  <2> QED BY <1>1, <2>1, NewCall
<1>3. Put(c, q) /\ realization[r] # 0 /\ Free(c) /\ Touch(r) /\ UNCHANGED <<tables, asked>>
  BY <1>1 DEF Update, New
<1> QED BY <1>2, <1>3, LeftStarted

LEMMA LeftDelete ==
  ASSUME OwnInv, LeftInv, NEW c \in Calls, NEW r \in Realizations, Delete(c, r)
  PROVE  LeftInv'
<1>1. 0 \in Nat /\ <<>> \in Seq(Draft) /\ "delete" \in Ops /\ "start" \in Stages
  BY DEF Ops, Stages
<1>2. PICK e : e = <<>>
  OBVIOUS
<1>3. PICK q : q = [NoCall EXCEPT !.op = "delete", !.at = "start", !.rz = r]
  OBVIOUS
<1>4. q = New("delete", "start", r, 0, e)
  BY <1>2, <1>3, NewDelete
<1>5. q.at = "start" /\ q.rz = r /\ q.old = 0 /\ q.used = {}
  <2>1. e \in Seq(Draft)
    BY <1>1, <1>2
  <2> QED BY <1>1, <1>4, <2>1, NewCall
<1>6. Put(c, q) /\ realization[r] # 0 /\ Free(c) /\ Touch(r) /\ UNCHANGED <<tables, asked>>
  BY <1>3 DEF Delete
<1> QED BY <1>5, <1>6, LeftStarted

LEMMA LeftFail == ASSUME OwnInv, LeftInv, NEW c \in Calls, Fail(c) PROVE LeftInv'
<1>1. call[c] # NoCall /\ Throw(c) /\ UNCHANGED <<tables, asked>>
  BY DEF Fail
<1>2. \A u \in Realizations : Same(u)
  BY <1>1, SameUnmoved
<1> QED BY <1>1, <1>2, ThrowLeft

\* What touches no realization leaves everything as it is.
LEMMA BeneathLeft ==
  ASSUME LeftInv, UNCHANGED <<call, asked>>, touched \subseteq touched', \A u \in Realizations : Same(u)
  PROVE  LeftInv'
<1>1. AskedAll' /\ OneEach'
  BY DEF LeftInv, AskedAll, OneEach
<1>2. ASSUME NEW u \in Realizations \ touched', ~Busy(u)' PROVE Complete(u)' /\ Answered(u)'
  <2>1. Complete(u) /\ Answered(u)
    BY <1>2 DEF LeftInv, Busy
  <2> QED BY <2>1, SameRest
<1>3. ASSUME NEW d \in Calls, call'[d].rz \in Realizations \ touched' PROVE Progress(call[d])' /\ Given(call[d])'
  <2>1. PICK j : j = call[d]
    OBVIOUS
  <2>2. Progress(j) /\ Given(j) /\ Same(j.rz)
    BY <1>3, <2>1 DEF LeftInv
  <2>3. Progress(j)' /\ Given(j)'
    BY <2>2, SameProgress, SameGiven
  <2> QED BY <2>1, <2>3
<1> QED BY <1>1, <1>2, <1>3 DEF LeftInv

LEMMA LeftDeleteTemplateStation == ASSUME OwnInv, LeftInv, NEW s, DeleteTemplateStation(s) PROVE LeftInv'
<1>1. s \in Live /\ station[s].own = None /\ Without({s}) /\ touched \subseteq touched' /\ UNCHANGED <<realization, call, asked>>
  BY DEF DeleteTemplateStation, Template
<1>2. ASSUME NEW u \in Realizations PROVE Same(u)
  <2>1. {s} \cap Rows(u) = {}
    BY <1>1, Names DEF Rows
  <2> QED BY <1>1, <2>1, SameDropped DEF OwnInv
<1> QED BY <1>1, <1>2, BeneathLeft

LEMMA LeftDeleteTemplate == ASSUME OwnInv, LeftInv, NEW n, DeleteTemplate(n) PROVE LeftInv'
<1>1. Exists(n) /\ scenario[n].own = None /\ ~Referenced(n) /\ Removed(n) /\ touched \subseteq touched'
      /\ UNCHANGED <<station, realization, call, asked>>
  BY DEF DeleteTemplate
<1>2. ASSUME NEW u \in Realizations PROVE Same(u)
  BY <1>1, Names, SameGone DEF OwnInv
<1> QED BY <1>1, <1>2, BeneathLeft

-----------------------------------------------------------------------------
(* The invariant.                                                          *)

LEMMA LeftInit == Init => LeftInv
<1> SUFFICES ASSUME Init PROVE LeftInv
  OBVIOUS
<1>1. touched = {} /\ call = [c \in Calls |-> NoCall] /\ asked = [r \in Realizations |-> {}]
  BY DEF Init
<1>2. \A c \in Calls : call[c].rz \notin Realizations
  BY <1>1, Names DEF NoCall
<1>3. \A r \in Realizations : Complete(r) /\ Answered(r)
  BY <1>1, FirstTables DEF Answered
<1>4. AskedAll
  BY <1>1 DEF AskedAll
<1> QED BY <1>2, <1>3, <1>4 DEF LeftInv, OneEach

LEMMA LeftStep == OwnInv /\ LeftInv /\ [Next]_vars => LeftInv'
<1> SUFFICES ASSUME OwnInv, LeftInv, [Next]_vars PROVE LeftInv'
  OBVIOUS
<1>1. ASSUME NEW c \in Calls, Handle(c) PROVE LeftInv'
  BY <1>1, LeftStartUpdate, LeftDiscard, LeftReadSource, LeftCloneStation, LeftAddScenario, LeftReadCurrent, LeftApplyDraft,
     LeftPrune, LeftReplace, LeftSaveRealization, LeftDropScenario, LeftStartDelete, LeftDeleteStations, LeftDeleteRow DEF Handle
<1>2. ASSUME NEW c \in Calls, NEW r \in Realizations, NEW n \in DOMAIN scenario, NEW f \in Forms(r, n), Create(c, r, n, f) \/ Update(c, r, n, f)
      PROVE  LeftInv'
  <2>1. n \in Nat /\ f \in Seq(Draft)
    BY ListOf, FormsTyped DEF OwnInv
  <2> QED BY <1>2, <2>1, LeftCreate, LeftUpdate
<1>3. CASE UNCHANGED <<tables, call, touched, asked>>
  <2>1. \A u \in Realizations : Same(u)
    BY <1>3, SameUnmoved
  <2> QED BY <1>3, <2>1, BeneathLeft
<1>4. CASE Next
  <2>1. \/ \E c \in Calls : Handle(c) \/ Fail(c) \/ \E r \in Realizations : Delete(c, r)
        \/ \E c \in Calls, r \in Realizations : \E n \in DOMAIN scenario : \E f \in Forms(r, n) : Create(c, r, n, f) \/ Update(c, r, n, f)
        \/ \E s \in Stations : DeleteTemplateStation(s)
        \/ \E n \in DOMAIN scenario : DeleteTemplate(n)
        \/ \E r \in Realizations : Start(r)
    BY <1>4 DEF Next
  <2>2. ASSUME NEW r \in Realizations, Start(r) PROVE LeftInv'
    BY <1>3, <2>2 DEF Start
  <2> QED BY <1>1, <1>2, <2>1, <2>2, LeftFail, LeftDelete, LeftDeleteTemplateStation, LeftDeleteTemplate
<1> QED BY <1>3, <1>4 DEF vars

LEMMA LeftAlways == Spec => []LeftInv
  BY OwnInit, OwnStep, LeftInit, LeftStep, PTL DEF Spec

-----------------------------------------------------------------------------
\* A realization whose requests came one after the other and went through has one scenario, or none once it is deleted,
\* and every station made for it is in that scenario: cloning, saving and deleting leave no row behind.
THEOREM NothingLeftCorrect == Spec => []NothingLeft
<1>1. LeftInv => NothingLeft
  BY DEF LeftInv, NothingLeft, Complete, Plans, Rows, InPlan
<1> QED BY <1>1, LeftAlways, PTL

\* After a save a station has the code its draft asked for, if no other draft asked for it and no other station of the
\* realization had it; and it keeps it until the next save.
THEOREM CodesCorrect == Spec => []CodesAsSaved
<1>1. LeftInv => CodesAsSaved
  BY DEF LeftInv, CodesAsSaved, Answered
<1> QED BY <1>1, LeftAlways, PTL
=============================================================================
