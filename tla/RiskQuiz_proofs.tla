--------------------------- MODULE RiskQuiz_proofs ---------------------------
(***************************************************************************)
(* Proofs about RiskQuiz for any number of teams, phones, cards and calls: *)
(* types and keys, the card a result is shown on, what the attempts of a   *)
(* team earned, and that its points are what its attempts add up to.       *)
(***************************************************************************)
EXTENDS RiskQuiz, WellFoundedInduction, TLAPS

-----------------------------------------------------------------------------
(* Induction with sets of numbers, and what the recursive functions give.  *)

LEMMA Least ==
  ASSUME NEW S, S \subseteq Nat, S # {}
  PROVE  \E n \in S : \A m \in S : n <= m
<1> DEFINE R == OpToRel(<, Nat)
<1>1. PICK n \in S : \A m \in S : ~(<<m, n>> \in R)
  BY WFMin, NatLessThanWellFounded
<1>2. \A m \in S : ~(m < n)
  BY <1>1 DEF OpToRel
<1> QED BY <1>2

\* A set with 0 and with the successor of every number it has below N has all up to N.
LEMMA UpTo ==
  ASSUME NEW N \in Nat, NEW S, 0 \in S, \A n \in 0..N : n \in S /\ n < N => n + 1 \in S
  PROVE  \A n \in 0..N : n \in S
<1> SUFFICES ASSUME NEW k \in 0..N, k \notin S PROVE FALSE
  OBVIOUS
<1> DEFINE Missing == {n \in 0..N : n \notin S}
<1>0. Missing \subseteq Nat /\ Missing # {}
  OBVIOUS
<1>1. PICK n \in Missing : \A m \in Missing : n <= m
  <2> HIDE DEF Missing
  <2> QED BY <1>0, Least
<1>2. n # 0 /\ n - 1 \in 0..N /\ n - 1 < N
  BY <1>1
<1>3. n - 1 \in S
  BY <1>1, <1>2
<1>4. n - 1 + 1 \in S
  BY <1>2, <1>3
<1> QED BY <1>1, <1>4

Sums(f, q) == f \in [0..Len(q) -> Int] /\ f[0] = 0 /\ \A i \in 1..Len(q) : f[i] = f[i - 1] + q[i]

LEMMA SumsExist == ASSUME NEW q \in Seq(Int) PROVE \E f : Sums(f, q)
<1>0. Len(q) \in Nat
  OBVIOUS
<1> DEFINE Upto(f, n) == f \in [0..n -> Int] /\ f[0] = 0 /\ \A i \in 1..n : f[i] = f[i - 1] + q[i]
           S == {n \in 0..Len(q) : \E f : Upto(f, n)}
<1>1. 0 \in S
  <2> DEFINE zero == [i \in 0..0 |-> 0]
  <2>1. Upto(zero, 0)
    OBVIOUS
  <2>2. \E f : Upto(f, 0)
    <3> HIDE DEF Upto, zero
    <3> QED BY <2>1
  <2> QED BY <2>2
<1>2. \A n \in 0..Len(q) : n \in S /\ n < Len(q) => n + 1 \in S
  <2> SUFFICES ASSUME NEW n \in 0..Len(q), n \in S, n < Len(q) PROVE n + 1 \in S
    OBVIOUS
  <2>1. PICK f : Upto(f, n)
    OBVIOUS
  <2>2. q[n + 1] \in Int
    OBVIOUS
  <2> DEFINE g == [i \in 0..(n + 1) |-> IF i = n + 1 THEN f[n] + q[n + 1] ELSE f[i]]
  <2>3. g \in [0..(n + 1) -> Int] /\ g[0] = 0
    BY <2>1, <2>2
  <2>4. ASSUME NEW i \in 1..(n + 1) PROVE g[i] = g[i - 1] + q[i]
    <3>1. CASE i = n + 1
      BY <3>1
    <3>2. CASE i \in 1..n
      BY <2>1, <3>2
    <3> QED BY <3>1, <3>2
  <2>5. Upto(g, n + 1)
    BY <2>3, <2>4
  <2>6. \E h : Upto(h, n + 1)
    <3> HIDE DEF Upto, g
    <3> QED BY <2>5
  <2>7. n + 1 \in 0..Len(q)
    OBVIOUS
  <2> HIDE DEF Upto
  <2> QED BY <2>6, <2>7
<1>3. \A n \in 0..Len(q) : n \in S
  <2> HIDE DEF S
  <2> QED BY <1>0, <1>1, <1>2, UpTo, Zenon
<1>4. \E f : Upto(f, Len(q))
  <2>1. Len(q) \in S
    <3>1. Len(q) \in 0..Len(q)
      BY <1>0
    <3> HIDE DEF S
    <3> QED BY <1>3, <3>1
  <2> HIDE DEF Upto
  <2> QED BY <2>1
<1> QED BY <1>4 DEF Sums

LEMMA TotalIsSum ==
  ASSUME NEW q \in Seq(Int)
  PROVE  \E f : Sums(f, q) /\ Total(q) = f[Len(q)]
<1>0. Len(q) \in Nat
  OBVIOUS
<1> DEFINE Body(f) == [i \in 0..Len(q) |-> IF i = 0 THEN 0 ELSE f[i - 1] + q[i]]
           sum == CHOOSE f : f = Body(f)
<1>1. PICK f : Sums(f, q)
  BY SumsExist
<1>2. f = Body(f)
  BY <1>1 DEF Sums
<1>3. sum = Body(sum)
  BY <1>2
<1>4. Total(q) = sum[Len(q)]
  BY DEF Total
<1>5. \A i \in 0..Len(q) : sum[i] = f[i]
  <2> DEFINE S == {i \in 0..Len(q) : sum[i] = f[i]}
  <2>1. 0 \in S
    <3>1. Body(sum)[0] = 0
      BY <1>0
    <3>2. sum[0] = 0
      BY <1>3, <3>1, Zenon
    <3> HIDE DEF sum
    <3> QED BY <1>0, <1>1, <3>2 DEF Sums
  <2>2. \A n \in 0..Len(q) : n \in S /\ n < Len(q) => n + 1 \in S
    <3> SUFFICES ASSUME NEW n \in 0..Len(q), n \in S, n < Len(q) PROVE n + 1 \in S
      OBVIOUS
    <3> HIDE DEF sum
    <3>1. n + 1 \in 0..Len(q) /\ n + 1 # 0 /\ n + 1 - 1 = n
      BY <1>0
    <3>2. Body(sum)[n + 1] = sum[n] + q[n + 1]
      BY <3>1
    <3>3. sum[n + 1] = sum[n] + q[n + 1]
      BY <1>3, <3>2, Zenon
    <3> QED BY <1>1, <3>1, <3>3 DEF Sums
  <2> HIDE DEF S
  <2>3. \A i \in 0..Len(q) : i \in S
    BY <1>0, <2>1, <2>2, UpTo, Zenon
  <2> QED BY <2>3 DEF S
<1> QED BY <1>1, <1>4, <1>5

\* One more summand; one summand changed; nothing to sum.
LEMMA TotalMore ==
  ASSUME NEW q \in Seq(Int), NEW p \in Seq(Int), Len(p) = Len(q) + 1,
         \A i \in 1..Len(q) : p[i] = q[i]
  PROVE  Total(p) = Total(q) + p[Len(p)]
<1>0. Len(q) \in Nat
  OBVIOUS
<1>1. PICK f : Sums(f, q) /\ Total(q) = f[Len(q)]
  BY TotalIsSum
<1>2. PICK g : Sums(g, p) /\ Total(p) = g[Len(p)]
  BY TotalIsSum
<1> DEFINE S == {i \in 0..Len(q) : f[i] = g[i]}
<1>3. 0 \in S
  BY <1>1, <1>2 DEF Sums
<1>4. \A n \in 0..Len(q) : n \in S /\ n < Len(q) => n + 1 \in S
  BY <1>1, <1>2 DEF Sums
<1>5. \A i \in 0..Len(q) : i \in S
  <2> HIDE DEF S
  <2> QED BY <1>0, <1>3, <1>4, UpTo, Zenon
<1>6. f[Len(q)] = g[Len(q)]
  BY <1>5
<1> QED BY <1>1, <1>2, <1>6 DEF Sums

LEMMA TotalChanged ==
  ASSUME NEW q \in Seq(Int), NEW p \in Seq(Int), Len(p) = Len(q), NEW c \in 1..Len(q),
         \A i \in 1..Len(q) : i # c => p[i] = q[i]
  PROVE  Total(p) = Total(q) + p[c] - q[c]
<1>0. Len(q) \in Nat
  OBVIOUS
<1>1. PICK f : Sums(f, q) /\ Total(q) = f[Len(q)]
  BY TotalIsSum
<1>2. PICK g : Sums(g, p) /\ Total(p) = g[Len(p)]
  BY TotalIsSum
<1> DEFINE S == {i \in 0..Len(q) : g[i] = f[i] + IF i < c THEN 0 ELSE p[c] - q[c]}
<1>3. 0 \in S
  BY <1>1, <1>2 DEF Sums
<1>4. \A n \in 0..Len(q) : n \in S /\ n < Len(q) => n + 1 \in S
  <2> SUFFICES ASSUME NEW n \in 0..Len(q), n \in S, n < Len(q) PROVE n + 1 \in S
    OBVIOUS
  <2>1. /\ f[n + 1] = f[n] + q[n + 1] /\ g[n + 1] = g[n] + p[n + 1]
        /\ f[n] \in Int /\ g[n] \in Int /\ q[n + 1] \in Int /\ p[n + 1] \in Int /\ p[c] \in Int /\ q[c] \in Int
    <3>1. n + 1 \in 1..Len(q) /\ n + 1 - 1 = n
      BY <1>0
    <3>2. n \in 0..Len(p) /\ n + 1 \in 1..Len(p)
      BY <1>0
    <3> HIDE DEF S
    <3>6. f \in [0..Len(q) -> Int] /\ n \in 0..Len(q)
      BY <1>1 DEF Sums
    <3>7. \A i \in 1..Len(q) : f[i] = f[i - 1] + q[i]
      BY <1>1 DEF Sums
    <3>3. /\ f[n] \in Int
          /\ f[n + 1] = f[n + 1 - 1] + q[n + 1]
      BY <3>1, <3>6, <3>7, SMTT(30)
    <3>4. /\ g[n] \in Int
          /\ g[n + 1] = g[n + 1 - 1] + p[n + 1]
      BY <1>2, <3>2, SMTT(30) DEF Sums
    <3>5. q[n + 1] \in Int /\ p[n + 1] \in Int /\ p[c] \in Int /\ q[c] \in Int
      BY <3>1, <3>2
    <3> QED BY <3>1, <3>3, <3>4, <3>5
  <2>2. g[n] = f[n] + IF n < c THEN 0 ELSE p[c] - q[c]
    OBVIOUS
  <2>3. CASE n + 1 = c
    BY <2>1, <2>2, <2>3
  <2>4. CASE n + 1 # c
    <3>1. p[n + 1] = q[n + 1]
      BY <2>4
    <3>2. CASE n < c
      BY <2>1, <2>2, <2>4, <3>1, <3>2
    <3>3. CASE ~(n < c)
      BY <2>1, <2>2, <2>4, <3>1, <3>3, SMTT(30)
    <3> QED BY <3>2, <3>3
  <2> QED BY <2>3, <2>4
<1>5. \A i \in 0..Len(q) : i \in S
  <2> HIDE DEF S
  <2> QED BY <1>0, <1>3, <1>4, UpTo, Zenon
<1>6. g[Len(q)] = f[Len(q)] + (p[c] - q[c])
  BY <1>5
<1> QED BY <1>1, <1>2, <1>6 DEF Sums

LEMMA TotalNothing ==
  ASSUME NEW q \in Seq(Int), \A i \in 1..Len(q) : q[i] = 0
  PROVE  Total(q) = 0
<1>0. Len(q) \in Nat
  OBVIOUS
<1>1. PICK f : Sums(f, q) /\ Total(q) = f[Len(q)]
  BY TotalIsSum
<1> DEFINE S == {i \in 0..Len(q) : f[i] = 0}
<1>2. 0 \in S
  BY <1>1 DEF Sums
<1>3. \A n \in 0..Len(q) : n \in S /\ n < Len(q) => n + 1 \in S
  BY <1>1 DEF Sums
<1>4. \A i \in 0..Len(q) : i \in S
  <2> HIDE DEF S
  <2> QED BY <1>0, <1>2, <1>3, UpTo, Zenon
<1> QED BY <1>0, <1>1, <1>4

-----------------------------------------------------------------------------
(* Deleting the attempts of a category.                                    *)

Filter(f, k, s) ==
  /\ f \in [0..Len(s) -> Seq(Attempt)] /\ f[0] = <<>>
  /\ \A i \in 1..Len(s) : f[i] = IF s[i].card.cat = k THEN f[i - 1] ELSE Append(f[i - 1], s[i])

LEMMA FilterExists == ASSUME NEW k, NEW s \in Seq(Attempt) PROVE \E f : Filter(f, k, s)
<1>0. Len(s) \in Nat
  OBVIOUS
<1> DEFINE Upto(f, n) ==
             /\ f \in [0..n -> Seq(Attempt)] /\ f[0] = <<>>
             /\ \A i \in 1..n : f[i] = IF s[i].card.cat = k THEN f[i - 1] ELSE Append(f[i - 1], s[i])
           S == {n \in 0..Len(s) : \E f : Upto(f, n)}
<1>1. 0 \in S
  <2> DEFINE nothing == [i \in 0..0 |-> <<>>]
  <2>1. Upto(nothing, 0)
    OBVIOUS
  <2>2. \E f : Upto(f, 0)
    <3> HIDE DEF Upto, nothing
    <3> QED BY <2>1
  <2> QED BY <2>2
<1>2. \A n \in 0..Len(s) : n \in S /\ n < Len(s) => n + 1 \in S
  <2> SUFFICES ASSUME NEW n \in 0..Len(s), n \in S, n < Len(s) PROVE n + 1 \in S
    OBVIOUS
  <2>1. PICK f : Upto(f, n)
    OBVIOUS
  <2>2. n + 1 \in 1..Len(s) /\ s[n + 1] \in Attempt
    BY <1>0
  <2> DEFINE last == IF s[n + 1].card.cat = k THEN f[n] ELSE Append(f[n], s[n + 1])
             g == [i \in 0..(n + 1) |-> IF i = n + 1 THEN last ELSE f[i]]
  <2>3. f \in [0..n -> Seq(Attempt)] /\ f[n] \in Seq(Attempt) /\ f[0] = <<>>
    BY <2>1
  <2>4. last \in Seq(Attempt)
    <3> HIDE DEF Upto, S
    <3>1. Append(f[n], s[n + 1]) \in Seq(Attempt)
      BY <2>2, <2>3
    <3> QED BY <2>3, <3>1
  <2>5. g \in [0..(n + 1) -> Seq(Attempt)] /\ g[0] = <<>>
    <3> HIDE DEF last, Upto, S
    <3> QED BY <2>3, <2>4
  <2>6. ASSUME NEW i \in 1..(n + 1)
        PROVE g[i] = IF s[i].card.cat = k THEN g[i - 1] ELSE Append(g[i - 1], s[i])
    <3>1. CASE i = n + 1
      BY <3>1
    <3>2. CASE i \in 1..n
      <4>1. f[i] = IF s[i].card.cat = k THEN f[i - 1] ELSE Append(f[i - 1], s[i])
        BY <2>1, <3>2
      <4>2. i \in 0..(n + 1) /\ i # n + 1 /\ i - 1 \in 0..(n + 1) /\ i - 1 # n + 1
        BY <3>2
      <4>3. g[i] = f[i] /\ g[i - 1] = f[i - 1]
        BY <4>2
      <4> QED BY <4>1, <4>3
    <3> QED BY <3>1, <3>2
  <2>7. Upto(g, n + 1)
    <3> HIDE DEF g
    <3> QED BY <2>5, <2>6
  <2>8. \E h : Upto(h, n + 1)
    <3> HIDE DEF Upto, g
    <3> QED BY <2>7
  <2>9. n + 1 \in 0..Len(s)
    OBVIOUS
  <2> HIDE DEF Upto
  <2> QED BY <2>8, <2>9
<1>3. \A n \in 0..Len(s) : n \in S
  <2> HIDE DEF S
  <2> QED BY <1>0, <1>1, <1>2, UpTo, Zenon
<1>4. \E f : Upto(f, Len(s))
  <2>1. Len(s) \in S
    <3>1. Len(s) \in 0..Len(s)
      BY <1>0
    <3> HIDE DEF S
    <3> QED BY <1>3, <3>1
  <2> HIDE DEF Upto
  <2> QED BY <2>1
<1> QED BY <1>4 DEF Filter

LEMMA WithoutIsFilter ==
  ASSUME NEW k, NEW s \in Seq(Attempt)
  PROVE  \E f : Filter(f, k, s) /\ Without(k, s) = f[Len(s)]
<1>0. Len(s) \in Nat
  OBVIOUS
<1> DEFINE Body(f) == [i \in 0..Len(s) |->
                         IF i = 0 THEN <<>> ELSE IF s[i].card.cat = k THEN f[i - 1] ELSE Append(f[i - 1], s[i])]
           kept == CHOOSE f : f = Body(f)
<1>1. PICK f : Filter(f, k, s)
  BY FilterExists
<1>2. f = Body(f)
  <2>1. \A i \in 0..Len(s) : f[i] = Body(f)[i]
    <3> TAKE i \in 0..Len(s)
    <3>1. CASE i = 0
      BY <1>1, <3>1 DEF Filter
    <3>2. CASE i \in 1..Len(s)
      <4>1. f[i] = IF s[i].card.cat = k THEN f[i - 1] ELSE Append(f[i - 1], s[i])
        BY <1>1, <3>2 DEF Filter
      <4> QED BY <3>2, <4>1
    <3> QED BY <3>1, <3>2
  <2>2. f \in [0..Len(s) -> Seq(Attempt)]
    BY <1>1 DEF Filter
  <2> QED BY <2>1, <2>2
<1>3. kept = Body(kept)
  BY <1>2
<1>4. Without(k, s) = kept[Len(s)]
  BY DEF Without
<1>5. \A i \in 0..Len(s) : kept[i] = f[i]
  <2> DEFINE S == {i \in 0..Len(s) : kept[i] = f[i]}
  <2>1. 0 \in S
    <3>1. Body(kept)[0] = <<>>
      BY <1>0
    <3>2. kept[0] = <<>>
      BY <1>3, <3>1, Zenon
    <3> HIDE DEF kept
    <3> QED BY <1>0, <1>1, <3>2 DEF Filter
  <2>2. \A n \in 0..Len(s) : n \in S /\ n < Len(s) => n + 1 \in S
    <3> SUFFICES ASSUME NEW n \in 0..Len(s), n \in S, n < Len(s) PROVE n + 1 \in S
      OBVIOUS
    <3> HIDE DEF kept
    <3>1. n + 1 \in 0..Len(s) /\ n + 1 \in 1..Len(s) /\ n + 1 # 0 /\ n + 1 - 1 = n
      BY <1>0
    <3>2. Body(kept)[n + 1] = IF s[n + 1].card.cat = k THEN kept[n] ELSE Append(kept[n], s[n + 1])
      BY <3>1
    <3>3. kept[n + 1] = IF s[n + 1].card.cat = k THEN kept[n] ELSE Append(kept[n], s[n + 1])
      BY <1>3, <3>2, Zenon
    <3>4. f[n + 1] = IF s[n + 1].card.cat = k THEN f[n + 1 - 1] ELSE Append(f[n + 1 - 1], s[n + 1])
      BY <1>1, <3>1 DEF Filter
    <3> QED BY <3>1, <3>3, <3>4
  <2> HIDE DEF S
  <2>3. \A i \in 0..Len(s) : i \in S
    BY <1>0, <2>1, <2>2, UpTo, Zenon
  <2> QED BY <2>3 DEF S
<1> HIDE DEF kept
<1>6. Len(s) \in 0..Len(s)
  BY <1>0
<1> QED BY <1>1, <1>4, <1>5, <1>6

\* What is left are attempts of other categories, and all of them when there is none of
\* the category.
LEMMA WithoutProperties ==
  ASSUME NEW k, NEW s \in Seq(Attempt)
  PROVE  /\ Without(k, s) \in Seq(Attempt)
         /\ \A i \in DOMAIN Without(k, s) :
              Without(k, s)[i].card.cat # k /\ \E j \in DOMAIN s : Without(k, s)[i] = s[j]
         /\ (\A i \in DOMAIN s : s[i].card.cat # k) => Without(k, s) = s
<1>0. Len(s) \in Nat /\ Len(s) \in 0..Len(s)
  OBVIOUS
<1>1. PICK f : Filter(f, k, s) /\ Without(k, s) = f[Len(s)]
  BY WithoutIsFilter
<1>2. \A n \in 0..Len(s) : f[n] \in Seq(Attempt)
  BY <1>1 DEF Filter
<1>6. \A i \in 1..Len(s) : f[i] = IF s[i].card.cat = k THEN f[i - 1] ELSE Append(f[i - 1], s[i])
  BY <1>1 DEF Filter
<1>7. ASSUME NEW n \in 0..Len(s), n < Len(s)
      PROVE  f[n + 1] = IF s[n + 1].card.cat = k THEN f[n] ELSE Append(f[n], s[n + 1])
  <2>1. n + 1 \in 1..Len(s) /\ n + 1 - 1 = n
    BY <1>0, <1>7
  <2> QED BY <1>6, <2>1
<1> DEFINE From(q) == \A i \in DOMAIN q : q[i].card.cat # k /\ \E j \in DOMAIN s : q[i] = s[j]
           S == {n \in 0..Len(s) : From(f[n])}
<1>3. \A n \in 0..Len(s) : n \in S
  <2>1. 0 \in S
    <3>1. f[0] = <<>> /\ DOMAIN <<>> = {} /\ 0 \in 0..Len(s)
      BY <1>0, <1>1 DEF Filter
    <3> QED BY <3>1
  <2>2. \A n \in 0..Len(s) : n \in S /\ n < Len(s) => n + 1 \in S
    <3> SUFFICES ASSUME NEW n \in 0..Len(s), n \in S, n < Len(s) PROVE n + 1 \in S
      OBVIOUS
    <3>1. n + 1 \in 0..Len(s) /\ n + 1 \in 1..Len(s) /\ n + 1 - 1 = n
      BY <1>0
    <3>2. f[n + 1] = IF s[n + 1].card.cat = k THEN f[n] ELSE Append(f[n], s[n + 1])
      BY <1>7, Zenon
    <3>3. From(f[n])
      OBVIOUS
    <3> HIDE DEF S
    <3>4. CASE s[n + 1].card.cat = k
      <4>1. From(f[n + 1])
        BY <3>1, <3>2, <3>3, <3>4
      <4> QED BY <3>1, <4>1 DEF S
    <3>5. CASE s[n + 1].card.cat # k
      <4>1. f[n] \in Seq(Attempt) /\ f[n + 1] = Append(f[n], s[n + 1]) /\ s[n + 1] \in Attempt /\ n + 1 \in DOMAIN s
        BY <1>2, <3>1, <3>2, <3>5
      <4>2. ASSUME NEW i \in DOMAIN f[n + 1]
            PROVE f[n + 1][i].card.cat # k /\ \E j \in DOMAIN s : f[n + 1][i] = s[j]
        <5>1. CASE i \in DOMAIN f[n]
          <6>1. f[n + 1][i] = f[n][i]
            BY <4>1, <5>1
          <6> QED BY <3>3, <5>1, <6>1
        <5>2. CASE i = Len(f[n]) + 1
          <6>1. f[n + 1][i] = s[n + 1]
            BY <4>1, <5>2
          <6> QED BY <3>5, <4>1, <6>1
        <5> QED BY <4>1, <5>1, <5>2
      <4>3. From(f[n + 1])
        BY <4>2
      <4> HIDE DEF From
      <4> QED BY <3>1, <4>3 DEF S
    <3> QED BY <3>4, <3>5
  <2> HIDE DEF S
  <2> QED BY <1>0, <2>1, <2>2, UpTo, Zenon
<1>4. From(f[Len(s)])
  BY <1>0, <1>3
<1>5. ASSUME \A i \in DOMAIN s : s[i].card.cat # k
      PROVE  f[Len(s)] = s
  <2> DEFINE T == {n \in 0..Len(s) : f[n] = SubSeq(s, 1, n)}
  <2>1. 0 \in T
    BY <1>0, <1>1 DEF Filter
  <2>2. \A n \in 0..Len(s) : n \in T /\ n < Len(s) => n + 1 \in T
    <3> SUFFICES ASSUME NEW n \in 0..Len(s), n \in T, n < Len(s) PROVE n + 1 \in T
      OBVIOUS
    <3>1. n + 1 \in 0..Len(s) /\ n + 1 \in 1..Len(s) /\ n + 1 - 1 = n /\ s[n + 1].card.cat # k
      BY <1>0, <1>5
    <3>2. f[n + 1] = IF s[n + 1].card.cat = k THEN f[n] ELSE Append(f[n], s[n + 1])
      BY <1>7, Zenon
    <3>3. f[n + 1] = Append(SubSeq(s, 1, n), s[n + 1])
      BY <3>1, <3>2
    <3>4. Append(SubSeq(s, 1, n), s[n + 1]) = SubSeq(s, 1, n + 1)
      BY <3>1
    <3> QED BY <3>1, <3>3, <3>4
  <2> HIDE DEF T
  <2>3. \A n \in 0..Len(s) : n \in T
    BY <1>0, <2>1, <2>2, UpTo, Zenon
  <2>4. f[Len(s)] = SubSeq(s, 1, Len(s))
    BY <1>0, <2>3 DEF T
  <2>5. SubSeq(s, 1, Len(s)) = s
    OBVIOUS
  <2> QED BY <2>4, <2>5
<1> QED BY <1>0, <1>1, <1>2, <1>4, <1>5

-----------------------------------------------------------------------------
(* Types.                                                                  *)

Claims == {"none", "right", "wrong", "bad"}
Call == [kind : Kinds \cup {"none"}, at : Stages \cup {"idle"}, team : Teams \cup {"none"},
         phone : Phones \cup {"none"}, card : Code \cup {NoCard}, station : Stations \cup {"none"},
         claim : Claims, streak : Int, delta : Int, todo : SUBSET (Stations \cup Code), done : BOOLEAN]

\* What a request carries: the team and the card, and what its handler will go through.
Sound(r) ==
  /\ r.kind = "none" => r = NoCall
  /\ r.kind # "none" => r.at \in Stages
  /\ r.kind \in {"scan", "answer"} => r.team \in Teams /\ r.phone \in Phones /\ r.card \in Code
  /\ r.kind = "answer" => r.station \in Stations
  /\ r.kind = "scan" => r.todo \subseteq Stations /\ (r.done => r.station \in Stations)
  /\ r.kind = "generate" => r.todo \subseteq Code
  /\ r.at = "pay" => r.kind = "answer"
CallsSound == call \in [Calls -> Call] /\ \A c \in Calls : Sound(call[c])

Schema ==
  /\ slug \in [Categories -> Slugs] /\ categories \subseteq Categories /\ deck \subseteq categories
  /\ pools \subseteq categories \X Difficulties \X Stations
  /\ cards \subseteq Code /\ \A c \in cards : c.cat \in categories
  /\ \A c, d \in cards : SameSticker(c, d) => c = d
Rows ==
  /\ attempts \in [Teams -> Seq(Attempt)] /\ points \in [Teams -> Int]
  /\ \A t \in Teams : \A i \in DOMAIN attempts[t] : attempts[t][i].card \in cards
  /\ cut \subseteq Teams /\ raced \subseteq Teams
Screens ==
  /\ draw \in [Phones -> Drawn \cup {NoDraw}] /\ result \in [Phones -> Drawn \cup {NoDraw}]
  /\ closing \in [Phones -> BOOLEAN] /\ session \in [Phones -> BOOLEAN] /\ left \subseteq Phones

TypeInv == CallsSound /\ Schema /\ Rows /\ Screens

LEMMA TypeInvImplies == TypeInv => TypeOK
<1> SUFFICES ASSUME TypeInv PROVE TypeOK
  OBVIOUS
<1>1. \A c \in Calls : call[c] = NoCall \/ (call[c].kind \in Kinds /\ call[c].at \in Stages)
  BY DEF TypeInv, CallsSound, Sound, Call
<1>2. \A x \in pools : x[1] \in categories
  BY DEF TypeInv, Schema
<1>3. \A t \in Teams : \A i \in DOMAIN attempts[t] : attempts[t][i] \in Attempt /\ attempts[t][i].card \in cards
  BY DEF TypeInv, Rows
<1> QED BY <1>1, <1>2, <1>3 DEF TypeInv, TypeOK, Schema, Rows, Screens

LEMMA NoCallSound == NoCall \in Call /\ Sound(NoCall)
BY DEF NoCall, Call, Sound, Claims, NoCard

LEMMA TypeInit == Init => TypeInv
<1> SUFFICES ASSUME Init PROVE TypeInv
  OBVIOUS
<1>1. CallsSound
  BY NoCallSound DEF Init, CallsSound
<1>2. Schema
  BY RiskAssumption DEF Init, Schema, Wanted, Code
<1>3. Rows
  BY DEF Init, Rows
<1>4. Screens
  BY DEF Init, Screens
<1> QED BY <1>1, <1>2, <1>3, <1>4 DEF TypeInv

LEMMA PutSound ==
  ASSUME CallsSound, NEW c \in Calls, NEW r \in Call, Sound(r), Put(c, r)
  PROVE  CallsSound'
BY DEF CallsSound, Put

LEMMA RefusedSound ==
  ASSUME NEW r \in Call, Sound(r)
  PROVE  Refused(r) \in Call /\ Sound(Refused(r))
<1>1. CASE r.phone = "none"
  BY <1>1, NoCallSound DEF Refused
<1>2. CASE r.phone # "none"
  <2> DEFINE q == [r EXCEPT !.at = "answered", !.done = FALSE]
  <2>1. q \in Call
    BY DEF Call, Stages
  <2>2. /\ q.kind = r.kind /\ q.at = "answered" /\ q.team = r.team /\ q.phone = r.phone /\ q.card = r.card
        /\ q.station = r.station /\ q.todo = r.todo /\ q.done = FALSE
    BY DEF Call
  <2>3. r.kind # "none"
    BY <1>2 DEF Sound, NoCall
  <2> HIDE DEF q
  <2>4. Sound(q)
    BY <2>2, <2>3 DEF Sound, Stages
  <2> QED BY <1>2, <2>1, <2>4 DEF Refused, q
<1> QED BY <1>1, <1>2

\* What a call that is put in flight, moved on or ended is.
LEMMA FreeIsIdle == ASSUME NEW c \in Calls, Free(c) PROVE call[c] = NoCall
<1>1. {d \in Calls : Idle(d)} # {} /\ c = CHOOSE d \in {d \in Calls : Idle(d)} : TRUE
  BY DEF Free
<1>2. c \in {d \in Calls : Idle(d)}
  BY <1>1
<1> QED BY <1>2 DEF Idle

-----------------------------------------------------------------------------
LEMMA TypeScan ==
  ASSUME TypeInv, NEW c \in Calls, NEW p \in Phones, NEW k \in Code, Scan(p, c, k)
  PROVE  TypeInv'
<1> DEFINE r == [NoCall EXCEPT !.kind = "scan", !.at = "sent", !.team = TeamOf[p], !.phone = p, !.card = k]
<1>1. r \in Call
  BY NoCallSound, RiskAssumption DEF Call, Claims, Kinds, Stages
<1>2. Sound(r)
  BY RiskAssumption DEF Sound, NoCall, Stages
<1>3. CallsSound'
  <2> HIDE DEF r
  <2> QED BY <1>1, <1>2, PutSound DEF TypeInv, Scan, r
<1> QED BY <1>3 DEF TypeInv, Scan, Schema, Rows, Screens, setup, screens

LEMMA TypeFindCard == ASSUME TypeInv, NEW c \in Calls, FindCard(c) PROVE TypeInv'
<1> PICK r : r = call[c]
  OBVIOUS
<1>0. r \in Call /\ Sound(r) /\ r.kind = "scan"
  BY DEF TypeInv, CallsSound, FindCard
<1> DEFINE found == {k \in cards : SameSticker(k, r.card)}
           k == CHOOSE k \in found : TRUE
           q == [r EXCEPT !.at = "look", !.card = k, !.todo = {x[3] : x \in InPool(k)}]
<1>1. Put(c, IF session[r.phone] /\ found # {} THEN q ELSE Refused(r))
  BY DEF FindCard
<1>2. CASE found # {}
  <2>1. k \in found
    BY <1>2
  <2>2. k \in Code
    BY <2>1 DEF TypeInv, Schema
  <2>3. {x[3] : x \in InPool(k)} \subseteq Stations
    BY DEF InPool, TypeInv, Schema
  <2> HIDE DEF k
  <2>4. q \in Call
    BY <1>0, <2>2, <2>3, ZenonT(40) DEF Call, Stages
  <2>5. /\ q.kind = "scan" /\ q.at = "look" /\ q.team = r.team /\ q.phone = r.phone /\ q.card = k
        /\ q.station = r.station /\ q.todo = {x[3] : x \in InPool(k)} /\ q.done = r.done
    BY <1>0 DEF Call
  <2> HIDE DEF q
  <2>6. Sound(q)
    BY <1>0, <2>2, <2>3, <2>5 DEF Sound, Stages
  <2>7. CallsSound'
    BY <1>0, <1>1, <2>4, <2>6, RefusedSound, PutSound DEF TypeInv
  <2> QED BY <2>7 DEF TypeInv, FindCard, Schema, Rows, Screens, setup, screens
<1>3. CASE found = {}
  <2>1. CallsSound'
    BY <1>0, <1>1, <1>3, RefusedSound, PutSound DEF TypeInv
  <2> QED BY <2>1 DEF TypeInv, FindCard, Schema, Rows, Screens, setup, screens
<1> QED BY <1>2, <1>3

LEMMA TypeDraw == ASSUME TypeInv, NEW c \in Calls, Draw(c) PROVE TypeInv'
<1> PICK r : r = call[c]
  OBVIOUS
<1>0. r \in Call /\ Sound(r) /\ r.kind = "scan"
  BY DEF TypeInv, CallsSound, Draw
<1> DEFINE e == [r EXCEPT !.at = "exhausted"]
           q(s) == [r EXCEPT !.at = "answered", !.done = TRUE, !.station = s]
<1>1. Put(c, e) \/ \E s \in r.todo : Put(c, q(s))
  BY DEF Draw
<1>2. e \in Call /\ Sound(e)
  <2>1. e \in Call
    BY <1>0 DEF Call, Stages
  <2>2. /\ e.kind = "scan" /\ e.at = "exhausted" /\ e.team = r.team /\ e.phone = r.phone /\ e.card = r.card
        /\ e.station = r.station /\ e.todo = r.todo /\ e.done = r.done
    BY <1>0 DEF Call
  <2> HIDE DEF e
  <2> QED BY <1>0, <2>1, <2>2 DEF Sound, Stages
<1>3. ASSUME NEW s \in r.todo PROVE q(s) \in Call /\ Sound(q(s))
  <2> DEFINE w == q(s)
  <2>0. s \in Stations
    BY <1>0 DEF Sound
  <2>1. w \in Call
    BY <1>0, <2>0 DEF Call, Stages
  <2>2. /\ w.kind = "scan" /\ w.at = "answered" /\ w.team = r.team /\ w.phone = r.phone /\ w.card = r.card
        /\ w.station = s /\ w.todo = r.todo /\ w.done = TRUE
    BY <1>0 DEF Call
  <2>3. Sound(w)
    <3> HIDE DEF w
    <3> QED BY <1>0, <2>0, <2>2 DEF Sound, Stages
  <2> QED BY <2>1, <2>3
<1>4. CallsSound'
  <2> HIDE DEF e, q
  <2> QED BY <1>1, <1>2, <1>3, PutSound DEF TypeInv
<1> QED BY <1>4 DEF TypeInv, Draw, Schema, Rows, Screens, setup, screens

LEMMA TypeSubmit ==
  ASSUME TypeInv, NEW c \in Calls, NEW p \in Phones, NEW claim \in Claims, Submit(p, c, claim)
  PROVE  TypeInv'
<1> DEFINE r == [NoCall EXCEPT !.kind = "answer", !.at = "sent", !.team = TeamOf[p], !.phone = p,
                               !.card = draw[p].card, !.station = draw[p].station, !.claim = claim]
<1>0. draw[p].card \in Code /\ draw[p].station \in Stations
  BY DEF TypeInv, Screens, Submit, Drawn
<1>1. r \in Call
  BY <1>0, NoCallSound, RiskAssumption, ZenonT(40) DEF Call, Claims, Kinds, Stages
<1>2. Sound(r)
  BY <1>0, RiskAssumption DEF Sound, NoCall, Stages
<1>3. CallsSound'
  <2> HIDE DEF r
  <2> QED BY <1>1, <1>2, PutSound DEF TypeInv, Submit, r
<1> QED BY <1>3 DEF TypeInv, Submit, Schema, Rows, Screens, setup, screens

\* The statements of submitAnswer that only move the call on.
LEMMA Moved ==
  ASSUME NEW r \in Call, Sound(r), r.kind = "answer", NEW at \in Stages
  PROVE  [r EXCEPT !.at = at] \in Call /\ Sound([r EXCEPT !.at = at])
<1> DEFINE q == [r EXCEPT !.at = at]
<1>1. q \in Call
  BY DEF Call
<1>2. q.kind = "answer" /\ q.at = at /\ q.team = r.team /\ q.phone = r.phone /\ q.card = r.card /\ q.station = r.station
  BY DEF Call
<1> HIDE DEF q
<1>3. Sound(q)
  BY <1>2 DEF Sound
<1> QED BY <1>1, <1>3 DEF q

LEMMA TypeCheckPool == ASSUME TypeInv, NEW c \in Calls, CheckPool(c) PROVE TypeInv'
<1> PICK r : r = call[c]
  OBVIOUS
<1>0. r \in Call /\ Sound(r) /\ r.kind = "answer" /\ "look" \in Stages
  BY DEF TypeInv, CallsSound, CheckPool, Stages
<1>1. CallsSound'
  <2>1. Put(c, [r EXCEPT !.at = "look"]) \/ Put(c, Refused(r))
    BY DEF CheckPool
  <2> QED BY <1>0, <2>1, Moved, RefusedSound, PutSound DEF TypeInv
<1>2. raced' \subseteq Teams
  BY <1>0 DEF TypeInv, Rows, CheckPool, Sound
<1> QED BY <1>1, <1>2 DEF TypeInv, CheckPool, Schema, Rows, Screens, setup, screens

LEMMA TypeCheckTried == ASSUME TypeInv, NEW c \in Calls, CheckTried(c) PROVE TypeInv'
<1> PICK r : r = call[c]
  OBVIOUS
<1>0. r \in Call /\ Sound(r) /\ r.kind = "answer" /\ "streak" \in Stages
  BY DEF TypeInv, CallsSound, CheckTried, Stages
<1>1. CallsSound'
  <2>1. Put(c, [r EXCEPT !.at = "streak"]) \/ Put(c, Refused(r))
    BY DEF CheckTried
  <2> QED BY <1>0, <2>1, Moved, RefusedSound, PutSound DEF TypeInv
<1> QED BY <1>1 DEF TypeInv, CheckTried, Schema, Rows, Screens, setup, screens

\* A streak is a number: a finite set of numbers has a greatest one.
LEMMA MaxIn ==
  ASSUME NEW n \in Nat, NEW S, S \subseteq 1..n, S # {}
  PROVE  Max(S) \in S /\ \A i \in S : i <= Max(S)
<1> DEFINE Bounds == {u \in Nat : \A i \in S : i <= u}
<1>1. n \in Bounds
  OBVIOUS
<1>2. PICK u \in Bounds : \A v \in Bounds : u <= v
  <2> HIDE DEF Bounds
  <2>1. Bounds \subseteq Nat
    BY DEF Bounds
  <2> QED BY <1>1, <2>1, Least
<1>3. u \in S
  <2> SUFFICES ASSUME u \notin S PROVE FALSE
    OBVIOUS
  <2>1. \A i \in S : i \in Nat /\ 1 <= i /\ i < u
    BY <1>2
  <2>2. u - 1 \in Bounds
    <3>1. PICK i \in S : TRUE
      OBVIOUS
    <3>2. u - 1 \in Nat
      BY <1>2, <2>1, <3>1
    <3>3. \A j \in S : j <= u - 1
      BY <1>2, <2>1
    <3> QED BY <3>2, <3>3
  <2> QED BY <1>2, <2>2
<1>4. \E x \in S : \A y \in S : x >= y
  BY <1>2, <1>3
<1>5. Max(S) \in S /\ \A y \in S : Max(S) >= y
  BY <1>4 DEF Max
<1> QED BY <1>5

LEMMA MinOfTwo ==
  ASSUME NEW a \in Int, NEW b \in Int
  PROVE  Min({a, b}) = IF a <= b THEN a ELSE b
<1>1. \A x \in {a, b} : x = a \/ x = b
  OBVIOUS
<1> QED BY <1>1 DEF Min
LEMMA MaxOfTwo ==
  ASSUME NEW a \in Int, NEW b \in Int
  PROVE  Max({a, b}) = IF a >= b THEN a ELSE b
BY DEF Max

LEMMA StreakIsNat == ASSUME NEW s \in Seq(Attempt) PROVE Streak(s) \in Nat
<1> DEFINE broken == {i \in DOMAIN s : ~s[i].ok}
           run == IF broken = {} THEN Len(s) ELSE Len(s) - Max(broken)
<1>1. Len(s) \in Nat /\ broken \subseteq 1..Len(s)
  OBVIOUS
<1>2. run \in Nat
  <2>1. CASE broken = {}
    BY <1>1, <2>1
  <2>2. CASE broken # {}
    <3>1. Max(broken) \in broken
      <4> HIDE DEF broken
      <4> QED BY <1>1, <2>2, MaxIn
    <3>2. Max(broken) \in 1..Len(s)
      <4> HIDE DEF broken
      <4> QED BY <1>1, <3>1
    <3> HIDE DEF broken
    <3> QED BY <1>1, <2>2, <3>2
  <2> QED BY <2>1, <2>2
<1>3. Streak(s) = Min({run, Window})
  BY DEF Streak
<1> HIDE DEF run
<1>4. run \in Int /\ Window \in Nat
  BY <1>2, RiskAssumption
<1>5. Min({run, Window}) = IF run <= Window THEN run ELSE Window
  BY <1>4, MinOfTwo
<1> QED BY <1>2, <1>3, <1>4, <1>5

LEMMA PaidIsNat == ASSUME NEW d \in Difficulties, NEW n \in Nat PROVE Paid(Correct[d], n) \in Int
<1>1. Correct[d] \in Nat
  BY RiskAssumption
<1> DEFINE more == Max({0, n - 1})
           quarters == Min({4 + more, 8})
<1>2. more \in Nat
  BY MaxOfTwo
<1>3. quarters \in Nat
  <2> HIDE DEF more
  <2> QED BY <1>2, MinOfTwo
<1>4. Paid(Correct[d], n) = (2 * Correct[d] * quarters + 4) \div 8
  BY DEF Paid
<1> HIDE DEF quarters
<1>5. 2 * Correct[d] * quarters + 4 \in Int
  BY <1>1, <1>3
<1> QED BY <1>4, <1>5

\* What an answer with this card is worth after these attempts.
Worth(right, d, s) == IF right THEN Paid(Correct[d], Streak(s) + 1) ELSE -Wrong[d]

LEMMA WorthIsInt ==
  ASSUME NEW right \in BOOLEAN, NEW d \in Difficulties, NEW s \in Seq(Attempt)
  PROVE  Worth(right, d, s) \in Int
<1>1. Streak(s) + 1 \in Nat
  BY StreakIsNat
<1>2. Wrong[d] \in Nat
  BY RiskAssumption
<1> QED BY <1>1, <1>2, PaidIsNat DEF Worth

LEMMA TypeReadStreak == ASSUME TypeInv, NEW c \in Calls, ReadStreak(c) PROVE TypeInv'
<1> PICK r : r = call[c]
  OBVIOUS
<1>0. r \in Call /\ Sound(r) /\ r.kind = "answer" /\ r.team \in Teams /\ r.card.diff \in Difficulties
  BY DEF TypeInv, CallsSound, ReadStreak, Sound, Code
<1> DEFINE right == r.claim = "right"
           n == IF right THEN Streak(attempts[r.team]) + 1 ELSE 0
           w == IF right THEN Paid(Correct[r.card.diff], n) ELSE -Wrong[r.card.diff]
           q == [r EXCEPT !.at = "create", !.streak = n, !.delta = w]
<1>1. attempts[r.team] \in Seq(Attempt)
  BY <1>0 DEF TypeInv, Rows
<1>2. n \in Int /\ (right => n \in Nat)
  BY <1>1, StreakIsNat
<1>3. w \in Int
  <2> HIDE DEF n
  <2>1. Wrong[r.card.diff] \in Nat
    BY <1>0, RiskAssumption
  <2> QED BY <1>0, <1>2, <2>1, PaidIsNat
<1>4. Put(c, q)
  BY DEF ReadStreak
<1> HIDE DEF n, w
<1>5. q \in Call
  BY <1>0, <1>2, <1>3 DEF Call, Stages
<1>6. q.kind = "answer" /\ q.at = "create" /\ q.team = r.team /\ q.phone = r.phone /\ q.card = r.card /\ q.station = r.station
  BY <1>0 DEF Call
<1> HIDE DEF q
<1>7. Sound(q)
  BY <1>0, <1>6 DEF Sound, Stages
<1>8. CallsSound'
  BY <1>4, <1>5, <1>7, PutSound DEF TypeInv
<1> QED BY <1>8 DEF TypeInv, ReadStreak, Schema, Rows, Screens, setup, screens

LEMMA TypeCreateAttempt == ASSUME TypeInv, NEW c \in Calls, CreateAttempt(c) PROVE TypeInv'
<1> PICK r : r = call[c]
  OBVIOUS
<1>0. r \in Call /\ Sound(r) /\ r.kind = "answer" /\ "pay" \in Stages
  BY DEF TypeInv, CallsSound, CreateAttempt, Stages
<1> DEFINE row == [card |-> r.card, station |-> r.station, ok |-> r.claim = "right", delta |-> r.delta]
<1>1. CallsSound'
  <2>1. Put(c, [r EXCEPT !.at = "pay"]) \/ Put(c, Refused(r))
    BY DEF CreateAttempt
  <2> QED BY <1>0, <2>1, Moved, RefusedSound, PutSound DEF TypeInv
<1>2. row \in Attempt /\ row.card = r.card
  BY <1>0 DEF Sound, Attempt, Call
<1>3. r.card \in cards => attempts' = [attempts EXCEPT ![r.team] = Append(@, row)]
  BY DEF CreateAttempt
<1>4. r.card \notin cards => attempts' = attempts
  BY DEF CreateAttempt
<1> HIDE DEF row
<1>5. Rows'
  <2>1. CASE r.card \notin cards
    BY <1>4, <2>1 DEF TypeInv, Rows, CreateAttempt
  <2>2. CASE r.card \in cards
    <3>1. r.team \in Teams /\ attempts[r.team] \in Seq(Attempt)
      BY <1>0 DEF Sound, TypeInv, Rows
    <3>2. Append(attempts[r.team], row) \in Seq(Attempt)
      BY <1>2, <3>1
    <3>3. attempts' \in [Teams -> Seq(Attempt)]
      BY <1>3, <2>2, <3>1, <3>2 DEF TypeInv, Rows
    <3>4. ASSUME NEW t \in Teams, NEW i \in DOMAIN attempts'[t]
          PROVE  attempts'[t][i].card \in cards
      <4>1. CASE t # r.team
        <5>1. attempts'[t] = attempts[t]
          BY <1>3, <2>2, <4>1 DEF TypeInv, Rows
        <5> QED BY <3>4, <5>1 DEF TypeInv, Rows
      <4>2. CASE t = r.team
        <5>1. attempts'[t] = Append(attempts[t], row)
          BY <1>3, <2>2, <3>1, <4>2 DEF TypeInv, Rows
        <5>2. CASE i \in DOMAIN attempts[t]
          <6>1. attempts'[t][i] = attempts[t][i]
            BY <1>2, <3>1, <4>2, <5>1, <5>2
          <6> QED BY <5>2, <6>1 DEF TypeInv, Rows
        <5>3. CASE i = Len(attempts[t]) + 1
          <6>1. attempts'[t][i] = row
            BY <1>2, <3>1, <4>2, <5>1, <5>3
          <6> QED BY <1>2, <2>2, <6>1
        <5> QED BY <1>2, <3>1, <3>4, <4>2, <5>1, <5>2, <5>3
      <4> QED BY <4>1, <4>2
    <3> QED BY <3>3, <3>4 DEF TypeInv, Rows, CreateAttempt
  <2> QED BY <2>1, <2>2
<1> QED BY <1>1, <1>5 DEF TypeInv, CreateAttempt, Schema, Screens, setup, screens

LEMMA TypePay == ASSUME TypeInv, NEW c \in Calls, Pay(c) PROVE TypeInv'
<1> PICK r : r = call[c]
  OBVIOUS
<1>0. r \in Call /\ Sound(r) /\ r.kind = "answer" /\ r.team \in Teams /\ r.delta \in Int
  BY DEF TypeInv, CallsSound, Pay, Sound, Call
<1> DEFINE q == [r EXCEPT !.at = "answered", !.done = TRUE]
<1>1. Put(c, q)
  BY DEF Pay
<1>2. q \in Call
  BY <1>0 DEF Call, Stages
<1>3. q.kind = "answer" /\ q.at = "answered" /\ q.team = r.team /\ q.phone = r.phone /\ q.card = r.card /\ q.station = r.station
  BY <1>0 DEF Call
<1> HIDE DEF q
<1>4. Sound(q)
  BY <1>0, <1>3 DEF Sound, Stages
<1>5. CallsSound'
  BY <1>1, <1>2, <1>4, PutSound DEF TypeInv
<1>6. points' \in [Teams -> Int]
  <2>1. points' = [points EXCEPT ![r.team] = points[r.team] + r.delta]
    BY DEF Pay
  <2>2. points[r.team] + r.delta \in Int
    BY <1>0 DEF TypeInv, Rows
  <2> QED BY <2>1, <2>2 DEF TypeInv, Rows
<1> QED BY <1>5, <1>6 DEF TypeInv, Pay, Schema, Rows, Screens, setup, screens

LEMMA TypeHearScan == ASSUME TypeInv, NEW c \in Calls, HearScan(c) PROVE TypeInv'
<1> PICK r : r = call[c]
  OBVIOUS
<1>0. r \in Call /\ Sound(r) /\ r.kind = "scan" /\ r.phone \in Phones /\ r.card \in Code /\ (r.done => r.station \in Stations)
  BY DEF TypeInv, CallsSound, HearScan, Sound
<1> DEFINE drawn == [card |-> r.card, station |-> r.station]
<1>1. r.done => drawn \in Drawn
  BY <1>0 DEF Drawn
<1>2. CallsSound'
  BY NoCallSound, PutSound DEF TypeInv, HearScan
<1>3. /\ draw' = IF r.done THEN [draw EXCEPT ![r.phone] = drawn]
                 ELSE IF r.at = "exhausted" THEN [draw EXCEPT ![r.phone] = NoDraw] ELSE draw
      /\ result' = IF r.done THEN [result EXCEPT ![r.phone] = NoDraw] ELSE result
      /\ closing' \in {closing, [closing EXCEPT ![r.phone] = FALSE]}
      /\ left' \in {left, left \cup {r.phone}} /\ session' = session
  BY DEF HearScan
<1> HIDE DEF drawn
<1>4. draw' \in [Phones -> Drawn \cup {NoDraw}]
  <2>1. CASE r.done
    BY <1>0, <1>1, <1>3, <2>1 DEF TypeInv, Screens
  <2>2. CASE ~r.done
    BY <1>0, <1>3, <2>2 DEF TypeInv, Screens
  <2> QED BY <2>1, <2>2
<1>5. result' \in [Phones -> Drawn \cup {NoDraw}]
  BY <1>0, <1>3 DEF TypeInv, Screens
<1>6. closing' \in [Phones -> BOOLEAN] /\ left' \subseteq Phones /\ session' \in [Phones -> BOOLEAN]
  BY <1>0, <1>3 DEF TypeInv, Screens
<1>7. Screens'
  BY <1>4, <1>5, <1>6 DEF Screens
<1> QED BY <1>2, <1>7 DEF TypeInv, HearScan, Schema, Rows, setup

LEMMA TypeHearAnswer == ASSUME TypeInv, NEW c \in Calls, HearAnswer(c) PROVE TypeInv'
<1> PICK r : r = call[c]
  OBVIOUS
<1>0. r \in Call /\ Sound(r) /\ r.phone \in Phones /\ r.card \in Code /\ r.station \in Stations
  BY DEF TypeInv, CallsSound, HearAnswer, Sound
<1>1. [card |-> r.card, station |-> r.station] \in Drawn
  BY <1>0 DEF Drawn
<1>2. CallsSound'
  BY NoCallSound, PutSound DEF TypeInv, HearAnswer
<1>3. result' \in {result, [result EXCEPT ![r.phone] = [card |-> r.card, station |-> r.station]]}
  BY DEF HearAnswer
<1>4. result' \in [Phones -> Drawn \cup {NoDraw}]
  BY <1>0, <1>1, <1>3 DEF TypeInv, Screens
<1> QED BY <1>2, <1>4 DEF TypeInv, HearAnswer, Schema, Rows, Screens, setup

LEMMA TypeFail == ASSUME TypeInv, NEW c \in Calls, Fail(c) PROVE TypeInv'
<1> PICK r : r = call[c]
  OBVIOUS
<1>0. r \in Call /\ Sound(r) /\ r.kind # "none"
  BY DEF TypeInv, CallsSound, Fail, Sound, Idle
<1>1. CallsSound'
  BY <1>0, RefusedSound, PutSound DEF TypeInv, Fail
<1>2. cut' = IF r.at = "pay" THEN cut \cup {r.team} ELSE cut
  BY DEF Fail
<1>3. cut' \subseteq Teams
  BY <1>0, <1>2 DEF Sound, TypeInv, Rows
<1> QED BY <1>1, <1>3 DEF TypeInv, Fail, Schema, Rows, Screens, setup, screens

LEMMA TypeGenerate == ASSUME TypeInv, NEW c \in Calls, Generate(c) PROVE TypeInv'
<1> DEFINE r == [NoCall EXCEPT !.kind = "generate", !.at = "create", !.todo = Wanted(deck) \ cards]
<1>0. Wanted(deck) \ cards \subseteq Code
  BY DEF Wanted
<1>1. r \in Call
  BY <1>0, NoCallSound DEF Call, Kinds, Stages
<1>2. Sound(r)
  BY <1>0 DEF Sound, NoCall, Stages
<1>3. CallsSound'
  <2> HIDE DEF r
  <2> QED BY <1>1, <1>2, PutSound DEF TypeInv, Generate, r
<1> QED BY <1>3 DEF TypeInv, Generate, Schema, Rows, Screens, setup, screens

LEMMA TypeCreateCard == ASSUME TypeInv, NEW c \in Calls, CreateCard(c) PROVE TypeInv'
<1> PICK r : r = call[c]
  OBVIOUS
<1>0. r \in Call /\ Sound(r) /\ r.kind = "generate" /\ r.at = "create" /\ r.todo \subseteq Code
  BY DEF TypeInv, CallsSound, CreateCard, Sound
<1>1. CASE Put(c, NoCall) /\ UNCHANGED cards
  <2>1. CallsSound'
    BY <1>1, NoCallSound, PutSound DEF TypeInv
  <2> QED BY <1>1, <2>1 DEF TypeInv, CreateCard, Schema, Rows, Screens, setup, screens
<1>2. ASSUME NEW k \in r.todo, k.cat \in categories, ~\E d \in cards : SameSticker(k, d),
             cards' = cards \cup {k}, Put(c, [r EXCEPT !.todo = @ \ {k}])
      PROVE  TypeInv'
  <2> DEFINE q == [r EXCEPT !.todo = r.todo \ {k}]
  <2>1. q \in Call
    BY <1>0 DEF Call
  <2>2. q.kind = "generate" /\ q.at = r.at /\ q.todo = r.todo \ {k}
    BY <1>0 DEF Call
  <2>3. Put(c, q)
    BY <1>2
  <2> HIDE DEF q
  <2>4. Sound(q)
    BY <1>0, <2>2 DEF Sound
  <2>5. CallsSound'
    BY <2>1, <2>3, <2>4, PutSound DEF TypeInv
  <2>6. k \in Code
    BY <1>0
  <2>7. UNCHANGED <<setup, attempts, points, screens, session, cut, raced>>
    BY DEF CreateCard
  <2>8. Schema'
    <3>1. \A a, b \in cards \cup {k} : SameSticker(a, b) => a = b
      BY <1>2 DEF SameSticker, TypeInv, Schema
    <3> QED BY <1>2, <2>6, <2>7, <3>1 DEF TypeInv, Schema, setup, SameSticker
  <2>9. Rows' /\ Screens'
    BY <1>2, <2>7 DEF TypeInv, Rows, Screens, screens
  <2> QED BY <2>5, <2>8, <2>9 DEF TypeInv
<1> QED BY <1>1, <1>2 DEF CreateCard

\* The actions of organisers and players that leave the calls alone.
LEMMA TypeRename ==
  ASSUME TypeInv, NEW k \in Categories, NEW s \in Slugs, Rename(k, s) PROVE TypeInv'
BY DEF Rename, TypeInv, CallsSound, Schema, Rows, Screens, screens, SameSticker

LEMMA TypeDeleteCategory == ASSUME TypeInv, NEW k \in Categories, DeleteCategory(k) PROVE TypeInv'
<1>1. CallsSound' /\ Screens'
  BY DEF DeleteCategory, TypeInv, CallsSound, Screens, screens
<1>2. Schema'
  <2>1. /\ slug' = slug /\ categories' = categories \ {k} /\ deck' = deck \ {k}
        /\ pools' = {x \in pools : x[1] # k} /\ cards' = {x \in cards : x.cat # k}
    BY DEF DeleteCategory
  <2>2. pools' \subseteq categories' \X Difficulties \X Stations
    BY <2>1 DEF TypeInv, Schema
  <2>3. \A a, b \in cards' : SameSticker(a, b) => a = b
    BY <2>1 DEF TypeInv, Schema
  <2> QED BY <2>1, <2>2, <2>3 DEF TypeInv, Schema, SameSticker
<1>3. Rows'
  <2>1. attempts' = [t \in Teams |-> Without(k, attempts[t])] /\ cards' = {x \in cards : x.cat # k}
    BY DEF DeleteCategory
  <2>2. ASSUME NEW t \in Teams
        PROVE  /\ attempts'[t] \in Seq(Attempt)
               /\ \A i \in DOMAIN attempts'[t] : attempts'[t][i].card \in cards'
    <3>1. attempts[t] \in Seq(Attempt) /\ \A i \in DOMAIN attempts[t] : attempts[t][i].card \in cards
      BY DEF TypeInv, Rows
    <3>2. attempts'[t] = Without(k, attempts[t])
      BY <2>1
    <3>3. /\ attempts'[t] \in Seq(Attempt)
          /\ \A i \in DOMAIN attempts'[t] :
               attempts'[t][i].card.cat # k /\ \E j \in DOMAIN attempts[t] : attempts'[t][i] = attempts[t][j]
      BY <3>1, <3>2, WithoutProperties
    <3> QED BY <2>1, <3>1, <3>3
  <2>3. attempts' \in [Teams -> Seq(Attempt)]
    <3> HIDE DEF Attempt
    <3> QED BY <2>1, <2>2
  <2>4. points' = points /\ raced' = raced /\ cut' \subseteq Teams
    BY DEF DeleteCategory, TypeInv, Rows
  <2> QED BY <2>2, <2>3, <2>4 DEF TypeInv, Rows
<1> QED BY <1>1, <1>2, <1>3 DEF TypeInv

LEMMA TypeSetDeck == ASSUME TypeInv, NEW k \in Categories, SetDeck(k) PROVE TypeInv'
BY DEF SetDeck, TypeInv, CallsSound, Schema, Rows, Screens, screens, SameSticker

LEMMA TypeSetPool == ASSUME TypeInv, NEW x \in FirstPools, SetPool(x[1], x[2], x[3]) PROVE TypeInv'
<1>1. x[1] \in categories /\ x[2] \in Difficulties /\ x[3] \in Stations
  BY RiskAssumption DEF SetPool
<1> QED BY <1>1 DEF SetPool, TypeInv, CallsSound, Schema, Rows, Screens, screens, SameSticker

LEMMA TypeOverwrite == ASSUME TypeInv, NEW ends \in BOOLEAN, Overwrite(ends) PROVE TypeInv'
BY DEF Overwrite, TypeInv, CallsSound, Schema, Rows, Screens, screens, setup, SameSticker

LEMMA TypeClose == ASSUME TypeInv, NEW p \in Phones, Close(p) PROVE TypeInv'
BY DEF Close, TypeInv, CallsSound, Schema, Rows, Screens, setup, SameSticker

LEMMA TypeCleared == ASSUME TypeInv, NEW p \in Phones, Cleared(p) PROVE TypeInv'
BY DEF Cleared, TypeInv, CallsSound, Schema, Rows, Screens, setup, SameSticker

LEMMA TypeStep == TypeInv /\ [Next]_vars => TypeInv'
<1> SUFFICES ASSUME TypeInv, [Next]_vars PROVE TypeInv'
  OBVIOUS
<1>1. ASSUME NEW c \in Calls,
             \/ FindCard(c) \/ Draw(c) \/ CheckPool(c) \/ CheckTried(c) \/ ReadStreak(c) \/ CreateAttempt(c)
             \/ Pay(c) \/ HearScan(c) \/ HearAnswer(c) \/ Fail(c) \/ Generate(c) \/ CreateCard(c)
      PROVE  TypeInv'
  BY <1>1, TypeFindCard, TypeDraw, TypeCheckPool, TypeCheckTried, TypeReadStreak, TypeCreateAttempt,
     TypePay, TypeHearScan, TypeHearAnswer, TypeFail, TypeGenerate, TypeCreateCard
<1>2. ASSUME NEW c \in Calls, NEW p \in Phones, NEW k \in Code, Scan(p, c, k)
      PROVE  TypeInv'
  BY <1>2, TypeScan
<1>3. ASSUME NEW c \in Calls, NEW p \in Phones, NEW claim \in {"right", "wrong", "bad"}, Submit(p, c, claim)
      PROVE  TypeInv'
  BY <1>3, TypeSubmit DEF Claims
<1>4. ASSUME NEW p \in Phones, Close(p) \/ Cleared(p)
      PROVE  TypeInv'
  BY <1>4, TypeClose, TypeCleared
<1>5. ASSUME NEW k \in Categories, (\E s \in Slugs : Rename(k, s)) \/ DeleteCategory(k) \/ SetDeck(k)
      PROVE  TypeInv'
  BY <1>5, TypeRename, TypeDeleteCategory, TypeSetDeck
<1>6. ASSUME NEW x \in FirstPools, SetPool(x[1], x[2], x[3])
      PROVE  TypeInv'
  BY <1>6, TypeSetPool
<1>7. ASSUME NEW ends \in BOOLEAN, Overwrite(ends)
      PROVE  TypeInv'
  BY <1>7, TypeOverwrite
<1>8. CASE UNCHANGED vars
  BY <1>8 DEF vars, setup, screens, TypeInv, CallsSound, Schema, Rows, Screens, SameSticker
<1> QED BY <1>1, <1>2, <1>3, <1>4, <1>5, <1>6, <1>7, <1>8 DEF Next

\* Every reachable state is well typed, and the keys hold: no two cards carry the same
\* sticker, the cards and pools are those of categories that exist, and every attempt is
\* one on a card that exists, whatever is deleted or generated while answers are handled.
THEOREM TypeCorrect == Spec => []TypeOK
<1> QED BY TypeInit, TypeStep, TypeInvImplies, PTL DEF Spec

-----------------------------------------------------------------------------
(* What a screen shows.                                                    *)

\* While the answer of a phone is in flight its card stays open, unless the player did
\* not wait for it; so a result that arrives is about the card that is open.
Shown(p) ==
  /\ result[p] # NoDraw /\ draw[p] # NoDraw => result[p] = draw[p]
  /\ \A c \in Of(p, "answer") : draw[p] = [card |-> call[c].card, station |-> call[c].station]
ScreenInv == \A p \in Phones \ left : Shown(p)

LEMMA ScreenInit == Init => ScreenInv
BY DEF Init, ScreenInv, Shown, Of, NoCall

\* A step that leaves the screens alone, and answers in flight as they are or out.
SameAnswer(r, q) == q.kind = "answer" => r.kind = "answer" /\ q.phone = r.phone /\ q.card = r.card /\ q.station = r.station

LEMMA RefusedSame == ASSUME NEW r \in Call PROVE SameAnswer(r, Refused(r))
BY DEF SameAnswer, Refused, NoCall, Call

LEMMA ScreenFrame ==
  ASSUME TypeInv, ScreenInv, NEW c \in Calls, NEW q, Put(c, q), SameAnswer(call[c], q),
         UNCHANGED <<draw, result, left>>
  PROVE  ScreenInv'
<1>1. call' = [call EXCEPT ![c] = q] /\ call \in [Calls -> Call]
  BY DEF Put, TypeInv, CallsSound
<1>2. ASSUME NEW p \in Phones \ left PROVE Shown(p)'
  <2>1. ASSUME NEW d \in Calls, call'[d].phone = p, call'[d].kind = "answer"
        PROVE  draw[p] = [card |-> call'[d].card, station |-> call'[d].station]
    <3>1. call[d].kind = "answer" /\ call[d].phone = p /\ call'[d].card = call[d].card /\ call'[d].station = call[d].station
      BY <1>1, <2>1 DEF SameAnswer
    <3> QED BY <3>1 DEF ScreenInv, Shown, Of
  <2> QED BY <2>1 DEF ScreenInv, Shown, Of
<1> QED BY <1>2 DEF ScreenInv

LEMMA ScreenCalls ==
  ASSUME TypeInv, ScreenInv, NEW c \in Calls,
         \/ FindCard(c) \/ Draw(c) \/ CheckPool(c) \/ CheckTried(c) \/ ReadStreak(c) \/ CreateAttempt(c)
         \/ Pay(c) \/ Fail(c) \/ Generate(c) \/ CreateCard(c)
  PROVE  ScreenInv'
<1> PICK r : r = call[c]
  OBVIOUS
<1>0. r \in Call /\ SameAnswer(r, Refused(r)) /\ SameAnswer(r, NoCall)
  <2>1. r \in Call
    BY DEF TypeInv, CallsSound
  <2>2. SameAnswer(r, NoCall)
    BY DEF SameAnswer, NoCall
  <2> QED BY <2>1, <2>2, RefusedSame
<1>1. ASSUME NEW q, Put(c, q), SameAnswer(r, q), UNCHANGED <<draw, result, left>> PROVE ScreenInv'
  BY <1>1, ScreenFrame
<1>2. CASE FindCard(c)
  <2>1. \E q : Put(c, q) /\ SameAnswer(r, q)
    <3>1. \A k, todo : [r EXCEPT !.at = "look", !.card = k, !.todo = todo].kind = "scan"
      BY <1>0, <1>2 DEF FindCard, Call
    <3>2. \/ Put(c, Refused(r))
          \/ \E k, todo : Put(c, [r EXCEPT !.at = "look", !.card = k, !.todo = todo])
      BY <1>2 DEF FindCard
    <3>3. PICK q : Put(c, q) /\ (q = Refused(r) \/ q.kind = "scan")
      BY <3>1, <3>2
    <3> QED BY <1>0, <3>3 DEF SameAnswer
  <2> QED BY <1>1, <1>2, <2>1 DEF FindCard, screens
<1>3. CASE Draw(c)
  <2>1. \E q : Put(c, q) /\ q.kind = "scan"
    <3>1. /\ [r EXCEPT !.at = "exhausted"].kind = "scan"
          /\ \A s : [r EXCEPT !.at = "answered", !.done = TRUE, !.station = s].kind = "scan"
      BY <1>0, <1>3 DEF Draw, Call
    <3>2. \/ Put(c, [r EXCEPT !.at = "exhausted"])
          \/ \E s : Put(c, [r EXCEPT !.at = "answered", !.done = TRUE, !.station = s])
      BY <1>3 DEF Draw
    <3> QED BY <3>1, <3>2
  <2> QED BY <1>1, <1>3, <2>1 DEF Draw, screens, SameAnswer
<1>4. CASE CheckPool(c)
  <2>1. SameAnswer(r, [r EXCEPT !.at = "look"])
    BY <1>0 DEF SameAnswer, Call
  <2>2. Put(c, [r EXCEPT !.at = "look"]) \/ Put(c, Refused(r))
    BY <1>4 DEF CheckPool
  <2> QED BY <1>0, <1>1, <1>4, <2>1, <2>2 DEF CheckPool, screens
<1>5. CASE CheckTried(c)
  <2>1. SameAnswer(r, [r EXCEPT !.at = "streak"])
    BY <1>0 DEF SameAnswer, Call
  <2>2. Put(c, [r EXCEPT !.at = "streak"]) \/ Put(c, Refused(r))
    BY <1>5 DEF CheckTried
  <2> QED BY <1>0, <1>1, <1>5, <2>1, <2>2 DEF CheckTried, screens
<1>6. CASE ReadStreak(c)
  <2>1. PICK n, w : Put(c, [r EXCEPT !.at = "create", !.streak = n, !.delta = w])
    BY <1>6 DEF ReadStreak
  <2>2. SameAnswer(r, [r EXCEPT !.at = "create", !.streak = n, !.delta = w])
    BY <1>0 DEF SameAnswer, Call
  <2> QED BY <1>1, <1>6, <2>1, <2>2 DEF ReadStreak, screens
<1>7. CASE CreateAttempt(c)
  <2>1. SameAnswer(r, [r EXCEPT !.at = "pay"])
    BY <1>0 DEF SameAnswer, Call
  <2>2. Put(c, [r EXCEPT !.at = "pay"]) \/ Put(c, Refused(r))
    BY <1>7 DEF CreateAttempt
  <2> QED BY <1>0, <1>1, <1>7, <2>1, <2>2 DEF CreateAttempt, screens
<1>8. CASE Pay(c)
  <2>1. SameAnswer(r, [r EXCEPT !.at = "answered", !.done = TRUE])
    BY <1>0 DEF SameAnswer, Call
  <2>2. Put(c, [r EXCEPT !.at = "answered", !.done = TRUE])
    BY <1>8 DEF Pay
  <2> QED BY <1>1, <1>8, <2>1, <2>2 DEF Pay, screens
<1>9. CASE Fail(c)
  BY <1>0, <1>1, <1>9 DEF Fail, screens
<1>10. CASE Generate(c)
  <2> DEFINE q == [NoCall EXCEPT !.kind = "generate", !.at = "create", !.todo = Wanted(deck) \ cards]
  <2>1. q.kind = "generate" /\ Put(c, q)
    BY <1>10 DEF Generate, NoCall
  <2> HIDE DEF q
  <2> QED BY <1>1, <1>10, <2>1 DEF Generate, screens, SameAnswer
<1>11. CASE CreateCard(c)
  <2>1. PICK q : Put(c, q) /\ (q = NoCall \/ q.kind = "generate")
    <3>1. \A k : [r EXCEPT !.todo = r.todo \ {k}].kind = "generate"
      BY <1>0, <1>11 DEF CreateCard, Call
    <3> QED BY <1>11, <3>1 DEF CreateCard
  <2> QED BY <1>0, <1>1, <1>11, <2>1 DEF CreateCard, screens, SameAnswer
<1> QED BY <1>2, <1>3, <1>4, <1>5, <1>6, <1>7, <1>8, <1>9, <1>10, <1>11

LEMMA ScreenScan ==
  ASSUME TypeInv, ScreenInv, NEW c \in Calls, NEW p \in Phones, NEW k \in Code, Scan(p, c, k)
  PROVE  ScreenInv'
<1> DEFINE q == [NoCall EXCEPT !.kind = "scan", !.at = "sent", !.team = TeamOf[p], !.phone = p, !.card = k]
<1>1. q.kind = "scan" /\ Put(c, q)
  BY DEF Scan, NoCall
<1> HIDE DEF q
<1> QED BY <1>1, ScreenFrame DEF Scan, screens, SameAnswer

LEMMA ScreenSubmit ==
  ASSUME TypeInv, ScreenInv, NEW c \in Calls, NEW p \in Phones, NEW claim \in Claims, Submit(p, c, claim)
  PROVE  ScreenInv'
<1> DEFINE q == [NoCall EXCEPT !.kind = "answer", !.at = "sent", !.team = TeamOf[p], !.phone = p,
                               !.card = draw[p].card, !.station = draw[p].station, !.claim = claim]
<1>1. q.phone = p /\ q.card = draw[p].card /\ q.station = draw[p].station /\ Put(c, q)
  BY DEF Submit, NoCall
<1> HIDE DEF q
<1>2. call' = [call EXCEPT ![c] = q] /\ call \in [Calls -> Call]
  BY <1>1 DEF Put, TypeInv, CallsSound
<1>3. draw[p] = [card |-> draw[p].card, station |-> draw[p].station] /\ result[p] = NoDraw
  BY DEF TypeInv, Screens, Submit, Drawn
<1>4. UNCHANGED <<draw, result, left>>
  BY DEF Submit, screens
<1>5. ASSUME NEW u \in Phones \ left PROVE Shown(u)'
  <2>1. ASSUME NEW d \in Calls, call'[d].phone = u, call'[d].kind = "answer"
        PROVE  draw[u] = [card |-> call'[d].card, station |-> call'[d].station]
    <3>1. CASE d = c
      BY <1>1, <1>2, <1>3, <2>1, <3>1
    <3>2. CASE d # c
      BY <1>2, <2>1, <3>2 DEF ScreenInv, Shown, Of
    <3> QED BY <3>1, <3>2
  <2> QED BY <1>4, <2>1 DEF ScreenInv, Shown, Of
<1> QED BY <1>4, <1>5 DEF ScreenInv

LEMMA ScreenHearScan == ASSUME TypeInv, ScreenInv, NEW c \in Calls, HearScan(c) PROVE ScreenInv'
<1> PICK r : r = call[c]
  OBVIOUS
<1> PICK p : p = r.phone
  OBVIOUS
<1>0. p \in Phones /\ r.kind = "scan"
  BY DEF TypeInv, CallsSound, HearScan, Sound
<1>1. /\ call' = [call EXCEPT ![c] = NoCall] /\ call \in [Calls -> Call]
      /\ \A u \in Phones : u # p => draw'[u] = draw[u] /\ result'[u] = result[u]
      /\ left' = IF Of(p, "answer") # {} THEN left \cup {p} ELSE left
      /\ result'[p] = NoDraw \/ draw'[p] = NoDraw \/ (result'[p] = result[p] /\ draw'[p] = draw[p])
  BY <1>0 DEF HearScan, Put, TypeInv, CallsSound, Screens
<1>2. ASSUME NEW u \in Phones \ left' PROVE Shown(u)'
  <2>1. u \in Phones \ left
    BY <1>1, <1>2
  <2>2. \A d \in Calls : call'[d].kind = "answer" => call'[d] = call[d]
    BY <1>1 DEF NoCall
  <2>3. CASE u = p
    <3>1. Of(p, "answer") = {}
      BY <1>1, <1>2, <2>3
    <3>2. Of(p, "answer")' = {}
      BY <2>2, <3>1 DEF Of
    <3> QED BY <1>1, <2>1, <2>3, <3>2 DEF ScreenInv, Shown
  <2>4. CASE u # p
    <3>1. draw'[u] = draw[u] /\ result'[u] = result[u]
      BY <1>1, <2>4
    <3> QED BY <2>1, <2>2, <3>1 DEF ScreenInv, Shown, Of
  <2> QED BY <2>3, <2>4
<1> QED BY <1>2 DEF ScreenInv

LEMMA ScreenHearAnswer == ASSUME TypeInv, ScreenInv, NEW c \in Calls, HearAnswer(c) PROVE ScreenInv'
<1> PICK r : r = call[c]
  OBVIOUS
<1> PICK p : p = r.phone
  OBVIOUS
<1>0. p \in Phones /\ r.kind = "answer"
  BY DEF TypeInv, CallsSound, HearAnswer, Sound
<1>1. /\ call' = [call EXCEPT ![c] = NoCall] /\ call \in [Calls -> Call]
      /\ draw' = draw /\ left' = left /\ \A u \in Phones : u # p => result'[u] = result[u]
      /\ result'[p] = result[p] \/ result'[p] = [card |-> r.card, station |-> r.station]
  BY <1>0 DEF HearAnswer, Put, TypeInv, CallsSound, Screens
<1>2. ASSUME NEW u \in Phones \ left PROVE Shown(u)'
  <2>1. \A d \in Calls : call'[d].kind = "answer" => call'[d] = call[d]
    BY <1>1 DEF NoCall
  <2>2. u = p => draw[p] = [card |-> r.card, station |-> r.station]
    BY <1>0 DEF ScreenInv, Shown, Of
  <2>3. result'[u] # NoDraw /\ draw'[u] # NoDraw => result'[u] = draw'[u]
    BY <1>1, <2>2 DEF ScreenInv, Shown
  <2> QED BY <1>1, <2>1, <2>3 DEF ScreenInv, Shown, Of
<1> QED BY <1>1, <1>2 DEF ScreenInv

LEMMA ScreenCleared == ASSUME TypeInv, ScreenInv, NEW p \in Phones, Cleared(p) PROVE ScreenInv'
<1>1. /\ draw' = [draw EXCEPT ![p] = NoDraw] /\ result' = [result EXCEPT ![p] = NoDraw] /\ call' = call
      /\ left' = IF Of(p, "answer") # {} THEN left \cup {p} ELSE left
  BY DEF Cleared
<1>2. ASSUME NEW u \in Phones \ left' PROVE Shown(u)'
  <2>1. u \in Phones \ left
    BY <1>1, <1>2
  <2>2. CASE u = p
    <3>1. Of(p, "answer") = {}
      BY <1>1, <1>2, <2>2
    <3> QED BY <1>1, <2>2, <3>1 DEF Shown, Of, TypeInv, Screens
  <2>3. CASE u # p
    <3>1. draw'[u] = draw[u] /\ result'[u] = result[u]
      BY <1>1, <2>3 DEF TypeInv, Screens
    <3> QED BY <1>1, <2>1, <3>1 DEF ScreenInv, Shown, Of
  <2> QED BY <2>2, <2>3
<1> QED BY <1>2 DEF ScreenInv

LEMMA ScreenQuiet ==
  ASSUME ScreenInv, UNCHANGED <<draw, result, left, call>>
  PROVE  ScreenInv'
BY DEF ScreenInv, Shown, Of

LEMMA ScreenStep == TypeInv /\ ScreenInv /\ [Next]_vars => ScreenInv'
<1> SUFFICES ASSUME TypeInv, ScreenInv, [Next]_vars PROVE ScreenInv'
  OBVIOUS
<1>1. ASSUME NEW c \in Calls,
             \/ FindCard(c) \/ Draw(c) \/ CheckPool(c) \/ CheckTried(c) \/ ReadStreak(c) \/ CreateAttempt(c)
             \/ Pay(c) \/ HearScan(c) \/ HearAnswer(c) \/ Fail(c) \/ Generate(c) \/ CreateCard(c)
      PROVE  ScreenInv'
  BY <1>1, ScreenCalls, ScreenHearScan, ScreenHearAnswer
<1>2. ASSUME NEW c \in Calls, NEW p \in Phones, NEW k \in Code, Scan(p, c, k)
      PROVE  ScreenInv'
  BY <1>2, ScreenScan
<1>3. ASSUME NEW c \in Calls, NEW p \in Phones, NEW claim \in {"right", "wrong", "bad"}, Submit(p, c, claim)
      PROVE  ScreenInv'
  BY <1>3, ScreenSubmit DEF Claims
<1>4. ASSUME NEW p \in Phones, Close(p) \/ Cleared(p)
      PROVE  ScreenInv'
  <2>1. CASE Close(p)
    BY <2>1, ScreenQuiet DEF Close
  <2> QED BY <1>4, <2>1, ScreenCleared
<1>5. ASSUME NEW k \in Categories, (\E s \in Slugs : Rename(k, s)) \/ DeleteCategory(k) \/ SetDeck(k)
      PROVE  ScreenInv'
  BY <1>5, ScreenQuiet DEF Rename, DeleteCategory, SetDeck, screens
<1>6. ASSUME NEW x \in FirstPools, SetPool(x[1], x[2], x[3])
      PROVE  ScreenInv'
  BY <1>6, ScreenQuiet DEF SetPool, screens
<1>7. ASSUME NEW ends \in BOOLEAN, Overwrite(ends)
      PROVE  ScreenInv'
  BY <1>7, ScreenQuiet DEF Overwrite, screens
<1>8. CASE UNCHANGED vars
  BY <1>8, ScreenQuiet DEF vars, screens
<1> QED BY <1>1, <1>2, <1>3, <1>4, <1>5, <1>6, <1>7, <1>8 DEF Next

\* A result is shown on the card it is about: the screen puts it on whatever card is open,
\* but a card whose answer is in flight can only be replaced by a player who does not wait.
THEOREM ResultFits == Spec => []ResultOfThisCard
<1>1. ScreenInv => ResultOfThisCard
  BY DEF ScreenInv, Shown, ResultOfThisCard
<1> QED BY <1>1, TypeInit, TypeStep, ScreenInit, ScreenStep, PTL DEF Spec

-----------------------------------------------------------------------------
(* What the attempts of a team are worth.                                  *)

\* Of a team that answers one card at a time: the handler that read the streak, and the
\* stations tried, still finds them so when it stores the attempt.
Busy(r, t) == r.team = t /\ r.kind = "answer" /\ r.at \in Stages \ {"sent", "answered"}
Ready(r, s) ==
  /\ r.at \in {"streak", "create"} => \A i \in DOMAIN s : s[i].station # r.station
  /\ r.at = "create" => r.delta = Worth(r.claim = "right", r.card.diff, s)
Story(s) ==
  \A i \in DOMAIN s :
    /\ s[i].delta = Worth(s[i].ok, s[i].card.diff, SubSeq(s, 1, i - 1))
    /\ \A j \in 1..(i - 1) : s[j].station # s[i].station
StreakOf(t) ==
  /\ \A c, d \in Calls : Busy(call[c], t) /\ Busy(call[d], t) => c = d
  /\ \A c \in Calls : Busy(call[c], t) => Ready(call[c], attempts[t])
  /\ Story(attempts[t])
StreakInv == \A t \in Teams \ (raced \cup cut) : StreakOf(t)

LEMMA StreakInit == Init => StreakInv
BY DEF Init, StreakInv, StreakOf, Story, Busy, NoCall

\* A step of one call by which a team with unchanged attempts gets no second answer.
LEMMA StreakFrame ==
  ASSUME TypeInv, StreakInv, NEW c \in Calls, NEW q, Put(c, q), NEW t \in Teams \ (raced \cup cut),
         attempts'[t] = attempts[t],
         Busy(q, t) => /\ Busy(call[c], t) \/ \A d \in Calls : ~Busy(call[d], t)
                       /\ Ready(q, attempts[t])
  PROVE  StreakOf(t)'
<1>1. call' = [call EXCEPT ![c] = q] /\ call \in [Calls -> Call]
  BY DEF Put, TypeInv, CallsSound
<1>2. call'[c] = q /\ \A d \in Calls : d # c => call'[d] = call[d]
  BY <1>1
<1>3. StreakOf(t)
  BY DEF StreakInv
<1>4. \A d, e \in Calls : Busy(call'[d], t) /\ Busy(call'[e], t) => d = e
  BY <1>2, <1>3 DEF StreakOf
<1>5. \A d \in Calls : Busy(call'[d], t) => Ready(call'[d], attempts'[t])
  BY <1>2, <1>3 DEF StreakOf
<1>6. Story(attempts'[t])
  BY <1>3 DEF StreakOf
<1> QED BY <1>4, <1>5, <1>6 DEF StreakOf, Busy, Ready, Story, Worth

LEMMA StreakIdle ==
  ASSUME TypeInv, StreakInv, NEW c \in Calls, NEW q, Put(c, q), \A t : ~Busy(q, t),
         attempts' = attempts, raced' = raced, cut \subseteq cut'
  PROVE  StreakInv'
<1>1. ASSUME NEW t \in Teams \ (raced' \cup cut') PROVE StreakOf(t)'
  BY <1>1, StreakFrame
<1> QED BY <1>1 DEF StreakInv

LEMMA RefusedIdle == ASSUME NEW r \in Call, NEW t PROVE ~Busy(Refused(r), t)
BY DEF Busy, Refused, NoCall, Call

LEMMA StreakCheckPool == ASSUME TypeInv, StreakInv, NEW c \in Calls, CheckPool(c) PROVE StreakInv'
<1> PICK r : r = call[c]
  OBVIOUS
<1>0. r \in Call /\ r.kind = "answer"
  BY DEF TypeInv, CallsSound, CheckPool
<1> DEFINE q == [r EXCEPT !.at = "look"]
           good == session[r.phone] /\ r.card \in cards /\ <<r.card.cat, r.card.diff, r.station>> \in pools
<1>1. /\ Put(c, IF good THEN q ELSE Refused(r)) /\ attempts' = attempts /\ cut' = cut
      /\ raced' = IF good /\ Answering(r.team) # {} THEN raced \cup {r.team} ELSE raced
  BY DEF CheckPool
<1>2. q.team = r.team /\ q.kind = "answer" /\ q.at = "look"
  BY <1>0 DEF Call
<1> HIDE DEF q, good
<1>3. CASE ~good
  BY <1>0, <1>1, <1>3, RefusedIdle, StreakIdle
<1>4. CASE good
  <2>1. ASSUME NEW t \in Teams \ (raced' \cup cut') PROVE StreakOf(t)'
    <3>1. t \in Teams \ (raced \cup cut)
      BY <1>1, <2>1
    <3>2. Busy(q, t) => \A d \in Calls : ~Busy(call[d], t)
      BY <1>1, <1>2, <1>4, <2>1 DEF Busy, Answering
    <3>3. Ready(q, attempts[t])
      BY <1>2 DEF Ready
    <3> QED BY <1>1, <1>4, <3>1, <3>2, <3>3, StreakFrame
  <2> QED BY <2>1 DEF StreakInv
<1> QED BY <1>3, <1>4

LEMMA StreakCheckTried == ASSUME TypeInv, StreakInv, NEW c \in Calls, CheckTried(c) PROVE StreakInv'
<1> PICK r : r = call[c]
  OBVIOUS
<1>0. r \in Call /\ r.kind = "answer" /\ r.at = "look"
  BY DEF TypeInv, CallsSound, CheckTried
<1> DEFINE q == [r EXCEPT !.at = "streak"]
<1>1. /\ (Put(c, q) /\ r.station \notin Tried(r.team)) \/ Put(c, Refused(r))
      /\ attempts' = attempts /\ cut' = cut /\ raced' = raced
  BY DEF CheckTried
<1>2. q.team = r.team /\ q.kind = "answer" /\ q.at = "streak" /\ q.station = r.station
  BY <1>0 DEF Call
<1> HIDE DEF q
<1>3. CASE Put(c, Refused(r))
  BY <1>0, <1>1, <1>3, RefusedIdle, StreakIdle
<1>4. CASE Put(c, q) /\ r.station \notin Tried(r.team)
  <2>1. ASSUME NEW t \in Teams \ (raced \cup cut) PROVE StreakOf(t)'
    <3>1. Busy(q, t) => Busy(call[c], t)
      BY <1>0, <1>2 DEF Busy, Stages
    <3>2. Busy(q, t) => Ready(q, attempts[t])
      BY <1>2, <1>4 DEF Ready, Busy, Tried
    <3> QED BY <1>1, <1>4, <3>1, <3>2, StreakFrame
  <2> QED BY <1>1, <2>1 DEF StreakInv
<1> QED BY <1>1, <1>3, <1>4

LEMMA StreakReadStreak == ASSUME TypeInv, StreakInv, NEW c \in Calls, ReadStreak(c) PROVE StreakInv'
<1> PICK r : r = call[c]
  OBVIOUS
<1>0. r \in Call /\ r.kind = "answer" /\ r.at = "streak"
  BY DEF TypeInv, CallsSound, ReadStreak
<1>1. PICK n, w : /\ Put(c, [r EXCEPT !.at = "create", !.streak = n, !.delta = w])
                  /\ w = Worth(r.claim = "right", r.card.diff, attempts[r.team])
  BY DEF ReadStreak, Worth
<1> DEFINE q == [r EXCEPT !.at = "create", !.streak = n, !.delta = w]
<1>2. /\ q.team = r.team /\ q.kind = "answer" /\ q.at = "create" /\ q.station = r.station /\ q.delta = w
      /\ q.claim = r.claim /\ q.card = r.card
  BY <1>0 DEF Call
<1>3. Put(c, q) /\ attempts' = attempts /\ cut' = cut /\ raced' = raced
  BY <1>1 DEF ReadStreak
<1> HIDE DEF q
<1>4. ASSUME NEW t \in Teams \ (raced \cup cut) PROVE StreakOf(t)'
  <2>1. Busy(q, t) => Busy(call[c], t)
    BY <1>0, <1>2 DEF Busy, Stages
  <2>2. Busy(call[c], t) => Ready(call[c], attempts[t])
    BY DEF StreakInv, StreakOf
  <2>3. Busy(q, t) => Ready(q, attempts[t])
    BY <1>0, <1>1, <1>2, <2>1, <2>2 DEF Ready, Busy
  <2> QED BY <1>3, <2>1, <2>3, StreakFrame
<1> QED BY <1>3, <1>4 DEF StreakInv

\* The story of one more attempt, worth what the ones before it make it worth.
LEMMA StoryMore ==
  ASSUME NEW s \in Seq(Attempt), Story(s), NEW row \in Attempt,
         row.delta = Worth(row.ok, row.card.diff, s), \A i \in DOMAIN s : s[i].station # row.station
  PROVE  Story(Append(s, row))
<1> DEFINE z == Append(s, row)
<1>1. /\ Len(s) \in Nat /\ z \in Seq(Attempt) /\ Len(z) = Len(s) + 1 /\ z[Len(s) + 1] = row
      /\ \A i \in 1..Len(s) : z[i] = s[i]
  OBVIOUS
<1>2. ASSUME NEW i \in DOMAIN z
      PROVE  /\ z[i].delta = Worth(z[i].ok, z[i].card.diff, SubSeq(z, 1, i - 1))
             /\ \A j \in 1..(i - 1) : z[j].station # z[i].station
  <2>1. CASE i \in DOMAIN s
    <3>1. SubSeq(z, 1, i - 1) = SubSeq(s, 1, i - 1)
      BY <1>1, <2>1
    <3>2. z[i] = s[i] /\ \A j \in 1..(i - 1) : z[j] = s[j]
      BY <1>1, <2>1
    <3> HIDE DEF z
    <3> QED BY <2>1, <3>1, <3>2 DEF Story
  <2>2. CASE i = Len(s) + 1
    <3>1. SubSeq(z, 1, i - 1) = s
      BY <1>1, <2>2
    <3>2. z[i] = row /\ i - 1 = Len(s) /\ \A j \in 1..(i - 1) : z[j] = s[j] /\ j \in DOMAIN s
      BY <1>1, <2>2
    <3> HIDE DEF z
    <3> QED BY <3>1, <3>2
  <2> QED BY <1>1, <2>1, <2>2
<1> HIDE DEF z
<1>3. Story(z)
  BY <1>2 DEF Story
<1> QED BY <1>3 DEF z

LEMMA StreakCreateAttempt == ASSUME TypeInv, StreakInv, NEW c \in Calls, CreateAttempt(c) PROVE StreakInv'
<1> PICK r : r = call[c]
  OBVIOUS
<1>0. r \in Call /\ Sound(r) /\ r.kind = "answer" /\ r.at = "create" /\ r.team \in Teams
  BY DEF TypeInv, CallsSound, CreateAttempt, Sound
<1> DEFINE row == [card |-> r.card, station |-> r.station, ok |-> r.claim = "right", delta |-> r.delta]
           q == [r EXCEPT !.at = "pay"]
<1>1. /\ \/ Put(c, q) /\ attempts' = [attempts EXCEPT ![r.team] = Append(@, row)]
         \/ Put(c, Refused(r)) /\ attempts' = attempts
      /\ raced' = raced /\ cut' = cut
  BY DEF CreateAttempt
<1>2. q.team = r.team /\ q.kind = "answer" /\ q.at = "pay"
  BY <1>0 DEF Call
<1>3. row \in Attempt /\ row.station = r.station /\ row.ok = (r.claim = "right") /\ row.delta = r.delta /\ row.card = r.card
  BY <1>0 DEF Sound, Attempt, Call
<1> HIDE DEF q, row
<1>4. CASE Put(c, Refused(r)) /\ attempts' = attempts
  BY <1>0, <1>1, <1>4, RefusedIdle, StreakIdle
<1>5. CASE Put(c, q) /\ attempts' = [attempts EXCEPT ![r.team] = Append(@, row)]
  <2>1. ASSUME NEW t \in Teams \ (raced \cup cut) PROVE StreakOf(t)'
    <3>1. CASE t # r.team
      <4>1. attempts'[t] = attempts[t] /\ ~Busy(q, t)
        BY <1>2, <1>5, <3>1 DEF TypeInv, Rows, Busy
      <4> QED BY <1>5, <4>1, StreakFrame
    <3>2. CASE t = r.team
      <4>1. StreakOf(t) /\ Busy(call[c], t)
        BY <1>0, <3>2 DEF StreakInv, Busy, Stages
      <4>2. attempts[t] \in Seq(Attempt) /\ attempts'[t] = Append(attempts[t], row)
        BY <1>0, <1>5, <3>2 DEF TypeInv, Rows
      <4>3. Ready(r, attempts[t]) /\ Story(attempts[t])
        BY <4>1 DEF StreakOf
      <4>4. Story(attempts'[t])
        BY <1>0, <1>3, <4>2, <4>3, StoryMore DEF Ready
      <4>5. call' = [call EXCEPT ![c] = q] /\ call \in [Calls -> Call]
        BY <1>5 DEF Put, TypeInv, CallsSound
      <4>6. \A d \in Calls : Busy(call'[d], t) => d = c /\ call'[d].at = "pay"
        BY <1>2, <4>1, <4>5 DEF StreakOf
      <4>7. \A d \in Calls : Busy(call'[d], t) => Ready(call'[d], attempts'[t])
        BY <4>6 DEF Ready
      <4> QED BY <4>4, <4>6, <4>7 DEF StreakOf, Busy, Ready, Story, Worth
    <3> QED BY <3>1, <3>2
  <2> QED BY <1>1, <2>1 DEF StreakInv
<1> QED BY <1>1, <1>4, <1>5

LEMMA StreakPay == ASSUME TypeInv, StreakInv, NEW c \in Calls, Pay(c) PROVE StreakInv'
<1> PICK r : r = call[c]
  OBVIOUS
<1>0. r \in Call
  BY DEF TypeInv, CallsSound
<1>1. Put(c, [r EXCEPT !.at = "answered", !.done = TRUE]) /\ UNCHANGED <<attempts, raced, cut>>
  BY DEF Pay
<1>2. \A t : ~Busy([r EXCEPT !.at = "answered", !.done = TRUE], t)
  BY <1>0 DEF Busy, Call
<1> QED BY <1>1, <1>2, StreakIdle

\* The steps of other calls, and of answers before and after their handler.
LEMMA StreakOthers ==
  ASSUME TypeInv, StreakInv, NEW c \in Calls,
         FindCard(c) \/ Draw(c) \/ HearScan(c) \/ HearAnswer(c) \/ Fail(c) \/ Generate(c) \/ CreateCard(c)
  PROVE  StreakInv'
<1> PICK r : r = call[c]
  OBVIOUS
<1>0. r \in Call /\ (\A t : ~Busy(Refused(r), t)) /\ (\A t : ~Busy(NoCall, t))
  <2>1. r \in Call
    BY DEF TypeInv, CallsSound
  <2>2. \A t : ~Busy(NoCall, t)
    BY DEF Busy, NoCall
  <2> QED BY <2>1, <2>2, RefusedIdle
<1>1. ASSUME NEW q, Put(c, q), \A t : ~Busy(q, t), UNCHANGED <<attempts, raced>>, cut \subseteq cut' PROVE StreakInv'
  BY <1>1, StreakIdle
<1>2. CASE FindCard(c)
  <2>1. \A k, todo : [r EXCEPT !.at = "look", !.card = k, !.todo = todo].kind = "scan"
    BY <1>0, <1>2 DEF FindCard, Call
  <2>2. \/ Put(c, Refused(r))
        \/ \E k, todo : Put(c, [r EXCEPT !.at = "look", !.card = k, !.todo = todo])
    BY <1>2 DEF FindCard
  <2>3. \E q : Put(c, q) /\ \A t : ~Busy(q, t)
    BY <1>0, <2>1, <2>2 DEF Busy
  <2> QED BY <1>1, <1>2, <2>3 DEF FindCard
<1>3. CASE Draw(c)
  <2>1. /\ [r EXCEPT !.at = "exhausted"].kind = "scan"
        /\ \A s : [r EXCEPT !.at = "answered", !.done = TRUE, !.station = s].kind = "scan"
    BY <1>0, <1>3 DEF Draw, Call
  <2>2. \/ Put(c, [r EXCEPT !.at = "exhausted"])
        \/ \E s : Put(c, [r EXCEPT !.at = "answered", !.done = TRUE, !.station = s])
    BY <1>3 DEF Draw
  <2>3. \E q : Put(c, q) /\ \A t : ~Busy(q, t)
    BY <2>1, <2>2 DEF Busy
  <2> QED BY <1>1, <1>3, <2>3 DEF Draw
<1>4. CASE HearScan(c)
  BY <1>0, <1>1, <1>4 DEF HearScan
<1>5. CASE HearAnswer(c)
  BY <1>0, <1>1, <1>5 DEF HearAnswer
<1>6. CASE Fail(c)
  BY <1>0, <1>1, <1>6 DEF Fail
<1>7. CASE Generate(c)
  <2> DEFINE q == [NoCall EXCEPT !.kind = "generate", !.at = "create", !.todo = Wanted(deck) \ cards]
  <2>1. q.kind = "generate" /\ Put(c, q)
    BY <1>7 DEF Generate, NoCall
  <2> HIDE DEF q
  <2> QED BY <1>1, <1>7, <2>1 DEF Generate, Busy
<1>8. CASE CreateCard(c)
  <2>1. PICK q : Put(c, q) /\ (q = NoCall \/ q.kind = "generate")
    <3>1. \A k : [r EXCEPT !.todo = r.todo \ {k}].kind = "generate"
      BY <1>0, <1>8 DEF CreateCard, Call
    <3> QED BY <1>8, <3>1 DEF CreateCard
  <2>2. \A t : ~Busy(q, t)
    BY <1>0, <2>1 DEF Busy
  <2> QED BY <1>1, <1>8, <2>1, <2>2 DEF CreateCard
<1> QED BY <1>2, <1>3, <1>4, <1>5, <1>6, <1>7, <1>8

LEMMA StreakScan ==
  ASSUME TypeInv, StreakInv, NEW c \in Calls, NEW p \in Phones, NEW k \in Code, Scan(p, c, k)
  PROVE  StreakInv'
<1> DEFINE q == [NoCall EXCEPT !.kind = "scan", !.at = "sent", !.team = TeamOf[p], !.phone = p, !.card = k]
<1>1. q.kind = "scan" /\ Put(c, q)
  BY DEF Scan, NoCall
<1> HIDE DEF q
<1> QED BY <1>1, StreakIdle DEF Scan, Busy

LEMMA StreakSubmit ==
  ASSUME TypeInv, StreakInv, NEW c \in Calls, NEW p \in Phones, NEW claim \in Claims, Submit(p, c, claim)
  PROVE  StreakInv'
<1> DEFINE q == [NoCall EXCEPT !.kind = "answer", !.at = "sent", !.team = TeamOf[p], !.phone = p,
                               !.card = draw[p].card, !.station = draw[p].station, !.claim = claim]
<1>1. q.at = "sent" /\ Put(c, q)
  BY DEF Submit, NoCall
<1> HIDE DEF q
<1> QED BY <1>1, StreakIdle DEF Submit, Busy

LEMMA StreakQuiet ==
  ASSUME StreakInv, raced \subseteq raced', cut \subseteq cut', call' = call,
         \A t \in Teams \ cut' : attempts'[t] = attempts[t]
  PROVE  StreakInv'
<1>1. ASSUME NEW t \in Teams \ (raced' \cup cut') PROVE StreakOf(t)'
  BY <1>1 DEF StreakInv, StreakOf, Busy, Ready, Story, Worth
<1> QED BY <1>1 DEF StreakInv

\* A team none of whose attempts is of the category keeps them as they are.
LEMMA DeletedOnly ==
  ASSUME TypeInv, NEW k \in Categories, DeleteCategory(k), NEW t \in Teams \ cut'
  PROVE  attempts'[t] = attempts[t] /\ t \notin cut
<1>1. attempts[t] \in Seq(Attempt)
  BY DEF TypeInv, Rows
<1>2. t \notin cut /\ \A i \in DOMAIN attempts[t] : attempts[t][i].card.cat # k
  BY DEF DeleteCategory
<1>3. Without(k, attempts[t]) = attempts[t]
  BY <1>1, <1>2, WithoutProperties
<1> QED BY <1>2, <1>3 DEF DeleteCategory

LEMMA StreakStep == TypeInv /\ StreakInv /\ [Next]_vars => StreakInv'
<1> SUFFICES ASSUME TypeInv, StreakInv, [Next]_vars PROVE StreakInv'
  OBVIOUS
<1>1. ASSUME NEW c \in Calls,
             \/ FindCard(c) \/ Draw(c) \/ CheckPool(c) \/ CheckTried(c) \/ ReadStreak(c) \/ CreateAttempt(c)
             \/ Pay(c) \/ HearScan(c) \/ HearAnswer(c) \/ Fail(c) \/ Generate(c) \/ CreateCard(c)
      PROVE  StreakInv'
  BY <1>1, StreakCheckPool, StreakCheckTried, StreakReadStreak, StreakCreateAttempt, StreakPay, StreakOthers
<1>2. ASSUME NEW c \in Calls, NEW p \in Phones, NEW k \in Code, Scan(p, c, k)
      PROVE  StreakInv'
  BY <1>2, StreakScan
<1>3. ASSUME NEW c \in Calls, NEW p \in Phones, NEW claim \in {"right", "wrong", "bad"}, Submit(p, c, claim)
      PROVE  StreakInv'
  BY <1>3, StreakSubmit DEF Claims
<1>4. ASSUME NEW p \in Phones, Close(p) \/ Cleared(p)
      PROVE  StreakInv'
  BY <1>4, StreakQuiet DEF Close, Cleared
<1>5. ASSUME NEW k \in Categories, (\E s \in Slugs : Rename(k, s)) \/ SetDeck(k)
      PROVE  StreakInv'
  BY <1>5, StreakQuiet DEF Rename, SetDeck
<1>6. ASSUME NEW k \in Categories, DeleteCategory(k)
      PROVE  StreakInv'
  <2>1. \A t \in Teams \ cut' : attempts'[t] = attempts[t]
    BY <1>6, DeletedOnly
  <2>2. raced' = raced /\ cut \subseteq cut' /\ call' = call
    BY <1>6 DEF DeleteCategory
  <2> QED BY <2>1, <2>2, StreakQuiet
<1>7. ASSUME NEW x \in FirstPools, SetPool(x[1], x[2], x[3])
      PROVE  StreakInv'
  BY <1>7, StreakQuiet DEF SetPool
<1>8. ASSUME NEW ends \in BOOLEAN, Overwrite(ends)
      PROVE  StreakInv'
  BY <1>8, StreakQuiet DEF Overwrite, TypeInv, Rows
<1>9. CASE UNCHANGED vars
  BY <1>9, StreakQuiet DEF vars
<1> QED BY <1>1, <1>2, <1>3, <1>4, <1>5, <1>6, <1>7, <1>8, <1>9 DEF Next

\* Every attempt earned what the run of correct ones before it makes it worth, and no
\* station was tried twice: submitAnswer checks, reads the streak and stores in separate
\* statements, and between them only answers of the same team could disturb it.
THEOREM StreaksCorrect == Spec => []StreaksArePaid
<1>1. StreakInv => StreaksArePaid
  BY DEF StreakInv, StreakOf, Story, Worth, StreaksArePaid
<1> QED BY <1>1, TypeInit, TypeStep, StreakInit, StreakStep, PTL DEF Spec

-----------------------------------------------------------------------------
(* The points of a team.                                                   *)

Owes(r, t) == IF r.team = t /\ r.at = "pay" THEN r.delta ELSE 0
PointsInv == PointsAreAttempts

LEMMA DueIs == \A t : Due(t) = Total([c \in Calls |-> Owes(call[c], t)])
BY DEF Due, Owes

LEMMA OwesIsInt == ASSUME NEW r \in Call, NEW t PROVE Owes(r, t) \in Int
BY DEF Owes, Call

LEMMA PointsInit == Init => PointsInv
<1> SUFFICES ASSUME Init, NEW t \in Teams PROVE points[t] + Due(t) = Earned(t)
  BY DEF PointsInv, PointsAreAttempts
<1> DEFINE q == [c \in Calls |-> Owes(call[c], t)]
           e == [i \in DOMAIN attempts[t] |-> attempts[t][i].delta]
<1>1. MaxCalls \in Nat
  BY RiskAssumption
<1>2. q \in Seq(Int) /\ Len(q) = MaxCalls /\ \A i \in 1..Len(q) : q[i] = 0
  BY <1>1 DEF Init, Owes, NoCall, Calls
<1>3. attempts[t] = <<>>
  BY DEF Init
<1>4. e \in Seq(Int) /\ Len(e) = 0
  BY <1>3
<1>5. Total(q) = 0 /\ Total(e) = 0
  <2> HIDE DEF q, e
  <2>1. Total(q) = 0
    BY <1>2, TotalNothing
  <2>2. \A i \in 1..Len(e) : e[i] = 0
    BY <1>4
  <2>3. Total(e) = 0
    BY <1>4, <2>2, TotalNothing
  <2> QED BY <2>1, <2>3
<1>6. Due(t) = 0 /\ Earned(t) = 0
  <2> HIDE DEF Owes
  <2> QED BY <1>5, DueIs DEF Earned
<1> QED BY <1>6 DEF Init

\* One call owes something else: what all calls owe changes by the difference.
LEMMA DueChanged ==
  ASSUME CallsSound, NEW c \in Calls, NEW q \in Call, Put(c, q), NEW t
  PROVE  Due(t)' = Due(t) + Owes(q, t) - Owes(call[c], t) /\ Due(t) \in Int
<1> DEFINE a == [d \in Calls |-> Owes(call[d], t)]
           b == [d \in Calls |-> Owes(call'[d], t)]
<1>1. MaxCalls \in Nat /\ Calls = 1..MaxCalls
  BY RiskAssumption DEF Calls
<1>2. call' = [call EXCEPT ![c] = q] /\ call \in [Calls -> Call]
  BY DEF Put, CallsSound
<1>3. \A d \in Calls : a[d] \in Int /\ b[d] \in Int
  BY <1>2, OwesIsInt
<1>4. a \in Seq(Int) /\ b \in Seq(Int) /\ Len(a) = MaxCalls /\ Len(b) = MaxCalls
  <2>1. a \in [1..MaxCalls -> Int] /\ b \in [1..MaxCalls -> Int]
    BY <1>1, <1>3
  <2> HIDE DEF a, b
  <2> QED BY <1>1, <2>1
<1>5. \A d \in 1..MaxCalls : d # c => b[d] = a[d]
  BY <1>1, <1>2
<1>6. a[c] = Owes(call[c], t) /\ b[c] = Owes(q, t)
  BY <1>2
<1>7. Due(t) = Total(a) /\ Due(t)' = Total(b)
  BY DEF Due, Owes
<1> HIDE DEF a, b
<1>8. Total(b) = Total(a) + b[c] - a[c]
  BY <1>1, <1>4, <1>5, TotalChanged
<1>9. Total(a) \in Int
  <2>1. PICK f : Sums(f, a) /\ Total(a) = f[Len(a)]
    BY <1>4, TotalIsSum
  <2> QED BY <1>1, <1>4, <2>1 DEF Sums
<1> QED BY <1>6, <1>7, <1>8, <1>9

LEMMA PointsFrame ==
  ASSUME TypeInv, PointsInv, NEW c \in Calls, NEW q \in Call, Put(c, q),
         NEW t \in Teams \ cut, points'[t] = points[t], attempts'[t] = attempts[t],
         Owes(q, t) = 0, Owes(call[c], t) = 0
  PROVE  points'[t] + Due(t)' = Earned(t)'
<1>1. Due(t)' = Due(t)
  BY DueChanged DEF TypeInv
<1>2. Earned(t)' = Earned(t)
  BY DEF Earned
<1> QED BY <1>1, <1>2 DEF PointsInv, PointsAreAttempts

LEMMA EarnedMore ==
  ASSUME NEW s \in Seq(Attempt), NEW row \in Attempt
  PROVE  LET e(z) == [i \in DOMAIN z |-> z[i].delta]
         IN  Total(e(Append(s, row))) = Total(e(s)) + row.delta
<1> DEFINE e(z) == [i \in DOMAIN z |-> z[i].delta]
           z == Append(s, row)
<1>1. /\ Len(s) \in Nat /\ z \in Seq(Attempt) /\ Len(z) = Len(s) + 1 /\ z[Len(s) + 1] = row
      /\ \A i \in 1..Len(s) : z[i] = s[i]
  OBVIOUS
<1>2. \A y \in Seq(Attempt) : e(y) \in Seq(Int) /\ Len(e(y)) = Len(y) /\ \A i \in 1..Len(y) : e(y)[i] = y[i].delta
  <2> SUFFICES ASSUME NEW y \in Seq(Attempt)
               PROVE  e(y) \in Seq(Int) /\ Len(e(y)) = Len(y) /\ \A i \in 1..Len(y) : e(y)[i] = y[i].delta
    OBVIOUS
  <2>1. Len(y) \in Nat /\ DOMAIN y = 1..Len(y) /\ \A i \in 1..Len(y) : y[i] \in Attempt
    <3> HIDE DEF e
    <3> QED OBVIOUS
  <2>3. \A i \in 1..Len(y) : y[i].delta \in Int
    <3> HIDE DEF e
    <3> QED BY <2>1 DEF Attempt
  <2>2. e(y) \in [1..Len(y) -> Int] /\ \A i \in 1..Len(y) : e(y)[i] = y[i].delta
    BY <2>1, <2>3
  <2> HIDE DEF e
  <2> QED BY <2>1, <2>2
<1> HIDE DEF e, z
<1>3. /\ e(s) \in Seq(Int) /\ e(z) \in Seq(Int) /\ Len(e(z)) = Len(e(s)) + 1
      /\ \A i \in 1..Len(e(s)) : e(z)[i] = e(s)[i]
  <2>1. e(s) \in Seq(Int) /\ Len(e(s)) = Len(s) /\ \A i \in 1..Len(s) : e(s)[i] = s[i].delta
    BY <1>2
  <2>2. e(z) \in Seq(Int) /\ Len(e(z)) = Len(z) /\ \A i \in 1..Len(z) : e(z)[i] = z[i].delta
    BY <1>1, <1>2
  <2>3. Len(e(z)) = Len(e(s)) + 1 /\ \A i \in 1..Len(e(s)) : e(s)[i] = s[i].delta /\ i \in 1..Len(z)
    BY <1>1, <2>1, <2>2
  <2>4. \A i \in 1..Len(e(s)) : e(z)[i] = e(s)[i]
    BY <1>1, <2>1, <2>2, <2>3
  <2> QED BY <2>1, <2>2, <2>3, <2>4
<1>4. Total(e(z)) = Total(e(s)) + e(z)[Len(e(z))]
  BY <1>3, TotalMore
<1>5. e(z)[Len(e(z))] = row.delta
  BY <1>1, <1>2, SMTT(30)
<1> QED BY <1>4, <1>5 DEF e, z

LEMMA PointsCreateAttempt == ASSUME TypeInv, PointsInv, NEW c \in Calls, CreateAttempt(c) PROVE PointsInv'
<1> PICK r : r = call[c]
  OBVIOUS
<1>0. r \in Call /\ Sound(r) /\ r.kind = "answer" /\ r.at = "create" /\ r.team \in Teams
  BY DEF TypeInv, CallsSound, CreateAttempt, Sound
<1> DEFINE row == [card |-> r.card, station |-> r.station, ok |-> r.claim = "right", delta |-> r.delta]
           q == [r EXCEPT !.at = "pay"]
<1>1. /\ \/ Put(c, q) /\ attempts' = [attempts EXCEPT ![r.team] = Append(@, row)]
         \/ Put(c, Refused(r)) /\ attempts' = attempts
      /\ points' = points /\ cut' = cut
  BY DEF CreateAttempt
<1>2. q \in Call /\ q.team = r.team /\ q.at = "pay" /\ q.delta = r.delta
  BY <1>0 DEF Call, Stages
<1>3. row \in Attempt /\ row.delta = r.delta
  BY <1>0 DEF Sound, Attempt, Call
<1>4. \A t : Owes(r, t) = 0
  BY <1>0 DEF Owes
<1> HIDE DEF q, row
<1>5. CASE Put(c, Refused(r)) /\ attempts' = attempts
  <2>1. Refused(r) \in Call /\ \A t : Owes(Refused(r), t) = 0
    BY <1>0, RefusedSound, ZenonT(40) DEF Owes, Refused, NoCall, Call
  <2>2. \A t \in Teams \ cut : points'[t] + Due(t)' = Earned(t)'
    BY <1>1, <1>4, <1>5, <2>1, PointsFrame
  <2> QED BY <1>1, <2>2 DEF PointsInv, PointsAreAttempts
<1>6. CASE Put(c, q) /\ attempts' = [attempts EXCEPT ![r.team] = Append(@, row)]
  <2>1. ASSUME NEW t \in Teams \ cut PROVE points'[t] + Due(t)' = Earned(t)'
    <3>1. CASE t # r.team
      <4>1. attempts'[t] = attempts[t] /\ Owes(q, t) = 0
        BY <1>2, <1>6, <3>1 DEF TypeInv, Rows, Owes
      <4> QED BY <1>1, <1>2, <1>4, <1>6, <4>1, PointsFrame
    <3>2. CASE t = r.team
      <4>1. attempts[t] \in Seq(Attempt) /\ attempts'[t] = Append(attempts[t], row)
        BY <1>0, <1>6, <3>2 DEF TypeInv, Rows
      <4>2. Earned(t)' = Earned(t) + r.delta
        <5>1. /\ Earned(t) = Total([i \in DOMAIN attempts[t] |-> attempts[t][i].delta])
              /\ Earned(t)' = Total([i \in DOMAIN Append(attempts[t], row) |-> Append(attempts[t], row)[i].delta])
          BY <4>1 DEF Earned
        <5> QED BY <1>3, <4>1, <5>1, EarnedMore
      <4>3. Due(t)' = Due(t) + r.delta - 0 /\ Due(t) \in Int
        <5>1. Owes(q, t) = r.delta
          BY <1>2, <3>2 DEF Owes
        <5> QED BY <1>2, <1>4, <1>6, <5>1, DueChanged DEF TypeInv
      <4>4. points[t] + Due(t) = Earned(t) /\ points'[t] = points[t] /\ points[t] \in Int /\ r.delta \in Int
        BY <1>0, <1>1 DEF PointsInv, PointsAreAttempts, TypeInv, Rows, Call
      <4> QED BY <4>2, <4>3, <4>4
    <3> QED BY <3>1, <3>2
  <2> QED BY <1>1, <2>1 DEF PointsInv, PointsAreAttempts
<1> QED BY <1>1, <1>5, <1>6

LEMMA PointsPay == ASSUME TypeInv, PointsInv, NEW c \in Calls, Pay(c) PROVE PointsInv'
<1> PICK r : r = call[c]
  OBVIOUS
<1>0. r \in Call /\ Sound(r) /\ r.at = "pay" /\ r.team \in Teams /\ r.delta \in Int
  BY DEF TypeInv, CallsSound, Pay, Sound, Call
<1> DEFINE q == [r EXCEPT !.at = "answered", !.done = TRUE]
<1>1. /\ Put(c, q) /\ attempts' = attempts /\ cut' = cut
      /\ points' = [points EXCEPT ![r.team] = points[r.team] + r.delta]
  BY DEF Pay
<1>2. q \in Call /\ q.at = "answered"
  BY <1>0 DEF Call, Stages
<1>3. \A t : Owes(q, t) = 0
  BY <1>2 DEF Owes
<1> HIDE DEF q
<1>4. ASSUME NEW t \in Teams \ cut PROVE points'[t] + Due(t)' = Earned(t)'
  <2>1. CASE t # r.team
    <3>1. points'[t] = points[t] /\ Owes(r, t) = 0
      BY <1>1, <2>1 DEF Owes, TypeInv, Rows
    <3> QED BY <1>1, <1>2, <1>3, <3>1, PointsFrame
  <2>2. CASE t = r.team
    <3>1. Due(t)' = Due(t) + 0 - r.delta /\ Due(t) \in Int
      <4>1. Owes(r, t) = r.delta
        BY <1>0, <2>2 DEF Owes
      <4> QED BY <1>1, <1>2, <1>3, <4>1, DueChanged DEF TypeInv
    <3>2. points'[t] = points[t] + r.delta /\ points[t] \in Int
      BY <1>0, <1>1, <2>2 DEF TypeInv, Rows
    <3>3. Earned(t)' = Earned(t) /\ points[t] + Due(t) = Earned(t)
      BY <1>1 DEF Earned, PointsInv, PointsAreAttempts
    <3> QED BY <1>0, <3>1, <3>2, <3>3
  <2> QED BY <2>1, <2>2
<1> QED BY <1>1, <1>4 DEF PointsInv, PointsAreAttempts

LEMMA PointsFail == ASSUME TypeInv, PointsInv, NEW c \in Calls, Fail(c) PROVE PointsInv'
<1> PICK r : r = call[c]
  OBVIOUS
<1>0. r \in Call /\ Sound(r)
  BY DEF TypeInv, CallsSound
<1>1. /\ Put(c, Refused(r)) /\ attempts' = attempts /\ points' = points
      /\ cut' = IF r.at = "pay" THEN cut \cup {r.team} ELSE cut
  BY DEF Fail
<1>2. Refused(r) \in Call /\ \A t : Owes(Refused(r), t) = 0
  BY <1>0, RefusedSound DEF Owes, Refused, NoCall, Call
<1>3. ASSUME NEW t \in Teams \ cut' PROVE points'[t] + Due(t)' = Earned(t)'
  <2>1. t \notin cut /\ Owes(r, t) = 0
    BY <1>1, <1>3 DEF Owes
  <2> QED BY <1>1, <1>2, <2>1, PointsFrame
<1> QED BY <1>3 DEF PointsInv, PointsAreAttempts

\* The steps of calls that neither store an attempt nor pay one.
LEMMA PointsOthers ==
  ASSUME TypeInv, PointsInv, NEW c \in Calls,
         \/ FindCard(c) \/ Draw(c) \/ CheckPool(c) \/ CheckTried(c) \/ ReadStreak(c)
         \/ HearScan(c) \/ HearAnswer(c) \/ Generate(c) \/ CreateCard(c)
  PROVE  PointsInv'
<1>1. call[c] \in Call /\ call'[c] \in Call /\ Put(c, call'[c])
  <2>1. CallsSound'
    BY TypeFindCard, TypeDraw, TypeCheckPool, TypeCheckTried, TypeReadStreak, TypeHearScan,
       TypeHearAnswer, TypeGenerate, TypeCreateCard DEF TypeInv
  <2>2. call[c] \in Call /\ call'[c] \in Call /\ call \in [Calls -> Call]
    BY <2>1 DEF TypeInv, CallsSound
  <2>3. \E q : Put(c, q)
    BY DEF FindCard, Draw, CheckPool, CheckTried, ReadStreak, HearScan, HearAnswer, Generate, CreateCard
  <2> QED BY <2>2, <2>3 DEF Put
<1>2. UNCHANGED <<attempts, points, cut>>
  BY DEF FindCard, Draw, CheckPool, CheckTried, ReadStreak, HearScan, HearAnswer, Generate, CreateCard
<1>3. call[c].at # "pay"
  <2>1. Free(c) => call[c].at # "pay"
    BY FreeIsIdle DEF NoCall
  <2> QED BY <2>1 DEF FindCard, Draw, CheckPool, CheckTried, ReadStreak, HearScan, HearAnswer, Generate, CreateCard
<1>4. call'[c].at # "pay"
  <2> PICK r : r = call[c]
    OBVIOUS
  <2>0. r \in Call /\ r.at # "pay"
    BY <1>1, <1>3
  <2>1. Refused(r).at # "pay" /\ NoCall.at # "pay"
    BY <2>0 DEF Refused, NoCall, Call
  <2>2. ASSUME NEW q, Put(c, q) PROVE call'[c] = q
    BY <2>2 DEF Put, TypeInv, CallsSound
  <2>3. CASE FindCard(c)
    <3>1. \A k, todo : [r EXCEPT !.at = "look", !.card = k, !.todo = todo].at # "pay"
      BY <2>0 DEF Call
    <3>2. \/ Put(c, Refused(r))
          \/ \E k, todo : Put(c, [r EXCEPT !.at = "look", !.card = k, !.todo = todo])
      BY <2>3 DEF FindCard
    <3>3. CASE Put(c, Refused(r))
      BY <2>1, <2>2, <3>3
    <3>4. ASSUME NEW k, NEW todo, Put(c, [r EXCEPT !.at = "look", !.card = k, !.todo = todo])
          PROVE  call'[c].at # "pay"
      <4>1. call'[c] = [r EXCEPT !.at = "look", !.card = k, !.todo = todo]
        BY <2>2, <3>4
      <4> QED BY <3>1, <4>1
    <3> QED BY <3>2, <3>3, <3>4
  <2>4. CASE Draw(c)
    <3>1. /\ [r EXCEPT !.at = "exhausted"].at # "pay"
          /\ \A s : [r EXCEPT !.at = "answered", !.done = TRUE, !.station = s].at # "pay"
      BY <2>0 DEF Call
    <3>2. \/ Put(c, [r EXCEPT !.at = "exhausted"])
          \/ \E s : Put(c, [r EXCEPT !.at = "answered", !.done = TRUE, !.station = s])
      BY <2>4 DEF Draw
    <3> QED BY <2>2, <3>1, <3>2
  <2>5. CASE CheckPool(c) \/ CheckTried(c)
    <3>1. [r EXCEPT !.at = "look"].at # "pay" /\ [r EXCEPT !.at = "streak"].at # "pay"
      BY <2>0 DEF Call
    <3>2. Put(c, [r EXCEPT !.at = "look"]) \/ Put(c, [r EXCEPT !.at = "streak"]) \/ Put(c, Refused(r))
      BY <2>5 DEF CheckPool, CheckTried
    <3>3. \E q : Put(c, q) /\ q.at # "pay"
      BY <2>1, <3>1, <3>2
    <3> QED BY <2>2, <3>3
  <2>6. CASE ReadStreak(c)
    <3>1. \A n, w : [r EXCEPT !.at = "create", !.streak = n, !.delta = w].at # "pay"
      BY <2>0 DEF Call
    <3>2. \E n, w : Put(c, [r EXCEPT !.at = "create", !.streak = n, !.delta = w])
      BY <2>6 DEF ReadStreak
    <3>3. PICK n, w : Put(c, [r EXCEPT !.at = "create", !.streak = n, !.delta = w])
      BY <3>2
    <3>4. call'[c] = [r EXCEPT !.at = "create", !.streak = n, !.delta = w]
      BY <2>2, <3>3
    <3> QED BY <3>1, <3>4
  <2>7. CASE HearScan(c) \/ HearAnswer(c)
    BY <2>1, <2>2, <2>7 DEF HearScan, HearAnswer
  <2>8. CASE Generate(c)
    <3>1. \E todo : Put(c, [NoCall EXCEPT !.kind = "generate", !.at = "create", !.todo = todo])
      BY <2>8 DEF Generate
    <3>2. \A todo : [NoCall EXCEPT !.kind = "generate", !.at = "create", !.todo = todo].at # "pay"
      BY DEF NoCall
    <3>3. \E q : Put(c, q) /\ q.at # "pay"
      BY <3>1, <3>2
    <3> QED BY <2>2, <3>3
  <2>9. CASE CreateCard(c)
    <3>1. Put(c, NoCall) \/ \E todo : Put(c, [r EXCEPT !.todo = todo])
      BY <2>9 DEF CreateCard
    <3>2. \A todo : [r EXCEPT !.todo = todo].at # "pay"
      BY <2>0 DEF Call
    <3> QED BY <2>1, <2>2, <3>1, <3>2
  <2> QED BY <2>3, <2>4, <2>5, <2>6, <2>7, <2>8, <2>9
<1>5. ASSUME NEW t \in Teams \ cut' PROVE points'[t] + Due(t)' = Earned(t)'
  <2>1. Owes(call'[c], t) = 0 /\ Owes(call[c], t) = 0
    BY <1>3, <1>4 DEF Owes
  <2> HIDE DEF Owes
  <2> QED BY <1>1, <1>2, <1>5, <2>1, PointsFrame
<1> QED BY <1>5 DEF PointsInv, PointsAreAttempts

LEMMA PointsSend ==
  ASSUME TypeInv, PointsInv, NEW c \in Calls, NEW q \in Call, Free(c), Put(c, q), q.at = "sent",
         UNCHANGED <<attempts, points, cut>>
  PROVE  PointsInv'
<1>1. ASSUME NEW t \in Teams \ cut' PROVE points'[t] + Due(t)' = Earned(t)'
  <2>1. Owes(q, t) = 0 /\ Owes(call[c], t) = 0
    BY FreeIsIdle DEF Owes, NoCall
  <2> QED BY <1>1, <2>1, PointsFrame
<1> QED BY <1>1 DEF PointsInv, PointsAreAttempts

LEMMA PointsQuiet ==
  ASSUME PointsInv, cut \subseteq cut', call' = call,
         \A t \in Teams \ cut' : attempts'[t] = attempts[t] /\ points'[t] = points[t]
  PROVE  PointsInv'
<1>1. ASSUME NEW t \in Teams \ cut' PROVE points'[t] + Due(t)' = Earned(t)'
  <2>1. Due(t)' = Due(t)
    BY DEF Due
  <2>2. Earned(t)' = Earned(t)
    BY <1>1 DEF Earned
  <2> QED BY <1>1, <2>1, <2>2 DEF PointsInv, PointsAreAttempts
<1> QED BY <1>1 DEF PointsInv, PointsAreAttempts

LEMMA PointsStep == TypeInv /\ PointsInv /\ [Next]_vars => PointsInv'
<1> SUFFICES ASSUME TypeInv, PointsInv, [Next]_vars PROVE PointsInv'
  OBVIOUS
<1>1. ASSUME NEW c \in Calls,
             \/ FindCard(c) \/ Draw(c) \/ CheckPool(c) \/ CheckTried(c) \/ ReadStreak(c) \/ CreateAttempt(c)
             \/ Pay(c) \/ HearScan(c) \/ HearAnswer(c) \/ Fail(c) \/ Generate(c) \/ CreateCard(c)
      PROVE  PointsInv'
  BY <1>1, PointsCreateAttempt, PointsPay, PointsFail, PointsOthers
<1>2. ASSUME NEW c \in Calls, NEW p \in Phones,
             (\E k \in Code : Scan(p, c, k)) \/ \E claim \in {"right", "wrong", "bad"} : Submit(p, c, claim)
      PROVE  PointsInv'
  <2>1. CallsSound'
    BY <1>2, TypeScan, TypeSubmit DEF TypeInv, Claims
  <2>2. Free(c) /\ \E q : Put(c, q) /\ q.at = "sent"
    <3>1. \A t, u, k : [NoCall EXCEPT !.kind = "scan", !.at = "sent", !.team = t, !.phone = u, !.card = k].at = "sent"
      BY DEF NoCall
    <3>2. \A t, u, k, s, m : [NoCall EXCEPT !.kind = "answer", !.at = "sent", !.team = t, !.phone = u,
                                            !.card = k, !.station = s, !.claim = m].at = "sent"
      BY DEF NoCall
    <3>3. CASE \E k \in Code : Scan(p, c, k)
      BY <3>1, <3>3 DEF Scan
    <3>4. CASE \E claim \in {"right", "wrong", "bad"} : Submit(p, c, claim)
      <4>1. Free(c) /\ \E t, u, k, s, m :
              Put(c, [NoCall EXCEPT !.kind = "answer", !.at = "sent", !.team = t, !.phone = u,
                                    !.card = k, !.station = s, !.claim = m])
        BY <3>4 DEF Submit
      <4>2. PICK t, u, k, s, m :
              Put(c, [NoCall EXCEPT !.kind = "answer", !.at = "sent", !.team = t, !.phone = u,
                                    !.card = k, !.station = s, !.claim = m])
        BY <4>1
      <4> DEFINE q == [NoCall EXCEPT !.kind = "answer", !.at = "sent", !.team = t, !.phone = u,
                                     !.card = k, !.station = s, !.claim = m]
      <4>3. Put(c, q) /\ q.at = "sent"
        BY <3>2, <4>2
      <4> HIDE DEF q
      <4> QED BY <4>1, <4>3
    <3> QED BY <1>2, <3>3, <3>4
  <2>3. UNCHANGED <<attempts, points, cut>>
    BY <1>2 DEF Scan, Submit
  <2>4. PICK q : Put(c, q) /\ q.at = "sent"
    BY <2>2
  <2>5. q \in Call
    BY <2>1, <2>4 DEF Put, CallsSound, TypeInv
  <2> QED BY <2>2, <2>3, <2>4, <2>5, PointsSend
<1>3. ASSUME NEW p \in Phones, Close(p) \/ Cleared(p)
      PROVE  PointsInv'
  BY <1>3, PointsQuiet DEF Close, Cleared
<1>4. ASSUME NEW k \in Categories, (\E s \in Slugs : Rename(k, s)) \/ SetDeck(k)
      PROVE  PointsInv'
  BY <1>4, PointsQuiet DEF Rename, SetDeck
<1>5. ASSUME NEW k \in Categories, DeleteCategory(k)
      PROVE  PointsInv'
  <2>1. \A t \in Teams \ cut' : attempts'[t] = attempts[t]
    BY <1>5, DeletedOnly
  <2>2. points' = points /\ cut \subseteq cut' /\ call' = call
    BY <1>5 DEF DeleteCategory
  <2> QED BY <2>1, <2>2, PointsQuiet
<1>6. ASSUME NEW x \in FirstPools, SetPool(x[1], x[2], x[3])
      PROVE  PointsInv'
  BY <1>6, PointsQuiet DEF SetPool
<1>7. ASSUME NEW ends \in BOOLEAN, Overwrite(ends)
      PROVE  PointsInv'
  BY <1>7, PointsQuiet DEF Overwrite, TypeInv, Rows
<1>8. CASE UNCHANGED vars
  BY <1>8, PointsQuiet DEF vars
<1> QED BY <1>1, <1>2, <1>3, <1>4, <1>5, <1>6, <1>7, <1>8 DEF Next

\* The points of a team are what its attempts add up to, but for those about to be paid,
\* however many of its phones answer at once: the attempt and the increment are two
\* statements, and the increment is one of the row, not of a total that was read.
THEOREM PointsCorrect == Spec => []PointsAreAttempts
<1>1. PointsInv => PointsAreAttempts
  BY DEF PointsInv
<1> QED BY <1>1, TypeInit, TypeStep, PointsInit, PointsStep, PTL DEF Spec
=============================================================================
