--------------------------- MODULE Sessions_proofs ---------------------------
(***************************************************************************)
(* Devices, sessions and slots for any number of devices, requests and     *)
(* teams.                                                                  *)
(***************************************************************************)
EXTENDS Sessions, FiniteSetTheorems, WellFoundedInduction, TLAPS

-----------------------------------------------------------------------------
(* Types, and what kind of request awaits where.                           *)

Tabled ==
  /\ teamCount \in Sizes /\ team \in [TeamSlots -> [id : TeamIds, active : BOOLEAN]]
  /\ rows \subseteq Row /\ phone \in [Devices -> Ids]
  /\ nextTeam \in Nat \ {0} /\ nextId \in Nat \ {0}
  /\ doubled \subseteq Devices /\ misread \subseteq Devices /\ contested \subseteq TeamIds
  /\ resized \in BOOLEAN
Typing == Tabled /\ pc \in [Handlers -> PCs] /\ job \in [Handlers -> Job]

\* A request with the local variables j may await at p.
Fits(p, j) ==
  /\ p = "idle" => j = NoJob
  /\ p \in Ensuring => j.kind \in {"join", "reset"}
  /\ p \in {"find", "rotate", "place", "probe", "joinRivals", "clear", "create", "answer"}
       => j.kind = "join"
  /\ p \in {"rivals", "move", "release"} => j.kind = "select"
  /\ p \in {"oust", "activate"} => j.kind \in {"join", "select"}
  /\ p \in {"touch", "drop", "profile"} => j.kind \in {"state", "profile", "select"}
  /\ p \in {"wipe", "zero"} => j.kind = "reset"
  /\ j.kind = "join" => j.device \in Devices
  /\ p = "probe" => j.slot \in 1..Len(j.list) /\ Len(j.list) <= MaxTeams
  /\ p = "createTeam" => j.slot \in 1..j.size
  /\ p \in {"touch", "rivals"} /\ j.kind = "select" => j.slot \in TeamSlots

TypeInv == Typing /\ \A r \in Handlers : Fits(pc[r], job[r])

LEMMA Limits == MaxTeams \in Nat \ {0} /\ Sizes \subseteq 1..MaxTeams
  BY SessionsAssumption

LEMMA NothingTyped == NoJob \in Job /\ NoTeam \in [id : TeamIds, active : BOOLEAN]
  <1>1. <<>> \in Seq(TeamIds) /\ 0 \in 0..MaxTeams /\ 0 \in 0..(MaxTeams + 1)
    BY Limits
  <1> QED BY <1>1 DEF NoJob, Job, NoTeam, TeamIds, Ids

LEMMA PCsAre ==
  /\ {"idle", "find", "rotate", "place", "probe", "joinRivals", "touch", "drop", "wipe", "zero",
      "teams", "trim", "createTeam", "oust", "clear", "create", "move", "profile", "rivals",
      "release", "activate", "answer"} = PCs
  BY DEF PCs, Ensuring, Placing, Renewed

\* What a handler that goes on leaves of the others.
Now(r, p, j) ==
  /\ pc'[r] = p /\ job'[r] = j
  /\ \A q \in Handlers \ {r} : pc'[q] = pc[q] /\ job'[q] = job[q]

LEMMA Moves ==
  ASSUME TypeInv, NEW r \in Handlers, NEW p \in PCs, NEW j \in Job, Goto(r, p, j)
  PROVE  /\ pc' \in [Handlers -> PCs] /\ job' \in [Handlers -> Job] /\ Now(r, p, j)
         /\ Fits(p, j) => \A q \in Handlers : Fits(pc'[q], job'[q])
  <1>1. pc \in [Handlers -> PCs] /\ job \in [Handlers -> Job]
    BY DEF TypeInv, Typing
  <1>2. pc' = [pc EXCEPT ![r] = p] /\ job' = [job EXCEPT ![r] = j]
    BY DEF Goto
  <1>3. pc' \in [Handlers -> PCs] /\ job' \in [Handlers -> Job] /\ Now(r, p, j)
    BY <1>1, <1>2 DEF Now
  <1>4. ASSUME Fits(p, j), NEW q \in Handlers PROVE Fits(pc'[q], job'[q])
    <2>1. CASE q = r
      BY <1>3, <1>4, <2>1, Zenon DEF Now
    <2>2. CASE q # r
      <3>1. pc'[q] = pc[q] /\ job'[q] = job[q] /\ Fits(pc[q], job[q])
        BY <1>3, <2>2 DEF Now, TypeInv
      <3> QED BY <3>1, Zenon
    <2> QED BY <2>1, <2>2
  <1> QED BY <1>3, <1>4

LEMMA Ends ==
  ASSUME TypeInv, NEW r \in Handlers, End(r)
  PROVE  /\ pc' \in [Handlers -> PCs] /\ job' \in [Handlers -> Job] /\ Now(r, "idle", NoJob)
         /\ \A q \in Handlers : Fits(pc'[q], job'[q])
  <1>1. "idle" \in PCs /\ NoJob \in Job /\ Goto(r, "idle", NoJob)
    BY PCsAre, NothingTyped DEF End
  <1>2. Fits("idle", NoJob)
    BY DEF Fits, NoJob, Ensuring
  <1> QED BY <1>1, <1>2, Moves

LEMMA TypeAfter ==
  ASSUME TypeInv, NEW r \in Handlers, NEW p \in PCs, NEW j \in Job, Goto(r, p, j), Fits(p, j), Tabled'
  PROVE  TypeInv'
  BY Moves, Zenon DEF TypeInv, Typing

LEMMA TypeEnd == ASSUME TypeInv, NEW r \in Handlers, End(r), Tabled' PROVE TypeInv'
  BY Ends, Zenon DEF TypeInv, Typing

-----------------------------------------------------------------------------
(* The teams in the order of their slots.                                  *)

LEMMA Least ==
  ASSUME NEW S, S \subseteq Nat, S # {}
  PROVE  \E n \in S : \A m \in S : n <= m
  <1> DEFINE R == OpToRel(<, Nat)
  <1>1. PICK n \in S : \A m \in S : ~(<<m, n>> \in R)
    BY WFMin, NatLessThanWellFounded
  <1>2. \A m \in S : ~(m < n)
    BY <1>1 DEF OpToRel
  <1> QED BY <1>2

\* A set with 0 and with the successor of every number it has below N has all up to N.
LEMMA UpTo ==
  ASSUME NEW N \in Nat, NEW S, 0 \in S, \A n \in 0..N : n \in S /\ n < N => n + 1 \in S
  PROVE  \A n \in 0..N : n \in S
  <1> SUFFICES ASSUME NEW k \in 0..N, k \notin S PROVE FALSE
    OBVIOUS
  <1> DEFINE Missing == {n \in 0..N : n \notin S}
  <1>0. Missing \subseteq Nat /\ Missing # {}
    OBVIOUS
  <1>1. PICK n \in Missing : \A m \in Missing : n <= m
    <2> HIDE DEF Missing
    <2> QED BY <1>0, Least
  <1>2. n # 0 /\ n - 1 \in 0..N /\ n - 1 < N
    BY <1>1
  <1>3. n - 1 \in S
    BY <1>1, <1>2
  <1>4. n - 1 + 1 \in S
    BY <1>2, <1>3
  <1> QED BY <1>1, <1>4

Filter(f, e, N) ==
  /\ f \in [0..N -> Seq(Nat)] /\ f[0] = <<>>
  /\ \A i \in 1..N : f[i] = IF e[i] = 0 THEN f[i - 1] ELSE Append(f[i - 1], e[i])

LEMMA FilterExists ==
  ASSUME NEW N \in Nat, NEW e \in [1..N -> Nat]
  PROVE  \E f : Filter(f, e, N)
  <1> DEFINE Upto(f, n) ==
               /\ f \in [0..n -> Seq(Nat)] /\ f[0] = <<>>
               /\ \A i \in 1..n : f[i] = IF e[i] = 0 THEN f[i - 1] ELSE Append(f[i - 1], e[i])
             S == {n \in 0..N : \E f : Upto(f, n)}
  <1>1. 0 \in S
    <2> DEFINE nothing == [i \in 0..0 |-> <<>>]
    <2>1. Upto(nothing, 0)
      OBVIOUS
    <2>2. \E f : Upto(f, 0)
      <3> HIDE DEF Upto, nothing
      <3> QED BY <2>1
    <2> QED BY <2>2
  <1>2. \A n \in 0..N : n \in S /\ n < N => n + 1 \in S
    <2> SUFFICES ASSUME NEW n \in 0..N, n \in S, n < N PROVE n + 1 \in S
      OBVIOUS
    <2>1. PICK f : Upto(f, n)
      OBVIOUS
    <2>2. n + 1 \in 1..N /\ e[n + 1] \in Nat
      OBVIOUS
    <2> DEFINE last == IF e[n + 1] = 0 THEN f[n] ELSE Append(f[n], e[n + 1])
               g == [i \in 0..(n + 1) |-> IF i = n + 1 THEN last ELSE f[i]]
    <2>3. f \in [0..n -> Seq(Nat)] /\ f[n] \in Seq(Nat) /\ f[0] = <<>>
      BY <2>1
    <2>4. last \in Seq(Nat)
      <3> HIDE DEF Upto, S
      <3>1. Append(f[n], e[n + 1]) \in Seq(Nat)
        BY <2>2, <2>3
      <3> QED BY <2>3, <3>1
    <2>5. g \in [0..(n + 1) -> Seq(Nat)] /\ g[0] = <<>>
      <3> HIDE DEF last, Upto, S
      <3> QED BY <2>3, <2>4
    <2>6. ASSUME NEW i \in 1..(n + 1)
          PROVE g[i] = IF e[i] = 0 THEN g[i - 1] ELSE Append(g[i - 1], e[i])
      <3>1. CASE i = n + 1
        BY <3>1
      <3>2. CASE i \in 1..n
        <4>1. f[i] = IF e[i] = 0 THEN f[i - 1] ELSE Append(f[i - 1], e[i])
          BY <2>1, <3>2
        <4>2. i \in 0..(n + 1) /\ i # n + 1 /\ i - 1 \in 0..(n + 1) /\ i - 1 # n + 1
          BY <3>2
        <4>3. g[i] = f[i] /\ g[i - 1] = f[i - 1]
          BY <4>2
        <4> QED BY <4>1, <4>3
      <3> QED BY <3>1, <3>2
    <2>7. Upto(g, n + 1)
      <3> HIDE DEF g
      <3> QED BY <2>5, <2>6
    <2>8. \E h : Upto(h, n + 1)
      <3> HIDE DEF Upto, g
      <3> QED BY <2>7
    <2>9. n + 1 \in 0..N
      OBVIOUS
    <2> HIDE DEF Upto
    <2> QED BY <2>8, <2>9
  <1>3. \A n \in 0..N : n \in S
    <2> HIDE DEF S
    <2> QED BY <1>1, <1>2, UpTo, Zenon
  <1>4. \E f : Upto(f, N)
    <2>1. N \in S
      <3>1. N \in 0..N
        OBVIOUS
      <3> HIDE DEF S
      <3> QED BY <1>3, <3>1
    <2> HIDE DEF Upto
    <2> QED BY <2>1
  <1> QED BY <1>4 DEF Filter

TeamIdAt == [s \in TeamSlots |-> team[s].id]

LEMMA TeamIdTyped == ASSUME Typing PROVE TeamIdAt \in [1..MaxTeams -> Nat] /\ MaxTeams \in Nat
  BY Limits DEF Typing, Tabled, TeamIdAt, TeamSlots, TeamIds

LEMMA TeamsAreFiltered ==
  ASSUME Typing
  PROVE  \E f : Filter(f, TeamIdAt, MaxTeams) /\ TeamsBySlot = f[MaxTeams]
  <1>0. PICK N \in Nat : N = MaxTeams
    BY Limits
  <1> DEFINE Body(f) == [k \in 0..MaxTeams |->
                           IF k = 0 THEN <<>> ELSE IF team[k].id = 0 THEN f[k - 1] ELSE Append(f[k - 1], team[k].id)]
             kept == CHOOSE f : f = Body(f)
  <1>1. PICK f : Filter(f, TeamIdAt, MaxTeams)
    BY TeamIdTyped, FilterExists
  <1>a. \A i \in 1..N : TeamIdAt[i] = team[i].id
    BY <1>0 DEF TeamIdAt, TeamSlots
  <1>2. f = Body(f)
    <2>1. \A i \in 0..MaxTeams : f[i] = Body(f)[i]
      <3> TAKE i \in 0..MaxTeams
      <3>1. CASE i = 0
        BY <1>1, <3>1 DEF Filter
      <3>2. CASE i \in 1..N
        <4>1. f[i] = IF TeamIdAt[i] = 0 THEN f[i - 1] ELSE Append(f[i - 1], TeamIdAt[i])
          BY <1>0, <1>1, <3>2 DEF Filter
        <4> QED BY <1>a, <3>2, <4>1
      <3> QED BY <1>0, <3>1, <3>2
    <2>2. f \in [0..MaxTeams -> Seq(Nat)]
      BY <1>1 DEF Filter
    <2> QED BY <2>1, <2>2
  <1>3. kept = Body(kept)
    BY <1>2
  <1>4. TeamsBySlot = kept[MaxTeams]
    BY DEF TeamsBySlot
  <1>5. \A i \in 0..N : kept[i] = f[i]
    <2> DEFINE S == {i \in 0..N : kept[i] = f[i]}
    <2>1. 0 \in S
      <3>1. Body(kept)[0] = <<>>
        BY <1>0
      <3>2. kept[0] = <<>>
        BY <1>3, <3>1, Zenon
      <3> HIDE DEF kept
      <3> QED BY <1>0, <1>1, <3>2 DEF Filter
    <2>2. \A n \in 0..N : n \in S /\ n < N => n + 1 \in S
      <3> SUFFICES ASSUME NEW n \in 0..N, n \in S, n < N PROVE n + 1 \in S
        OBVIOUS
      <3> HIDE DEF kept
      <3>1. n + 1 \in 0..N /\ n + 1 \in 1..N /\ n + 1 # 0 /\ n + 1 - 1 = n
        BY <1>0
      <3>2. Body(kept)[n + 1] = IF team[n + 1].id = 0 THEN kept[n] ELSE Append(kept[n], team[n + 1].id)
        BY <1>0, <3>1
      <3>3. kept[n + 1] = IF team[n + 1].id = 0 THEN kept[n] ELSE Append(kept[n], team[n + 1].id)
        BY <1>3, <3>2, Zenon
      <3>4. f[n + 1] = IF TeamIdAt[n + 1] = 0 THEN f[n + 1 - 1] ELSE Append(f[n + 1 - 1], TeamIdAt[n + 1])
        BY <1>0, <1>1, <3>1 DEF Filter
      <3> QED BY <1>a, <3>1, <3>3, <3>4
    <2> HIDE DEF S
    <2>3. \A i \in 0..N : i \in S
      BY <1>0, <2>1, <2>2, UpTo, Zenon
    <2> QED BY <2>3 DEF S
  <1> HIDE DEF kept
  <1>6. N \in 0..N
    BY <1>0
  <1> QED BY <1>0, <1>1, <1>4, <1>5, <1>6

\* The list has ids of teams, and where the slots have no gap it is the slots in their order.
LEMMA TeamsBySlotIs ==
  ASSUME Typing
  PROVE  /\ TeamsBySlot \in Seq(Nat) /\ Len(TeamsBySlot) <= MaxTeams
         /\ \A i \in DOMAIN TeamsBySlot :
              TeamsBySlot[i] # 0 /\ \E s \in TeamSlots : team[s].id = TeamsBySlot[i]
         /\ (\A s \in 2..MaxTeams : team[s].id # 0 => team[s - 1].id # 0) =>
              /\ \A s \in TeamSlots : team[s].id # 0 <=> s <= Len(TeamsBySlot)
              /\ \A i \in 1..Len(TeamsBySlot) : TeamsBySlot[i] = team[i].id
  <1>0. PICK N \in Nat : N = MaxTeams
    BY Limits
  <1>1. PICK f : Filter(f, TeamIdAt, MaxTeams) /\ TeamsBySlot = f[MaxTeams]
    BY TeamsAreFiltered
  <1>2. \A n \in 0..N : f[n] \in Seq(Nat)
    BY <1>0, <1>1 DEF Filter
  <1>a. \A i \in 1..N : TeamIdAt[i] = team[i].id /\ TeamIdAt[i] \in Nat
    BY <1>0, TeamIdTyped DEF TeamIdAt, TeamSlots
  <1>3. ASSUME NEW n \in 0..N, n < N
        PROVE  f[n + 1] = IF TeamIdAt[n + 1] = 0 THEN f[n] ELSE Append(f[n], TeamIdAt[n + 1])
    <2>1. n + 1 \in 1..N /\ n + 1 - 1 = n
      BY <1>3
    <2> QED BY <1>0, <1>1, <2>1 DEF Filter
  <1> DEFINE NoGap == \A s \in 2..N : TeamIdAt[s] # 0 => TeamIdAt[s - 1] # 0
             From(q, n) ==
               /\ Len(q) <= n
               /\ \A i \in 1..Len(q) : q[i] # 0 /\ \E s \in 1..n : TeamIdAt[s] = q[i]
               /\ NoGap => /\ \A s \in 1..n : TeamIdAt[s] # 0 <=> s <= Len(q)
                           /\ \A i \in 1..Len(q) : q[i] = TeamIdAt[i]
             S == {n \in 0..N : From(f[n], n)}
  <1>4. \A n \in 0..N : n \in S
    <2>1. 0 \in S
      <3>1. f[0] = <<>> /\ Len(<<>>) = 0
        BY <1>1 DEF Filter
      <3> QED BY <3>1
    <2>2. \A n \in 0..N : n \in S /\ n < N => n + 1 \in S
      <3> SUFFICES ASSUME NEW n \in 0..N, n \in S, n < N PROVE n + 1 \in S
        OBVIOUS
      <3>1. PICK q \in Seq(Nat) : q = f[n]
        BY <1>2
      <3>2. From(q, n)
        BY <3>1
      <3>3. n + 1 \in 1..N /\ n + 1 \in 0..N
        OBVIOUS
      <3> HIDE DEF S
      <3>4. CASE TeamIdAt[n + 1] = 0
        <4>1. f[n + 1] = q
          BY <1>3, <3>1, <3>4
        <4>2. NoGap => Len(q) <= n
          BY <3>2
        <4>3. From(q, n + 1)
          BY <3>1, <3>2, <3>4
        <4> QED BY <3>3, <4>1, <4>3 DEF S
      <3>5. CASE TeamIdAt[n + 1] # 0
        <4> DEFINE p == Append(q, TeamIdAt[n + 1])
        <4>1. f[n + 1] = p
          BY <1>3, <3>1, <3>5
        <4>2. /\ Len(p) = Len(q) + 1 /\ Len(q) \in Nat
              /\ \A i \in 1..Len(q) : p[i] = q[i]
              /\ p[Len(q) + 1] = TeamIdAt[n + 1]
          BY <1>a, <3>1, <3>3
        <4> HIDE DEF p
        <4>3. NoGap => Len(q) = n
          <5>1. CASE n = 0
            BY <3>2, <4>2, <5>1
          <5>2. CASE n # 0
            <6>1. n + 1 \in 2..N /\ n + 1 - 1 = n /\ n \in 1..n
              BY <5>2
            <6>2. NoGap => TeamIdAt[n] # 0
              BY <3>5, <6>1
            <6> QED BY <3>2, <4>2, <6>1, <6>2
          <5> QED BY <5>1, <5>2
        <4>4. From(p, n + 1)
          <5>1. Len(p) <= n + 1
            BY <3>2, <4>2
          <5>2. ASSUME NEW i \in 1..Len(p) PROVE p[i] # 0 /\ \E s \in 1..(n + 1) : TeamIdAt[s] = p[i]
            <6>1. CASE i \in 1..Len(q)
              <7>1. p[i] = q[i] /\ q[i] # 0 /\ \E s \in 1..n : TeamIdAt[s] = q[i]
                BY <3>2, <4>2, <6>1
              <7> QED BY <7>1
            <6>2. CASE i = Len(q) + 1
              BY <3>5, <4>2, <6>2
            <6> QED BY <4>2, <6>1, <6>2
          <5>3. ASSUME NoGap
                PROVE  /\ \A s \in 1..(n + 1) : TeamIdAt[s] # 0 <=> s <= Len(p)
                       /\ \A i \in 1..Len(p) : p[i] = TeamIdAt[i]
            <6>1. Len(q) = n /\ Len(p) = n + 1
              BY <4>2, <4>3, <5>3
            <6>2. (\A s \in 1..n : TeamIdAt[s] # 0 <=> s <= Len(q)) /\ \A i \in 1..Len(q) : q[i] = TeamIdAt[i]
              BY <3>2, <5>3
            <6> QED BY <3>5, <4>2, <6>1, <6>2
          <5> HIDE DEF NoGap
          <5> QED BY <5>1, <5>2, <5>3
        <4> QED BY <3>3, <4>1, <4>4 DEF S
      <3> QED BY <3>4, <3>5
    <2> HIDE DEF S
    <2> QED BY <2>1, <2>2, UpTo, Zenon
  <1>5. N \in 0..N /\ N \in S
    BY <1>4
  <1>6. From(TeamsBySlot, N) /\ TeamsBySlot \in Seq(Nat)
    <2>1. From(f[N], N) /\ f[N] \in Seq(Nat)
      BY <1>2, <1>5
    <2> HIDE DEF From
    <2> QED BY <1>0, <1>1, <2>1
  <1>7. TeamSlots = 1..N /\ DOMAIN TeamsBySlot = 1..Len(TeamsBySlot)
    BY <1>0, <1>6 DEF TeamSlots
  <1>8. (\A s \in 2..MaxTeams : team[s].id # 0 => team[s - 1].id # 0) => NoGap
    <2> SUFFICES ASSUME \A s \in 2..MaxTeams : team[s].id # 0 => team[s - 1].id # 0, NEW s \in 2..N
                 PROVE  TeamIdAt[s] # 0 => TeamIdAt[s - 1] # 0
      OBVIOUS
    <2>1. s \in 1..N /\ s - 1 \in 1..N
      OBVIOUS
    <2>2. TeamIdAt[s] = team[s].id /\ TeamIdAt[s - 1] = team[s - 1].id
      BY <1>a, <2>1
    <2> QED BY <1>0, <2>2
  <1>9. \A i \in 1..Len(TeamsBySlot) : i \in 1..N
    BY <1>6
  <1> HIDE DEF NoGap
  <1>10. /\ Len(TeamsBySlot) <= N
         /\ \A i \in 1..Len(TeamsBySlot) : TeamsBySlot[i] # 0 /\ \E s \in 1..N : TeamIdAt[s] = TeamsBySlot[i]
         /\ NoGap => /\ \A s \in 1..N : TeamIdAt[s] # 0 <=> s <= Len(TeamsBySlot)
                     /\ \A i \in 1..Len(TeamsBySlot) : TeamsBySlot[i] = TeamIdAt[i]
    BY <1>6
  <1>11. \A i \in 1..Len(TeamsBySlot) : \E s \in 1..N : team[s].id = TeamsBySlot[i]
    BY <1>10, <1>a
  <1> QED BY <1>0, <1>6, <1>7, <1>8, <1>9, <1>10, <1>11, <1>a, ZenonT(40)

-----------------------------------------------------------------------------
(* Every step keeps the types.                                             *)

LEMMA OneOf ==
  ASSUME TypeInv, NEW r \in Handlers
  PROVE  \E j \in Job : j = job[r] /\ Fits(pc[r], j) /\ pc[r] \in PCs
  BY DEF TypeInv, Typing

Listed(j, l, n) == [j EXCEPT !.list = l, !.slot = n]

LEMMA JobLists ==
  ASSUME NEW j \in Job, NEW l \in Seq(TeamIds), NEW n \in 0..(MaxTeams + 1)
  PROVE  /\ Listed(j, l, n) \in Job /\ Listed(j, l, n).list = l /\ Listed(j, l, n).slot = n
         /\ Listed(j, l, n).kind = j.kind /\ Listed(j, l, n).device = j.device
         /\ Listed(j, l, n).size = j.size /\ Listed(j, l, n).row = j.row
         /\ Listed(j, l, n).team = j.team /\ Listed(j, l, n).token = j.token
  BY DEF Job, Listed

LEMMA StatusTyped ==
  ASSUME Typing, NEW t, NEW b \in BOOLEAN
  PROVE  WithStatus(t, b) \in [TeamSlots -> [id : TeamIds, active : BOOLEAN]]
  BY DEF Typing, Tabled, WithStatus

LEMMA TypeReceive ==
  ASSUME TypeInv, NEW r \in Handlers, Receive(r)
  PROVE  TypeInv'
  <1>1. ASSUME NEW d \in Devices, ReceiveJoin(r, d) PROVE TypeInv'
    <2> DEFINE j == [NoJob EXCEPT !.kind = "join", !.device = d, !.size = teamCount]
    <2>1. teamCount \in 0..MaxTeams
      BY Limits DEF TypeInv, Typing, Tabled
    <2>2. j \in Job /\ j.kind = "join" /\ j.device = d
      BY <2>1, NothingTyped DEF Job, Kinds
    <2>3. Goto(r, "teams", j)
      BY <1>1 DEF ReceiveJoin
    <2> HIDE DEF j
    <2>4. Fits("teams", j)
      BY <2>2 DEF Fits, Ensuring
    <2>5. Tabled'
      BY <1>1 DEF ReceiveJoin, Tables, TypeInv, Typing, Tabled
    <2> QED BY <2>2, <2>3, <2>4, <2>5, TypeAfter, PCsAre
  <1>2. ASSUME ReceiveReset(r) PROVE TypeInv'
    <2> DEFINE j == [NoJob EXCEPT !.kind = "reset", !.size = teamCount]
    <2>1. teamCount \in 0..MaxTeams
      BY Limits DEF TypeInv, Typing, Tabled
    <2>2. j \in Job /\ j.kind = "reset"
      BY <2>1, NothingTyped DEF Job, Kinds
    <2>3. Goto(r, "teams", j)
      BY <1>2 DEF ReceiveReset
    <2> HIDE DEF j
    <2>4. Fits("teams", j)
      BY <2>2 DEF Fits, Ensuring
    <2>5. Tabled'
      BY <1>2 DEF ReceiveReset, Tables, history, TypeInv, Typing, Tabled
    <2> QED BY <2>2, <2>3, <2>4, <2>5, TypeAfter, PCsAre
  <1>3. ASSUME NEW d \in Devices, NEW k \in {"state", "profile", "select"}, NEW s \in 0..MaxTeams,
               ReceiveSession(r, d, k, s)
        PROVE  TypeInv'
    <2>1. PICK a \in rows :
            Goto(r, IF a.live THEN "touch" ELSE "drop",
                 [NoJob EXCEPT !.kind = k, !.device = d, !.slot = s, !.row = a.id, !.token = a.token, !.team = a.team])
      BY <1>3 DEF ReceiveSession
    <2> DEFINE j == [NoJob EXCEPT !.kind = k, !.device = d, !.slot = s, !.row = a.id, !.token = a.token, !.team = a.team]
               p == IF a.live THEN "touch" ELSE "drop"
    <2>2. a \in Row /\ s \in 0..(MaxTeams + 1) /\ (k = "select" => s \in TeamSlots)
      BY <1>3, Limits DEF ReceiveSession, TypeInv, Typing, Tabled, TeamSlots
    <2>3. j \in Job /\ j.kind = k /\ j.slot = s
      BY <2>2, NothingTyped DEF Job, Kinds, Row
    <2>4. p \in {"touch", "drop"}
      OBVIOUS
    <2>5. Goto(r, p, j)
      BY <2>1
    <2> HIDE DEF j, p
    <2>6. Fits(p, j)
      BY <2>2, <2>3, <2>4 DEF Fits, Ensuring
    <2>7. Tabled'
      BY <1>3 DEF ReceiveSession, Tables, history, TypeInv, Typing, Tabled
    <2> QED BY <2>3, <2>4, <2>5, <2>6, <2>7, TypeAfter, PCsAre
  <1> QED BY <1>1, <1>2, <1>3 DEF Receive

LEMMA AfterTeamsFits ==
  ASSUME NEW j, j.kind \in {"join", "reset"}, j.kind = "join" => j.device \in Devices
  PROVE  LET p == IF j.kind = "reset" THEN "wipe" ELSE "find" IN p \in PCs /\ Fits(p, j)
  BY PCsAre DEF Fits, Ensuring

LEMMA TypeTeams ==
  ASSUME TypeInv, NEW r \in Handlers, ReadTeams(r) \/ Trim(r) \/ CreateTeam(r)
  PROVE  TypeInv'
  <1>1. PICK j \in Job : j = job[r] /\ Fits(pc[r], j)
    BY OneOf
  <1>2. j.kind \in {"join", "reset"} /\ (j.kind = "join" => j.device \in Devices) /\ j.size \in 0..MaxTeams
    BY <1>1 DEF ReadTeams, Trim, CreateTeam, Fits, Ensuring, Job
  <1> DEFINE after == IF j.kind = "reset" THEN "wipe" ELSE "find"
  <1>3. AfterTeams(r) = after
    BY <1>1 DEF AfterTeams
  <1>0. MaxTeams \in Nat /\ <<>> \in Seq(TeamIds)
    BY Limits
  <1>4. CASE ReadTeams(r)
    <2>1. PICK there : there = TeamsBySlot /\ there \in Seq(TeamIds) /\ Len(there) <= MaxTeams
      BY TeamsBySlotIs DEF TypeInv, TeamIds
    <2> DEFINE n == Len(there)
               jj == Listed(j, there, n + 1)
               p == IF n > j.size THEN "trim" ELSE IF n < j.size THEN "createTeam" ELSE after
    <2>2. n \in Nat /\ n + 1 \in 0..(MaxTeams + 1)
      BY <1>0, <2>1
    <2>3. jj \in Job /\ jj.kind = j.kind /\ jj.device = j.device /\ jj.size = j.size /\ jj.slot = n + 1
      BY <2>1, <2>2, JobLists
    <2>4. Goto(r, p, jj)
      BY <1>1, <1>3, <1>4, <2>1 DEF ReadTeams, Listed
    <2>5. Tabled'
      BY <1>4 DEF ReadTeams, Tables, Environment, history, TypeInv, Typing, Tabled
    <2>6. p \in PCs /\ Fits(p, jj)
      <3> HIDE DEF jj
      <3>1. CASE p = "trim"
        BY <1>2, <2>3, <3>1, PCsAre DEF Fits, Ensuring
      <3>2. CASE p = "createTeam"
        <4>1. n + 1 \in 1..j.size
          BY <1>2, <2>2, <3>2
        <4> HIDE DEF n
        <4> QED BY <1>2, <2>3, <3>2, <4>1, PCsAre DEF Fits, Ensuring
      <3>3. CASE p = after
        BY <1>2, <2>3, <3>3, AfterTeamsFits
      <3> QED BY <3>1, <3>2, <3>3
    <2> HIDE DEF p, jj
    <2> QED BY <2>3, <2>4, <2>5, <2>6, TypeAfter
  <1> DEFINE done == Listed(j, <<>>, 0)
  <1>5. done \in Job /\ done.kind = j.kind /\ done.device = j.device
    <2>1. 0 \in 0..(MaxTeams + 1)
      BY <1>0
    <2> QED BY <1>0, <2>1, JobLists
  <1>6. after \in PCs /\ Fits(after, done)
    <2> HIDE DEF done
    <2> QED BY <1>2, <1>5, AfterTeamsFits
  <1>7. CASE Trim(r)
    <2>1. Goto(r, after, done)
      BY <1>1, <1>3, <1>7 DEF Trim, Listed
    <2>2. Tabled'
      BY <1>7, NothingTyped DEF Trim, Environment, history, TypeInv, Typing, Tabled
    <2> HIDE DEF after, done
    <2> QED BY <1>5, <1>6, <2>1, <2>2, TypeAfter
  <1>8. CASE CreateTeam(r)
    <2>1. CASE End(r) /\ UNCHANGED <<team, nextTeam>>
      <3>1. Tabled'
        BY <1>8, <2>1 DEF CreateTeam, Environment, history, TypeInv, Typing, Tabled
      <3> QED BY <2>1, <3>1, TypeEnd
    <2>2. CASE /\ team' = [team EXCEPT ![j.slot] = [id |-> nextTeam, active |-> FALSE]]
               /\ nextTeam' = nextTeam + 1
               /\ Goto(r, IF j.slot < j.size THEN "createTeam" ELSE AfterTeams(r),
                       [j EXCEPT !.list = <<>>, !.slot = IF j.slot < j.size THEN j.slot + 1 ELSE 0])
      <3>a. [id |-> nextTeam, active |-> FALSE] \in [id : TeamIds, active : BOOLEAN] /\ nextTeam + 1 \in Nat \ {0}
        BY DEF TypeInv, Typing, Tabled, TeamIds
      <3>b. team' \in [TeamSlots -> [id : TeamIds, active : BOOLEAN]] /\ nextTeam' \in Nat \ {0}
        BY <2>2, <3>a DEF TypeInv, Typing, Tabled
      <3>1. Tabled'
        BY <1>8, <3>b DEF CreateTeam, Environment, history, TypeInv, Typing, Tabled
      <3>2. CASE j.slot < j.size
        <4> DEFINE more == Listed(j, <<>>, j.slot + 1)
        <4>1. j.slot \in 1..j.size
          BY <1>1, <1>8 DEF CreateTeam, Fits
        <4>b. j.slot + 1 \in 0..(MaxTeams + 1)
          BY <1>0, <1>2, <3>2, <4>1
        <4>2. more \in Job /\ more.kind = j.kind /\ more.device = j.device /\ more.slot = j.slot + 1 /\ more.size = j.size
          BY <1>0, <4>b, JobLists
        <4>3. Goto(r, "createTeam", more)
          BY <2>2, <3>2 DEF Listed
        <4>a. j.slot + 1 \in 1..j.size
          BY <1>2, <3>2, <4>1
        <4> HIDE DEF more
        <4>4. Fits("createTeam", more)
          BY <1>2, <4>a, <4>2 DEF Fits, Ensuring
        <4> QED BY <3>1, <4>2, <4>3, <4>4, TypeAfter, PCsAre
      <3>3. CASE ~(j.slot < j.size)
        <4>1. Goto(r, after, done)
          BY <1>3, <2>2, <3>3 DEF Listed
        <4> HIDE DEF after, done
        <4> QED BY <1>5, <1>6, <3>1, <4>1, TypeAfter
      <3> QED BY <3>2, <3>3
    <2> QED BY <1>1, <1>8, <2>1, <2>2 DEF CreateTeam
  <1> QED BY <1>4, <1>7, <1>8

\* A device that has sessions has a newest one.
LEMMA NewestIs ==
  ASSUME Tabled, \A a \in rows : a.id < nextId, NEW d, RowsOf(d) # {}
  PROVE  Newest(d) \in RowsOf(d) /\ \A b \in RowsOf(d) : b.id <= Newest(d).id
  <1> DEFINE Ages == {nextId - a.id : a \in RowsOf(d)}
  <1>1. \A a \in RowsOf(d) : a.id \in Nat /\ a.id < nextId
    BY DEF RowsOf, Tabled, Row, Ids
  <1>2. Ages \subseteq Nat /\ Ages # {}
    BY <1>1 DEF Tabled
  <1>3. PICK n \in Ages : \A m \in Ages : n <= m
    <2> HIDE DEF Ages
    <2> QED BY <1>2, Least
  <1>4. PICK a \in RowsOf(d) : n = nextId - a.id
    BY <1>3
  <1>5. \A b \in RowsOf(d) : b.id <= a.id
    <2> TAKE b \in RowsOf(d)
    <2>1. nextId - a.id <= nextId - b.id
      BY <1>3, <1>4
    <2> QED BY <1>1, <2>1 DEF Tabled
  <1> QED BY <1>4, <1>5 DEF Newest

Fresh(a, token) == [a EXCEPT !.token = IF token = 0 THEN @ ELSE token, !.live = TRUE]

LEMMA FreshIs ==
  ASSUME NEW a \in Row, NEW token \in Ids
  PROVE  /\ Fresh(a, token) \in Row /\ Fresh(a, token).live
         /\ Fresh(a, token).token = IF token = 0 THEN a.token ELSE token
         /\ Fresh(a, token).id = a.id /\ Fresh(a, token).device = a.device /\ Fresh(a, token).team = a.team
  BY DEF Fresh, Row

LEMMA RenewTyped ==
  ASSUME Tabled, NEW r, NEW token \in Ids, Renew(r, token)
  PROVE  rows' \subseteq Row /\ contested' \subseteq TeamIds
  <1>1. rows' = (rows \ RowById(job[r].row)) \cup {Fresh(a, token) : a \in RowById(job[r].row)}
    BY DEF Renew, Fresh
  <1>2. RowById(job[r].row) \subseteq rows /\ rows \subseteq Row
    BY DEF RowById, Tabled
  <1>3. rows' \subseteq Row
    BY <1>1, <1>2, FreshIs
  <1>4. contested' \subseteq contested \cup {a.team : a \in RowById(job[r].row)}
    BY DEF Renew
  <1>5. {a.team : a \in RowById(job[r].row)} \subseteq TeamIds
    BY <1>2 DEF Row
  <1> QED BY <1>3, <1>4, <1>5 DEF Tabled

LEMMA TypeFind ==
  ASSUME TypeInv, \A a \in rows : a.id < nextId, NEW r \in Handlers, FindRow(r) \/ Rotate(r)
  PROVE  TypeInv'
  <1>1. PICK j \in Job : j = job[r] /\ Fits(pc[r], j)
    BY OneOf
  <1>2. j.kind = "join" /\ j.device \in Devices
    BY <1>1 DEF FindRow, Rotate, Fits
  <1>0. MaxTeams \in Nat /\ <<>> \in Seq(TeamIds) /\ 0 \in 0..(MaxTeams + 1)
    BY Limits
  <1>3. CASE FindRow(r)
    <2>1. Tabled'
      BY <1>3 DEF FindRow, Tables, Environment, history, TypeInv, Typing, Tabled
    <2>2. CASE RowsOf(j.device) # {}
      <3>1. PICK a : a = Newest(j.device) /\ a \in Row
        BY <2>2, NewestIs DEF TypeInv, Typing, Tabled, RowsOf
      <3> DEFINE p == IF a.live THEN "rotate" ELSE "place"
                 jj == [j EXCEPT !.list = <<>>, !.slot = 0, !.row = a.id, !.team = a.team]
      <3>2. jj \in Job /\ jj.kind = j.kind /\ jj.device = j.device
        BY <1>0, <3>1 DEF Job, Row
      <3>3. Goto(r, p, jj)
        BY <1>1, <1>3, <2>2, <3>1 DEF FindRow
      <3>4. p \in {"rotate", "place"}
        OBVIOUS
      <3> HIDE DEF p, jj
      <3>5. Fits(p, jj)
        BY <1>2, <3>2, <3>4 DEF Fits, Ensuring
      <3> QED BY <2>1, <3>2, <3>3, <3>4, <3>5, TypeAfter, PCsAre
    <2>3. CASE RowsOf(j.device) = {}
      <3>1. Goto(r, "place", Listed(j, <<>>, 0))
        BY <1>1, <1>3, <2>3 DEF FindRow, Listed
      <3>2. Listed(j, <<>>, 0) \in Job /\ Fits("place", Listed(j, <<>>, 0))
        BY <1>0, <1>2, JobLists DEF Fits, Ensuring
      <3> QED BY <2>1, <3>1, <3>2, TypeAfter, PCsAre
    <2> QED BY <2>2, <2>3
  <1>4. CASE Rotate(r)
    <2>1. rows' \subseteq Row /\ contested' \subseteq TeamIds
      BY <1>4, RenewTyped DEF Rotate, TypeInv, Typing, Tabled, Ids
    <2>2. Tabled'
      BY <1>4, <2>1 DEF Rotate, Environment, TypeInv, Typing, Tabled
    <2>3. CASE RowById(j.row) # {}
      <3> DEFINE jj == [j EXCEPT !.token = nextId]
      <3>1. jj \in Job /\ jj.kind = j.kind /\ jj.device = j.device
        BY DEF Job, TypeInv, Typing, Tabled, Ids
      <3>2. Goto(r, "answer", jj)
        BY <1>1, <1>4, <2>3 DEF Rotate
      <3> HIDE DEF jj
      <3>3. Fits("answer", jj)
        BY <1>2, <3>1 DEF Fits, Ensuring
      <3> QED BY <2>2, <3>1, <3>2, <3>3, TypeAfter, PCsAre
    <2>4. CASE RowById(j.row) = {}
      BY <1>1, <1>4, <2>2, <2>4, TypeEnd DEF Rotate
    <2> QED BY <2>3, <2>4
  <1> QED BY <1>3, <1>4

LEMMA TypePlace ==
  ASSUME TypeInv, NEW r \in Handlers, Place(r) \/ Probe(r)
  PROVE  TypeInv'
  <1>1. PICK j \in Job : j = job[r] /\ Fits(pc[r], j)
    BY OneOf
  <1>2. j.kind = "join" /\ j.device \in Devices
    BY <1>1 DEF Place, Probe, Fits
  <1>0. MaxTeams \in Nat /\ <<>> \in Seq(TeamIds) /\ 0 \in 0..(MaxTeams + 1) /\ 1 \in 0..(MaxTeams + 1)
    BY Limits
  <1>3. CASE Place(r)
    <2>1. PICK there : there = TeamsBySlot /\ there \in Seq(TeamIds) /\ Len(there) <= MaxTeams
      BY TeamsBySlotIs DEF TypeInv, TeamIds
    <2>2. Tabled'
      BY <1>3 DEF Place, Tables, Environment, history, TypeInv, Typing, Tabled
    <2>3. CASE there = <<>>
      BY <1>3, <2>1, <2>2, <2>3, TypeEnd DEF Place
    <2>4. CASE there # <<>> /\ j.row # 0
      <3> DEFINE mine == IF j.team \in ToSet(there) THEN j.team ELSE there[1]
                 jj == [j EXCEPT !.team = mine]
      <3>1. mine \in TeamIds
        BY <2>1, <2>4 DEF Job
      <3>2. jj \in Job /\ jj.kind = j.kind /\ jj.device = j.device
        <4> HIDE DEF mine
        <4> QED BY <3>1 DEF Job
      <3>3. Goto(r, "joinRivals", jj)
        BY <1>1, <1>3, <2>1, <2>4 DEF Place
      <3> HIDE DEF jj
      <3>4. Fits("joinRivals", jj)
        BY <1>2, <3>2 DEF Fits, Ensuring
      <3> QED BY <2>2, <3>2, <3>3, <3>4, TypeAfter, PCsAre
    <2>5. CASE there # <<>> /\ j.row = 0
      <3>1. Goto(r, "probe", Listed(j, there, 1))
        BY <1>1, <1>3, <2>1, <2>5 DEF Place, Listed
      <3>2. 1 \in 1..Len(there)
        BY <2>1, <2>5
      <3>3. Listed(j, there, 1) \in Job /\ Fits("probe", Listed(j, there, 1))
        BY <1>0, <1>2, <2>1, <3>2, JobLists DEF Fits, Ensuring
      <3> QED BY <2>2, <3>1, <3>3, TypeAfter, PCsAre
    <2> QED BY <2>3, <2>4, <2>5
  <1>4. CASE Probe(r)
    <2>1. j.slot \in 1..Len(j.list) /\ Len(j.list) <= MaxTeams /\ j.list \in Seq(TeamIds)
      BY <1>1, <1>4 DEF Probe, Fits, Job
    <2> DEFINE t == j.list[j.slot]
               free == LiveOn(t) = {}
               last == j.slot = Len(j.list)
               chosen == IF free THEN t ELSE j.list[1]
    <2>2. t \in TeamIds /\ chosen \in TeamIds
      BY <2>1
    <2>3. Tabled'
      <3>1. contested' = IF last /\ ~free THEN contested \cup {chosen} ELSE contested
        BY <1>1, <1>4 DEF Probe
      <3>2. contested' \subseteq TeamIds
        <4> HIDE DEF chosen, last, free
        <4> QED BY <2>2, <3>1 DEF TypeInv, Typing, Tabled
      <3> QED BY <1>4, <3>2 DEF Probe, Tables, Environment, TypeInv, Typing, Tabled
    <2>4. CASE free \/ last
      <3> DEFINE jj == [j EXCEPT !.team = chosen, !.list = <<>>, !.slot = 0]
      <3>1. jj \in Job /\ jj.kind = j.kind /\ jj.device = j.device
        <4> HIDE DEF chosen
        <4> QED BY <1>0, <2>2 DEF Job
      <3>2. Goto(r, "create", jj)
        BY <1>1, <1>4, <2>4 DEF Probe
      <3> HIDE DEF jj
      <3>3. Fits("create", jj)
        BY <1>2, <3>1 DEF Fits, Ensuring
      <3> QED BY <2>3, <3>1, <3>2, <3>3, TypeAfter, PCsAre
    <2>5. CASE ~(free \/ last)
      <3> DEFINE jj == [j EXCEPT !.slot = j.slot + 1]
      <3>1. j.slot + 1 \in 1..Len(j.list) /\ j.slot + 1 \in 0..(MaxTeams + 1)
        BY <1>0, <2>1, <2>5
      <3>2. jj \in Job /\ jj.kind = j.kind /\ jj.device = j.device /\ jj.slot = j.slot + 1 /\ jj.list = j.list
        BY <3>1 DEF Job
      <3>3. Goto(r, "probe", jj)
        BY <1>1, <1>4, <2>5 DEF Probe
      <3> HIDE DEF jj
      <3>4. Fits("probe", jj)
        BY <1>2, <2>1, <3>1, <3>2 DEF Fits, Ensuring
      <3> QED BY <2>3, <3>2, <3>3, <3>4, TypeAfter, PCsAre
    <2> QED BY <2>4, <2>5
  <1> QED BY <1>3, <1>4

\* Who is found on a team are ids of rows.
LEMMA TypeSeat ==
  ASSUME TypeInv, NEW r \in Handlers, JoinRivals(r) \/ Oust(r) \/ Clear(r)
  PROVE  TypeInv'
  <1>1. PICK j \in Job : j = job[r] /\ Fits(pc[r], j)
    BY OneOf
  <1>2. CASE JoinRivals(r)
    <2> DEFINE others == {a.id : a \in {b \in LiveOn(j.team) : b.device # j.device}}
               jj == [j EXCEPT !.found = others]
               p == IF others # {} THEN "oust" ELSE "clear"
    <2>1. others \in SUBSET Ids
      BY DEF LiveOn, TypeInv, Typing, Tabled, Row
    <2>2. Goto(r, p, jj)
      BY <1>1, <1>2 DEF JoinRivals
    <2>3. j.kind = "join" /\ j.device \in Devices
      BY <1>1, <1>2 DEF JoinRivals, Fits
    <2>4. p \in {"oust", "clear"}
      OBVIOUS
    <2>5. Tabled'
      BY <1>2 DEF JoinRivals, Tables, Environment, history, TypeInv, Typing, Tabled
    <2> HIDE DEF others, p
    <2>6. jj \in Job /\ jj.kind = j.kind /\ jj.device = j.device
      BY <2>1 DEF Job
    <2> HIDE DEF jj
    <2>7. Fits(p, jj)
      BY <2>3, <2>4, <2>6 DEF Fits, Ensuring
    <2> QED BY <2>2, <2>4, <2>5, <2>6, <2>7, TypeAfter, PCsAre
  <1>3. CASE Oust(r)
    <2> DEFINE jj == [j EXCEPT !.found = {}]
               p == IF j.kind = "join" THEN "clear" ELSE "move"
    <2>1. Goto(r, p, jj)
      BY <1>1, <1>3 DEF Oust
    <2>2. j.kind \in {"join", "select"} /\ (j.kind = "join" => j.device \in Devices)
      BY <1>1, <1>3 DEF Oust, Fits
    <2>3. jj \in Job /\ jj.kind = j.kind /\ jj.device = j.device
      BY DEF Job
    <2>4. Tabled'
      BY <1>3 DEF Oust, Environment, history, TypeInv, Typing, Tabled
    <2> HIDE DEF jj
    <2>5. p \in PCs /\ Fits(p, jj)
      BY <2>2, <2>3, PCsAre DEF Fits, Ensuring
    <2> QED BY <2>1, <2>3, <2>4, <2>5, TypeAfter
  <1>4. CASE Clear(r)
    <2>1. Goto(r, "create", j)
      BY <1>1, <1>4 DEF Clear
    <2>2. Fits("create", j)
      BY <1>1, <1>4 DEF Clear, Fits, Ensuring
    <2>3. Tabled'
      BY <1>4 DEF Clear, Environment, history, TypeInv, Typing, Tabled
    <2> QED BY <2>1, <2>2, <2>3, TypeAfter, PCsAre
  <1> QED BY <1>2, <1>3, <1>4

LEMMA TypeCreate ==
  ASSUME TypeInv, NEW r \in Handlers, CreateRow(r) \/ Activate(r) \/ Answer(r)
  PROVE  TypeInv'
  <1>1. PICK j \in Job : j = job[r] /\ Fits(pc[r], j)
    BY OneOf
  <1>2. CASE CreateRow(r)
    <2>1. j.kind = "join" /\ j.device \in Devices
      BY <1>1, <1>2 DEF CreateRow, Fits
    <2> DEFINE new == [id |-> nextId, device |-> j.device, team |-> j.team, live |-> TRUE, token |-> nextId]
    <2>2. new \in Row
      BY <2>1 DEF Row, Job, TypeInv, Typing, Tabled, Ids
    <2>3. rows' \in {rows \cup {new}, rows} /\ nextId' \in {nextId, nextId + 1} /\ contested' \in {contested \cup {j.team}, contested}
      BY <1>1, <1>2 DEF CreateRow
    <2>4. Tabled'
      <3> HIDE DEF new
      <3>1. j.team \in TeamIds
        BY DEF Job
      <3>2. rows' \subseteq Row /\ nextId' \in Nat \ {0} /\ contested' \subseteq TeamIds
        BY <2>2, <2>3, <3>1 DEF TypeInv, Typing, Tabled
      <3> QED BY <1>2, <3>2 DEF CreateRow, Environment, TypeInv, Typing, Tabled
    <2>5. CASE SlotsOf(j.team) # {}
      <3> DEFINE jj == [j EXCEPT !.row = nextId, !.token = nextId]
      <3>1. jj \in Job /\ jj.kind = j.kind /\ jj.device = j.device
        BY DEF Job, TypeInv, Typing, Tabled, Ids
      <3>2. Goto(r, "activate", jj)
        BY <1>1, <1>2, <2>5 DEF CreateRow
      <3> HIDE DEF jj
      <3>3. Fits("activate", jj)
        BY <2>1, <3>1 DEF Fits, Ensuring
      <3> QED BY <2>4, <3>1, <3>2, <3>3, TypeAfter, PCsAre
    <2>6. CASE SlotsOf(j.team) = {}
      BY <1>1, <1>2, <2>4, <2>6, TypeEnd DEF CreateRow
    <2> QED BY <2>5, <2>6
  <1>3. CASE Activate(r)
    <2>1. Tabled'
      BY <1>3, StatusTyped DEF Activate, Environment, history, TypeInv, Typing, Tabled
    <2>2. CASE End(r)
      BY <2>1, <2>2, TypeEnd
    <2>3. CASE Goto(r, "answer", j) /\ j.kind = "join"
      <3>1. Fits("answer", j)
        BY <1>1, <2>3 DEF Fits, Ensuring
      <3> QED BY <2>1, <2>3, <3>1, TypeAfter, PCsAre
    <2> QED BY <1>1, <1>3, <2>2, <2>3 DEF Activate
  <1>4. CASE Answer(r)
    <2>1. j.device \in Devices /\ j.token \in Ids
      BY <1>1, <1>4 DEF Answer, Fits, Job
    <2>2. Tabled'
      BY <1>1, <1>4, <2>1 DEF Answer, Tables, TypeInv, Typing, Tabled
    <2> QED BY <1>4, <2>2, TypeEnd DEF Answer
  <1> QED BY <1>2, <1>3, <1>4

LEMMA TypeSession ==
  ASSUME TypeInv, NEW r \in Handlers,
         Drop(r) \/ Touch(r) \/ WriteProfile(r) \/ SelectRivals(r) \/ Move(r) \/ Release(r)
  PROVE  TypeInv'
  <1>1. PICK j \in Job : j = job[r] /\ Fits(pc[r], j)
    BY OneOf
  <1>2. CASE Drop(r)
    <2>1. Tabled'
      BY <1>2 DEF Drop, Environment, history, TypeInv, Typing, Tabled
    <2> QED BY <1>2, <2>1, TypeEnd DEF Drop
  <1>3. CASE Touch(r)
    <2>1. rows' \subseteq Row /\ contested' \subseteq TeamIds
      BY <1>3, RenewTyped DEF Touch, TypeInv, Typing, Tabled, Ids
    <2>2. Tabled'
      BY <1>3, <2>1 DEF Touch, Environment, TypeInv, Typing, Tabled
    <2>3. CASE End(r)
      BY <2>2, <2>3, TypeEnd
    <2>4. CASE Goto(r, IF j.kind = "select" THEN "rivals" ELSE "profile", j) /\ j.kind # "state"
      <3> DEFINE p == IF j.kind = "select" THEN "rivals" ELSE "profile"
      <3>1. p \in PCs /\ Fits(p, j)
        BY <1>1, <1>3, <2>4, PCsAre DEF Touch, Fits, Ensuring
      <3> QED BY <2>2, <2>4, <3>1, TypeAfter
    <2> QED BY <1>1, <1>3, <2>3, <2>4 DEF Touch
  <1>4. CASE WriteProfile(r)
    <2>1. Tabled'
      BY <1>4, StatusTyped DEF WriteProfile, Environment, history, TypeInv, Typing, Tabled
    <2> QED BY <1>4, <2>1, TypeEnd DEF WriteProfile
  <1>5. CASE SelectRivals(r)
    <2>1. Tabled'
      BY <1>5 DEF SelectRivals, Tables, Environment, history, TypeInv, Typing, Tabled
    <2>2. j.kind = "select" /\ j.slot \in TeamSlots /\ team[j.slot].id \in TeamIds
      BY <1>1, <1>5 DEF SelectRivals, Fits, TypeInv, Typing, Tabled
    <2>3. CASE End(r)
      BY <2>1, <2>3, TypeEnd
    <2> DEFINE t == team[j.slot].id
               others == {a.id : a \in {b \in LiveOn(t) : b.id # j.row}}
               jj == [j EXCEPT !.found = others, !.old = j.team, !.team = t]
               p == IF others # {} THEN "oust" ELSE "move"
    <2>4. CASE Goto(r, p, jj)
      <3>1. others \in SUBSET Ids /\ t \in TeamIds
        BY <2>2 DEF LiveOn, TypeInv, Typing, Tabled, Row
      <3>2. p \in {"oust", "move"}
        OBVIOUS
      <3> HIDE DEF others, p, t
      <3>3. jj \in Job /\ jj.kind = j.kind
        BY <3>1 DEF Job
      <3> HIDE DEF jj
      <3>4. Fits(p, jj)
        BY <2>2, <3>2, <3>3 DEF Fits, Ensuring
      <3> QED BY <2>1, <2>4, <3>2, <3>3, <3>4, TypeAfter, PCsAre
    <2> QED BY <1>1, <1>5, <2>3, <2>4 DEF SelectRivals
  <1>6. CASE Move(r)
    <2>1. j.team \in TeamIds
      BY DEF Job
    <2>a. rows' \in {rows, (rows \ RowById(j.row)) \cup {[a EXCEPT !.team = j.team, !.live = TRUE] : a \in RowById(j.row)}}
          /\ contested' \in {contested, contested \cup {j.team}}
      BY <1>1, <1>6 DEF Move
    <2>b. \A a \in Row : [a EXCEPT !.team = j.team, !.live = TRUE] \in Row
      BY <2>1 DEF Row
    <2>c. RowById(j.row) \subseteq rows /\ rows \subseteq Row /\ contested \subseteq TeamIds
      BY DEF RowById, TypeInv, Typing, Tabled
    <2>2. rows' \subseteq Row /\ contested' \subseteq TeamIds
      BY <2>1, <2>a, <2>b, <2>c
    <2>3. Tabled'
      BY <1>6, <2>2 DEF Move, Environment, TypeInv, Typing, Tabled
    <2>4. Fits("release", j)
      BY <1>1, <1>6 DEF Move, Fits, Ensuring
    <2>5. Goto(r, "release", j) \/ End(r)
      BY <1>1, <1>6 DEF Move
    <2> QED BY <2>3, <2>4, <2>5, TypeAfter, TypeEnd, PCsAre
  <1>7. CASE Release(r)
    <2>1. Tabled'
      BY <1>7, StatusTyped DEF Release, Environment, history, TypeInv, Typing, Tabled
    <2>2. Fits("activate", j)
      BY <1>1, <1>7 DEF Release, Fits, Ensuring
    <2>3. Goto(r, "activate", j) \/ End(r)
      BY <1>1, <1>7 DEF Release
    <2> QED BY <2>1, <2>2, <2>3, TypeAfter, TypeEnd, PCsAre
  <1> QED BY <1>2, <1>3, <1>4, <1>5, <1>6, <1>7

LEMMA TypeReset ==
  ASSUME TypeInv, NEW r \in Handlers, Wipe(r) \/ ZeroTeams(r)
  PROVE  TypeInv'
  <1>1. PICK j \in Job : j = job[r] /\ Fits(pc[r], j)
    BY OneOf
  <1>2. CASE Wipe(r)
    <2>1. Goto(r, "zero", j) /\ Fits("zero", j)
      BY <1>1, <1>2 DEF Wipe, Fits, Ensuring
    <2>2. Tabled'
      BY <1>2 DEF Wipe, Environment, history, TypeInv, Typing, Tabled
    <2> QED BY <2>1, <2>2, TypeAfter, PCsAre
  <1>3. CASE ZeroTeams(r)
    <2>1. Tabled'
      BY <1>3 DEF ZeroTeams, Environment, history, TypeInv, Typing, Tabled
    <2> QED BY <1>3, <2>1, TypeEnd DEF ZeroTeams
  <1> QED BY <1>2, <1>3

LEMMA TypeOutside ==
  ASSUME TypeInv, Resize \/ (\E a \in rows : Expire(a)) \/ UNCHANGED vars
  PROVE  TypeInv'
  <1>1. CASE Resize
    BY <1>1 DEF Resize, TypeInv, Typing, Tabled
  <1>2. ASSUME NEW a \in rows, Expire(a) PROVE TypeInv'
    <2>1. [a EXCEPT !.live = FALSE] \in Row
      BY DEF TypeInv, Typing, Tabled, Row
    <2> QED BY <1>2, <2>1 DEF Expire, history, TypeInv, Typing, Tabled
  <1>3. CASE UNCHANGED vars
    BY <1>3 DEF vars, history, counts, TypeInv, Typing, Tabled
  <1> QED BY <1>1, <1>2, <1>3

-----------------------------------------------------------------------------
(* The keys of the rows, and who the ids and tokens in use belong to.      *)

RowsKeyed ==
  /\ \A a \in rows : 0 < a.id /\ a.id < nextId /\ 0 < a.token /\ a.token < nextId
  /\ \A a, b \in rows : a.token = b.token \/ a.id = b.id => a = b
TeamsExist == \A a \in rows : SlotsOf(a.team) # {}

\* Handlers and phones keep ids and tokens of rows that may be gone, but never of another
\* device.
Owns(r) ==
  /\ job[r].row < nextId /\ job[r].token < nextId
  /\ \A a \in rows : a.id = job[r].row \/ a.token = job[r].token => a.device = job[r].device
PhoneOwns(d) == phone[d] < nextId /\ \A a \in rows : a.token = phone[d] => a.device = d

KeyInv == RowsKeyed /\ TeamsExist /\ (\A r \in Handlers : Owns(r)) /\ \A d \in Devices : PhoneOwns(d)

\* What a statement does to the rows.
Shrunk == rows' \subseteq rows /\ nextId' = nextId
Replaced(x, y) ==
  /\ x \in rows /\ y \in Row /\ y.id = x.id /\ y.device = x.device
  /\ rows' = (rows \ {x}) \cup {y}
  /\ \/ y.token = x.token /\ nextId' = nextId
     \/ y.token = nextId /\ nextId' = nextId + 1
Added(y) ==
  /\ y \in Row /\ y.id = nextId /\ y.token = nextId
  /\ rows' = rows \cup {y} /\ nextId' = nextId + 1
Effect == Shrunk \/ (\E x, y : Replaced(x, y)) \/ \E y : Added(y)

LEMMA ById ==
  ASSUME RowsKeyed, NEW i, RowById(i) # {}
  PROVE  \E x \in rows : x.id = i /\ RowById(i) = {x}
  BY DEF RowsKeyed, RowById

LEMMA Numbers ==
  ASSUME Typing
  PROVE  /\ nextId \in Nat /\ nextId > 0
         /\ \A a \in rows : a.id \in Nat /\ a.token \in Nat /\ a.team \in Nat /\ a.device \in Devices
         /\ \A r \in Handlers : job[r].row \in Nat /\ job[r].token \in Nat
         /\ \A d \in Devices : phone[d] \in Nat
  BY DEF Typing, Tabled, Row, Job, Ids, TeamIds

LEMMA RowsStayKeyed ==
  ASSUME Typing, RowsKeyed, Effect
  PROVE  RowsKeyed' /\ nextId' \in Nat /\ nextId' >= nextId
  <1>0. nextId \in Nat /\ nextId > 0 /\ \A a \in rows : a.id \in Nat /\ a.token \in Nat
    BY Numbers
  <1>1. CASE Shrunk
    BY <1>0, <1>1 DEF Shrunk, RowsKeyed
  <1>2. ASSUME NEW x, NEW y, Replaced(x, y) PROVE RowsKeyed' /\ nextId' \in Nat /\ nextId' >= nextId
    <2>1. y.id \in Nat /\ y.token \in Nat
      BY <1>2 DEF Replaced, Row, Ids
    <2>2. /\ x \in rows /\ y.id = x.id /\ rows' = (rows \ {x}) \cup {y}
          /\ (y.token = x.token /\ nextId' = nextId) \/ (y.token = nextId /\ nextId' = nextId + 1)
      BY <1>2 DEF Replaced
    <2>3. \A a \in rows \ {x} : a.id # y.id /\ a.token # y.token
      BY <1>0, <2>2 DEF RowsKeyed
    <2>4. 0 < y.id /\ y.id < nextId' /\ 0 < y.token /\ y.token < nextId'
      BY <1>0, <2>1, <2>2 DEF RowsKeyed
    <2>5. \A a \in rows : 0 < a.id /\ a.id < nextId' /\ 0 < a.token /\ a.token < nextId'
      BY <1>0, <2>2 DEF RowsKeyed
    <2>6. \A a, b \in rows' : a.token = b.token \/ a.id = b.id => a = b
      BY <2>2, <2>3 DEF RowsKeyed
    <2> QED BY <1>0, <2>2, <2>4, <2>5, <2>6 DEF RowsKeyed
  <1>3. ASSUME NEW y, Added(y) PROVE RowsKeyed' /\ nextId' \in Nat /\ nextId' >= nextId
    <2>1. \A a \in rows : a.id # y.id /\ a.token # y.token
      BY <1>0, <1>3 DEF Added, RowsKeyed
    <2> QED BY <1>0, <1>3, <2>1 DEF Added, RowsKeyed
  <1> QED BY <1>1, <1>2, <1>3 DEF Effect

\* Every row of the next state is one of this one as far as ids go, or is new.
LEMMA RowsCome ==
  ASSUME Effect, NEW a \in rows'
  PROVE  \/ \E b \in rows : /\ b.id = a.id /\ b.device = a.device
                            /\ a.token = b.token \/ (a.token = nextId /\ nextId' = nextId + 1)
         \/ (a.id = nextId /\ a.token = nextId /\ nextId' = nextId + 1)
  <1>1. CASE a \in rows
    BY <1>1
  <1>2. CASE a \notin rows
    <2>1. CASE \E y : Added(y)
      BY <1>2, <2>1 DEF Added
    <2>2. ASSUME NEW x, NEW y, Replaced(x, y)
          PROVE  \E b \in rows : /\ b.id = a.id /\ b.device = a.device
                                 /\ a.token = b.token \/ (a.token = nextId /\ nextId' = nextId + 1)
      <3>1. a = y /\ x \in rows /\ x.id = y.id /\ x.device = y.device
        BY <1>2, <2>2 DEF Replaced
      <3>2. y.token = x.token \/ (y.token = nextId /\ nextId' = nextId + 1)
        BY <2>2 DEF Replaced
      <3> QED BY <3>1, <3>2
    <2>3. ~Shrunk
      BY <1>2 DEF Shrunk
    <2> QED BY <2>1, <2>2, <2>3 DEF Effect
  <1> QED BY <1>1, <1>2

JobKept(q) ==
  /\ job'[q].row = job[q].row /\ job'[q].token = job[q].token
  /\ job'[q].device = job[q].device /\ job'[q].kind = job[q].kind

LEMMA Carry ==
  ASSUME Typing, KeyInv, Effect, TeamsExist',
         \A q \in Handlers : JobKept(q) \/ job'[q] = NoJob \/ Owns(q)',
         \A d \in Devices : phone'[d] = phone[d] \/ PhoneOwns(d)'
  PROVE  KeyInv'
  <1>0. nextId \in Nat /\ nextId > 0 /\ \A a \in rows : a.id \in Nat /\ a.token \in Nat
    BY Numbers
  <1>1. RowsKeyed' /\ nextId' \in Nat /\ nextId' >= nextId
    BY RowsStayKeyed DEF KeyInv
  <1>2. ASSUME NEW q \in Handlers PROVE Owns(q)'
    <2>1. CASE JobKept(q)
      <3>1. /\ job[q].row < nextId /\ job[q].token < nextId
            /\ job[q].row \in Nat /\ job[q].token \in Nat
        BY Numbers DEF KeyInv, Owns
      <3>2. ASSUME NEW a \in rows', a.id = job[q].row \/ a.token = job[q].token
            PROVE  a.device = job[q].device
        <4>1. a.id # nextId \/ a.token # nextId
          BY <1>0, <3>1, <3>2
        <4>2. PICK b \in rows : /\ b.id = a.id /\ b.device = a.device
                                /\ a.token = b.token \/ a.token = nextId
          BY <4>1, RowsCome, <3>1, <3>2, <1>0
        <4>3. b.id = job[q].row \/ b.token = job[q].token
          BY <4>2, <3>1, <3>2, <1>0
        <4> QED BY <4>2, <4>3 DEF KeyInv, Owns
      <3> QED BY <1>0, <1>1, <2>1, <3>1, <3>2 DEF Owns, JobKept
    <2>2. CASE job'[q] = NoJob
      <3>1. job'[q].row = 0 /\ job'[q].token = 0
        BY <2>2 DEF NoJob
      <3> QED BY <1>0, <1>1, <3>1 DEF Owns, RowsKeyed
    <2> QED BY <2>1, <2>2
  <1>3. ASSUME NEW d \in Devices PROVE PhoneOwns(d)'
    <2>1. CASE phone'[d] = phone[d]
      <3>1. phone[d] < nextId /\ phone[d] \in Nat
        BY Numbers DEF KeyInv, PhoneOwns
      <3>2. ASSUME NEW a \in rows', a.token = phone[d] PROVE a.device = d
        <4>1. PICK b \in rows : b.device = a.device /\ a.token = b.token
          BY RowsCome, <3>1, <3>2, <1>0
        <4> QED BY <3>2, <4>1 DEF KeyInv, PhoneOwns
      <3> QED BY <1>0, <1>1, <2>1, <3>1, <3>2 DEF PhoneOwns
    <2> QED BY <2>1
  <1> QED BY <1>1, <1>2, <1>3 DEF KeyInv

\* The slots keep their teams but for one that is added; then every row keeps its team.
LEMMA TeamsStay ==
  ASSUME Typing, TeamsExist,
         \A s \in TeamSlots : team'[s].id = team[s].id \/ team[s].id = 0,
         \A a \in rows' : (\E b \in rows : b.team = a.team) \/ SlotsOf(a.team) # {}
  PROVE  TeamsExist'
  <1> SUFFICES ASSUME NEW a \in rows' PROVE SlotsOf(a.team)' # {}
    BY DEF TeamsExist
  <1>1. SlotsOf(a.team) # {}
    BY DEF TeamsExist
  <1>2. PICK s \in TeamSlots : a.team # 0 /\ team[s].id = a.team
    BY <1>1 DEF SlotsOf
  <1>3. team'[s].id = a.team
    BY <1>2
  <1> QED BY <1>2, <1>3 DEF SlotsOf

LEMMA StatusIds ==
  ASSUME Typing, NEW t, NEW b, team' = WithStatus(t, b)
  PROVE  \A s \in TeamSlots : team'[s].id = team[s].id
  <1> TAKE s \in TeamSlots
  <1>1. team[s] \in [id : TeamIds, active : BOOLEAN]
    BY DEF Typing, Tabled
  <1>2. team'[s] = IF s \in SlotsOf(t) THEN [team[s] EXCEPT !.active = b] ELSE team[s]
    BY DEF WithStatus
  <1> QED BY <1>1, <1>2

\* The handlers that go on with the session they have, or end.
LEMMA JobsGo ==
  ASSUME TypeInv, NEW r \in Handlers, NEW p, NEW j, Goto(r, p, j),
         \/ j.row = job[r].row /\ j.token = job[r].token /\ j.device = job[r].device /\ j.kind = job[r].kind
         \/ j = NoJob
  PROVE  \A q \in Handlers : JobKept(q) \/ job'[q] = NoJob
  <1>1. \A q \in Handlers : job'[q] = IF q = r THEN j ELSE job[q]
    BY DEF Goto, TypeInv, Typing
  <1> QED BY <1>1 DEF JobKept

LEMMA JobsEnd ==
  ASSUME TypeInv, NEW r \in Handlers, End(r)
  PROVE  \A q \in Handlers : JobKept(q) \/ job'[q] = NoJob
  BY JobsGo DEF End

Still(r) ==
  \/ ReadTeams(r) \/ Trim(r) \/ CreateTeam(r) \/ Place(r) \/ Probe(r) \/ JoinRivals(r) \/ Oust(r) \/ Clear(r)
  \/ Activate(r) \/ Answer(r) \/ Drop(r) \/ Touch(r) \/ WriteProfile(r) \/ SelectRivals(r)
  \/ Move(r) \/ Release(r) \/ Wipe(r) \/ ZeroTeams(r)

LEMMA StillKeeps ==
  ASSUME TypeInv, NEW r \in Handlers, Still(r)
  PROVE  \A q \in Handlers : JobKept(q) \/ job'[q] = NoJob
  <1>1. PICK j \in Job : j = job[r]
    BY OneOf
  <1>2. ASSUME NEW p, Goto(r, p, j) PROVE \A q \in Handlers : JobKept(q) \/ job'[q] = NoJob
    BY <1>1, <1>2, JobsGo
  <1>3. ASSUME NEW p, NEW l, NEW n, Goto(r, p, [j EXCEPT !.list = l, !.slot = n])
        PROVE  \A q \in Handlers : JobKept(q) \/ job'[q] = NoJob
    <2> DEFINE jj == [j EXCEPT !.list = l, !.slot = n]
    <2>1. jj.row = j.row /\ jj.token = j.token /\ jj.device = j.device /\ jj.kind = j.kind
      BY DEF Job
    <2>2. Goto(r, p, jj)
      BY <1>3
    <2> HIDE DEF jj
    <2> QED BY <1>1, <2>1, <2>2, JobsGo
  <1>4. ASSUME NEW p, NEW l, NEW n, NEW t, Goto(r, p, [j EXCEPT !.team = t, !.list = l, !.slot = n])
        PROVE  \A q \in Handlers : JobKept(q) \/ job'[q] = NoJob
    <2> DEFINE jj == [j EXCEPT !.team = t, !.list = l, !.slot = n]
    <2>1. jj.row = j.row /\ jj.token = j.token /\ jj.device = j.device /\ jj.kind = j.kind
      BY DEF Job
    <2>2. Goto(r, p, jj)
      BY <1>4
    <2> HIDE DEF jj
    <2> QED BY <1>1, <2>1, <2>2, JobsGo
  <1>5. ASSUME NEW p, NEW f, NEW o, NEW t, Goto(r, p, [j EXCEPT !.found = f, !.old = o, !.team = t])
        PROVE  \A q \in Handlers : JobKept(q) \/ job'[q] = NoJob
    <2> DEFINE jj == [j EXCEPT !.found = f, !.old = o, !.team = t]
    <2>1. jj.row = j.row /\ jj.token = j.token /\ jj.device = j.device /\ jj.kind = j.kind
      BY DEF Job
    <2>2. Goto(r, p, jj)
      BY <1>5
    <2> HIDE DEF jj
    <2> QED BY <1>1, <2>1, <2>2, JobsGo
  <1>6. ASSUME NEW p, NEW x,
               \/ Goto(r, p, [j EXCEPT !.found = x])
               \/ Goto(r, p, [j EXCEPT !.team = x])
               \/ Goto(r, p, [j EXCEPT !.slot = x])
        PROVE  \A q \in Handlers : JobKept(q) \/ job'[q] = NoJob
    <2>1. /\ [j EXCEPT !.found = x].row = j.row /\ [j EXCEPT !.found = x].token = j.token
          /\ [j EXCEPT !.found = x].device = j.device /\ [j EXCEPT !.found = x].kind = j.kind
          /\ [j EXCEPT !.team = x].row = j.row /\ [j EXCEPT !.team = x].token = j.token
          /\ [j EXCEPT !.team = x].device = j.device /\ [j EXCEPT !.team = x].kind = j.kind
          /\ [j EXCEPT !.slot = x].row = j.row /\ [j EXCEPT !.slot = x].token = j.token
          /\ [j EXCEPT !.slot = x].device = j.device /\ [j EXCEPT !.slot = x].kind = j.kind
      BY DEF Job
    <2> QED BY <1>1, <1>6, <2>1, JobsGo
  <1>7. CASE ReadTeams(r) \/ Trim(r)
    BY <1>1, <1>3, <1>7 DEF ReadTeams, Trim
  <1>8. CASE CreateTeam(r)
    BY <1>1, <1>3, <1>8, JobsEnd DEF CreateTeam
  <1>9. CASE Place(r)
    BY <1>1, <1>3, <1>6, <1>9, JobsEnd DEF Place
  <1>10. CASE Probe(r)
    <2>1. CASE \E p, t, l, n : Goto(r, p, [j EXCEPT !.team = t, !.list = l, !.slot = n])
      BY <1>4, <2>1
    <2>2. CASE Goto(r, "probe", [j EXCEPT !.slot = @ + 1])
      BY <1>6, <2>2
    <2> QED BY <1>1, <1>10, <2>1, <2>2 DEF Probe
  <1>11. CASE JoinRivals(r) \/ Oust(r)
    BY <1>1, <1>6, <1>11 DEF JoinRivals, Oust
  <1>12. CASE Clear(r) \/ Wipe(r)
    BY <1>1, <1>2, <1>12 DEF Clear, Wipe
  <1>13. CASE Activate(r) \/ Touch(r) \/ Move(r) \/ Release(r)
    BY <1>1, <1>2, <1>13, JobsEnd DEF Activate, Touch, Move, Release
  <1>14. CASE Answer(r) \/ Drop(r) \/ WriteProfile(r) \/ ZeroTeams(r)
    BY <1>14, JobsEnd DEF Answer, Drop, WriteProfile, ZeroTeams
  <1>15. CASE SelectRivals(r)
    BY <1>1, <1>5, <1>15, JobsEnd DEF SelectRivals
  <1> QED BY <1>7, <1>8, <1>9, <1>10, <1>11, <1>12, <1>13, <1>14, <1>15 DEF Still

\* A renewal changes the row of the session, if it is still there.
LEMMA RenewIs ==
  ASSUME Typing, RowsKeyed, NEW r \in Handlers, NEW token \in Ids, Renew(r, token)
  PROVE  \/ RowById(job[r].row) = {} /\ rows' = rows /\ contested' = contested
         \/ \E x \in rows :
              /\ x.id = job[r].row /\ RowById(job[r].row) = {x}
              /\ rows' = (rows \ {x}) \cup {Fresh(x, token)}
              /\ contested' = IF ~x.live /\ (LiveOn(x.team) # {} \/ Contest(r, x.team))
                              THEN contested \cup {x.team} ELSE contested
  <1>1. /\ rows' = (rows \ RowById(job[r].row)) \cup {Fresh(a, token) : a \in RowById(job[r].row)}
        /\ contested' = contested \cup
             {a.team : a \in {b \in RowById(job[r].row) : ~b.live /\ (LiveOn(b.team) # {} \/ Contest(r, b.team))}}
    BY DEF Renew, Fresh
  <1>2. CASE RowById(job[r].row) = {}
    BY <1>1, <1>2
  <1>3. CASE RowById(job[r].row) # {}
    <2>1. PICK x \in rows : x.id = job[r].row /\ RowById(job[r].row) = {x}
      BY <1>3, ById
    <2>2. rows' = (rows \ {x}) \cup {Fresh(x, token)}
      BY <1>1, <2>1
    <2>3. contested' = IF ~x.live /\ (LiveOn(x.team) # {} \/ Contest(r, x.team))
                       THEN contested \cup {x.team} ELSE contested
      BY <1>1, <2>1
    <2> QED BY <2>1, <2>2, <2>3
  <1> QED BY <1>2, <1>3

LEMMA RenewEffect ==
  ASSUME Typing, RowsKeyed, NEW r \in Handlers, NEW token \in Ids, Renew(r, token),
         \/ token = 0 /\ nextId' = nextId
         \/ token = nextId /\ nextId' = IF RowById(job[r].row) # {} THEN nextId + 1 ELSE nextId
  PROVE  Effect /\ \A a \in rows' : \E b \in rows : b.team = a.team
  <1>1. CASE RowById(job[r].row) = {} /\ rows' = rows
    BY <1>1, Numbers DEF Effect, Shrunk
  <1>2. ASSUME NEW x \in rows, RowById(job[r].row) = {x}, rows' = (rows \ {x}) \cup {Fresh(x, token)}
        PROVE  Effect /\ \A a \in rows' : \E b \in rows : b.team = a.team
    <2>1. x \in Row
      BY DEF Typing, Tabled
    <2>2. PICK y \in Row : /\ y = Fresh(x, token) /\ y.id = x.id /\ y.device = x.device /\ y.team = x.team
                           /\ y.token = IF token = 0 THEN x.token ELSE token
      BY <2>1, FreshIs
    <2>3. Replaced(x, y)
      BY <1>2, <2>2, Numbers DEF Replaced
    <2> QED BY <1>2, <2>2, <2>3 DEF Effect
  <1> QED BY <1>1, <1>2, RenewIs

LEMMA MoveIs ==
  ASSUME TypeInv, RowsKeyed, NEW r \in Handlers, Move(r)
  PROVE  \/ UNCHANGED <<rows, contested>> /\ End(r)
         \/ \E x \in rows, y \in Row :
              /\ x.id = job[r].row
              /\ y.id = x.id /\ y.device = x.device /\ y.token = x.token /\ y.team = job[r].team /\ y.live
              /\ rows' = (rows \ {x}) \cup {y} /\ SlotsOf(job[r].team) # {}
              /\ contested' = IF Contest(r, job[r].team) THEN contested \cup {job[r].team} ELSE contested
              /\ Goto(r, "release", job[r])
  <1> DEFINE t == job[r].team
             mine == RowById(job[r].row)
  <1>1. CASE SlotsOf(t) = {} \/ mine = {}
    <2>1. rows' = rows /\ contested' = contested /\ End(r)
      BY <1>1 DEF Move
    <2> QED BY <2>1
  <1>2. CASE SlotsOf(t) # {} /\ mine # {}
    <2>1. PICK x \in rows : x.id = job[r].row /\ mine = {x}
      BY <1>2, ById
    <2> DEFINE y == [x EXCEPT !.team = t, !.live = TRUE]
    <2>2. rows' = (rows \ {x}) \cup {y}
      BY <1>2, <2>1 DEF Move
    <2>3. y \in Row /\ y.id = x.id /\ y.device = x.device /\ y.token = x.token /\ y.team = t /\ y.live
      BY DEF Row, TypeInv, Typing, Tabled, Job
    <2>4. contested' = (IF Contest(r, t) THEN contested \cup {t} ELSE contested) /\ Goto(r, "release", job[r])
      BY <1>2 DEF Move
    <2> HIDE DEF y
    <2> QED BY <1>2, <2>1, <2>2, <2>3, <2>4
  <1> QED BY <1>1, <1>2

LEMMA CreateIs ==
  ASSUME TypeInv, NEW r \in Handlers, CreateRow(r)
  PROVE  \/ UNCHANGED <<rows, contested, nextId>> /\ End(r)
         \/ \E y \in Row, j \in Job :
              /\ y.id = nextId /\ y.token = nextId /\ y.device = job[r].device /\ y.team = job[r].team /\ y.live
              /\ rows' = rows \cup {y} /\ nextId' = nextId + 1 /\ SlotsOf(job[r].team) # {}
              /\ contested' = IF Contest(r, job[r].team) THEN contested \cup {job[r].team} ELSE contested
              /\ Goto(r, "activate", j) /\ j.row = nextId /\ j.token = nextId
              /\ j.kind = job[r].kind /\ j.device = job[r].device /\ j.team = job[r].team
  <1>1. PICK j \in Job : j = job[r] /\ Fits(pc[r], j)
    BY OneOf
  <1>2. j.device \in Devices
    BY <1>1 DEF CreateRow, Fits
  <1> DEFINE y == [id |-> nextId, device |-> j.device, team |-> j.team, live |-> TRUE, token |-> nextId]
             jj == [j EXCEPT !.row = nextId, !.token = nextId]
  <1>3. CASE SlotsOf(j.team) = {}
    BY <1>1, <1>3 DEF CreateRow
  <1>4. CASE SlotsOf(j.team) # {}
    <2>1. y \in Row
      BY <1>2 DEF Row, Job, TypeInv, Typing, Tabled, Ids
    <2>2. jj \in Job /\ jj.row = nextId /\ jj.token = nextId /\ jj.kind = j.kind /\ jj.device = j.device /\ jj.team = j.team
      BY DEF Job, TypeInv, Typing, Tabled, Ids
    <2>3. /\ rows' = rows \cup {y} /\ nextId' = nextId + 1
          /\ contested' = (IF Contest(r, j.team) THEN contested \cup {j.team} ELSE contested)
          /\ Goto(r, "activate", jj)
      BY <1>1, <1>4 DEF CreateRow
    <2>4. y.id = nextId /\ y.token = nextId /\ y.device = j.device /\ y.team = j.team /\ y.live
      OBVIOUS
    <2> HIDE DEF y, jj
    <2> QED BY <1>1, <1>4, <2>1, <2>2, <2>3, <2>4
  <1> QED BY <1>3, <1>4

LEMMA ExpireIs ==
  ASSUME TypeInv, NEW x \in rows, Expire(x)
  PROVE  \E y \in Row : /\ y.id = x.id /\ y.device = x.device /\ y.token = x.token /\ y.team = x.team /\ ~y.live
                        /\ rows' = (rows \ {x}) \cup {y}
  <1> DEFINE y == [x EXCEPT !.live = FALSE]
  <1>1. y \in Row /\ y.id = x.id /\ y.device = x.device /\ y.token = x.token /\ y.team = x.team /\ ~y.live
    BY DEF TypeInv, Typing, Tabled, Row
  <1>2. rows' = (rows \ {x}) \cup {y}
    BY DEF Expire
  <1> HIDE DEF y
  <1> QED BY <1>1, <1>2

LEMMA KeyShrink ==
  ASSUME TypeInv, KeyInv, rows' \subseteq rows, nextId' = nextId,
         \A s \in TeamSlots : team'[s].id = team[s].id \/ team[s].id = 0,
         \A q \in Handlers : JobKept(q) \/ job'[q] = NoJob \/ Owns(q)',
         \A d \in Devices : phone'[d] = phone[d] \/ PhoneOwns(d)'
  PROVE  KeyInv'
  <1>1. Typing /\ TeamsExist
    BY DEF TypeInv, KeyInv
  <1>2. Effect
    BY DEF Effect, Shrunk
  <1>3. TeamsExist'
    BY <1>1, TeamsStay
  <1> QED BY <1>1, <1>2, <1>3, Carry

LEMMA KeyStill ==
  ASSUME TypeInv, KeyInv, NEW r \in Handlers,
         \/ ReadTeams(r) \/ CreateTeam(r) \/ Place(r) \/ Probe(r) \/ JoinRivals(r) \/ Oust(r) \/ Clear(r)
         \/ Activate(r) \/ Drop(r) \/ WriteProfile(r) \/ SelectRivals(r) \/ Release(r)
         \/ Wipe(r) \/ ZeroTeams(r)
  PROVE  KeyInv'
  <1>1. \A q \in Handlers : JobKept(q) \/ job'[q] = NoJob
    BY StillKeeps DEF Still
  <1>2. phone' = phone /\ nextId' = nextId
    BY DEF ReadTeams, CreateTeam, Place, Probe, JoinRivals, Oust, Clear, Activate, Drop, WriteProfile,
           SelectRivals, Release, Wipe, ZeroTeams, Tables, Environment
  <1>3. rows' \subseteq rows
    BY DEF ReadTeams, CreateTeam, Place, Probe, JoinRivals, Oust, Clear, Activate, Drop, WriteProfile,
           SelectRivals, Release, Wipe, ZeroTeams, Tables, Environment
  <1>4. \A s \in TeamSlots : team'[s].id = team[s].id \/ team[s].id = 0
    <2>0. Typing
      BY DEF TypeInv
    <2>1. CASE ReadTeams(r) \/ Place(r) \/ Probe(r) \/ JoinRivals(r) \/ Oust(r) \/ Clear(r) \/ Drop(r)
               \/ SelectRivals(r) \/ Wipe(r)
      <3>1. team' = team
        BY <2>1 DEF ReadTeams, Place, Probe, JoinRivals, Oust, Clear, Drop, SelectRivals, Wipe, Tables
      <3> QED BY <3>1
    <2>2. CASE Activate(r) \/ WriteProfile(r) \/ Release(r)
      BY <2>0, <2>2, StatusIds DEF Activate, WriteProfile, Release
    <2>3. CASE CreateTeam(r)
      <3>1. team \in [TeamSlots -> [id : TeamIds, active : BOOLEAN]]
        BY DEF TypeInv, Typing, Tabled
      <3> QED BY <2>3, <3>1 DEF CreateTeam
    <2>4. CASE ZeroTeams(r)
      <3>1. team \in [TeamSlots -> [id : TeamIds, active : BOOLEAN]]
        BY DEF TypeInv, Typing, Tabled
      <3> QED BY <2>4, <3>1 DEF ZeroTeams
    <2> QED BY <2>1, <2>2, <2>3, <2>4
  <1> QED BY <1>1, <1>2, <1>3, <1>4, KeyShrink

\* Deleting a team deletes its rows, so the others keep their teams.
LEMMA KeyTrim == ASSUME TypeInv, KeyInv, NEW r \in Handlers, Trim(r) PROVE KeyInv'
  <1>1. \A q \in Handlers : JobKept(q) \/ job'[q] = NoJob
    BY StillKeeps DEF Still
  <1>2. Effect /\ phone' = phone
    BY DEF Trim, Effect, Shrunk, Environment
  <1>3. TeamsExist'
    <2> SUFFICES ASSUME NEW a \in rows' PROVE SlotsOf(a.team)' # {}
      BY DEF TeamsExist
    <2>1. a \in rows /\ a.team \notin Surplus(r)
      BY DEF Trim
    <2>2. PICK s \in TeamSlots : a.team # 0 /\ team[s].id = a.team
      BY <2>1 DEF KeyInv, TeamsExist, SlotsOf
    <2>3. team'[s].id = a.team
      BY <2>1, <2>2 DEF Trim
    <2> QED BY <2>2, <2>3 DEF SlotsOf
  <1> QED BY <1>1, <1>2, <1>3, Carry DEF TypeInv

\* What becomes of the handlers when one goes on with another row.
LEMMA JobsOther ==
  ASSUME TypeInv, NEW r \in Handlers, NEW p, NEW j, Goto(r, p, j)
  PROVE  job'[r] = j /\ \A q \in Handlers \ {r} : JobKept(q)
  BY DEF Goto, TypeInv, Typing, JobKept

LEMMA KeyFind == ASSUME TypeInv, KeyInv, NEW r \in Handlers, FindRow(r) PROVE KeyInv'
  <1>1. PICK j \in Job : j = job[r]
    BY OneOf
  <1>0. Typing /\ Tabled /\ nextId \in Nat /\ (\A a \in rows : a.id < nextId)
    BY Numbers DEF TypeInv, Typing, Tabled, KeyInv, RowsKeyed
  <1>2. rows' = rows /\ nextId' = nextId /\ team' = team /\ phone' = phone
    BY DEF FindRow, Tables, Environment
  <1>3. \A q \in Handlers : JobKept(q) \/ job'[q] = NoJob \/ Owns(q)'
    <2>1. CASE RowsOf(j.device) = {}
      <3> DEFINE jj == [j EXCEPT !.list = <<>>, !.slot = 0]
      <3>1. jj.row = j.row /\ jj.token = j.token /\ jj.device = j.device /\ jj.kind = j.kind
        BY DEF Job
      <3>2. Goto(r, "place", jj)
        BY <1>1, <2>1 DEF FindRow
      <3> HIDE DEF jj
      <3> QED BY <1>1, <3>1, <3>2, JobsGo
    <2>2. CASE RowsOf(j.device) # {}
      <3>1. PICK a \in rows : a = Newest(j.device) /\ a.device = j.device
        BY <1>0, <2>2, NewestIs DEF RowsOf
      <3> DEFINE jj == [j EXCEPT !.list = <<>>, !.slot = 0, !.row = a.id, !.team = a.team]
      <3>2. jj.row = a.id /\ jj.token = j.token /\ jj.device = j.device
        BY DEF Job
      <3>3. Goto(r, IF a.live THEN "rotate" ELSE "place", jj)
        BY <1>1, <2>2, <3>1 DEF FindRow
      <3> HIDE DEF jj
      <3>4. job'[r] = jj /\ \A q \in Handlers \ {r} : JobKept(q)
        BY <3>3, JobsOther
      <3>5. Owns(r)'
        <4>1. j.token < nextId /\ \A b \in rows : b.token = j.token => b.device = j.device
          BY <1>1 DEF KeyInv, Owns
        <4>2. a.id < nextId /\ \A b \in rows : b.id = a.id => b.device = j.device
          BY <3>1 DEF KeyInv, RowsKeyed
        <4> QED BY <1>2, <3>2, <3>4, <4>1, <4>2 DEF Owns
      <3> QED BY <3>4, <3>5
    <2> QED BY <2>1, <2>2
  <1> QED BY <1>2, <1>3, KeyShrink

LEMMA KeyTouch == ASSUME TypeInv, KeyInv, NEW r \in Handlers, Touch(r) PROVE KeyInv'
  <1>0. Typing /\ RowsKeyed /\ TeamsExist /\ 0 \in Ids
    BY DEF TypeInv, KeyInv, Ids
  <1>1. \A q \in Handlers : JobKept(q) \/ job'[q] = NoJob
    BY StillKeeps DEF Still
  <1>2. nextId' = nextId /\ team' = team /\ phone' = phone /\ Renew(r, 0)
    BY DEF Touch, Environment
  <1>3. Effect /\ \A a \in rows' : \E b \in rows : b.team = a.team
    BY <1>0, <1>2, RenewEffect
  <1>4. TeamsExist'
    BY <1>0, <1>2, <1>3, TeamsStay
  <1> QED BY <1>0, <1>1, <1>2, <1>3, <1>4, Carry

LEMMA KeyRotate == ASSUME TypeInv, KeyInv, NEW r \in Handlers, Rotate(r) PROVE KeyInv'
  <1>1. PICK j \in Job : j = job[r]
    BY OneOf
  <1>0. Typing /\ RowsKeyed /\ TeamsExist /\ nextId \in Ids /\ nextId \in Nat
    BY DEF TypeInv, KeyInv, Ids, Typing, Tabled
  <1>2. /\ nextId' = IF RowById(j.row) # {} THEN nextId + 1 ELSE nextId
        /\ team' = team /\ phone' = phone /\ Renew(r, nextId)
    BY <1>1 DEF Rotate, Environment
  <1>3. Effect /\ \A a \in rows' : \E b \in rows : b.team = a.team
    BY <1>0, <1>1, <1>2, RenewEffect
  <1>4. TeamsExist'
    BY <1>0, <1>2, <1>3, TeamsStay
  <1>5. \A q \in Handlers : JobKept(q) \/ job'[q] = NoJob \/ Owns(q)'
    <2>1. CASE RowById(j.row) = {}
      BY <1>1, <2>1, JobsEnd DEF Rotate
    <2>2. CASE RowById(j.row) # {}
      <3> DEFINE jj == [j EXCEPT !.token = nextId]
      <3>1. jj.row = j.row /\ jj.token = nextId /\ jj.device = j.device
        BY DEF Job
      <3>2. Goto(r, "answer", jj)
        BY <1>1, <2>2 DEF Rotate
      <3> HIDE DEF jj
      <3>3. job'[r] = jj /\ \A q \in Handlers \ {r} : JobKept(q)
        BY <3>2, JobsOther
      <3>4. Owns(r)'
        <4>1. PICK x \in rows : /\ x.id = j.row /\ RowById(j.row) = {x}
                                /\ rows' = (rows \ {x}) \cup {Fresh(x, nextId)}
          BY <1>0, <1>1, <1>2, <2>2, RenewIs
        <4>2. x \in Row
          BY <1>0 DEF Typing, Tabled
        <4>3. PICK y : y = Fresh(x, nextId) /\ y.device = x.device /\ y.id = x.id
          BY <1>0, <4>2, FreshIs
        <4>4. j.row < nextId /\ x.device = j.device /\ \A b \in rows : b.id = j.row => b.device = j.device
          BY <1>1, <4>1 DEF KeyInv, Owns
        <4>5. nextId' = nextId + 1
          BY <1>2, <2>2
        <4>6. \A b \in rows : b.token # nextId /\ b.token \in Nat
          BY <1>0, Numbers DEF RowsKeyed
        <4>7. j.row \in Nat
          BY DEF Job, Ids
        <4>8. rows' = (rows \ {x}) \cup {y}
          BY <4>1, <4>3
        <4>9. \A b \in rows' : b.id = j.row \/ b.token = nextId => b.device = j.device
          BY <4>3, <4>4, <4>6, <4>8
        <4> QED BY <1>0, <3>1, <3>3, <4>4, <4>5, <4>7, <4>9 DEF Owns
      <3> QED BY <3>3, <3>4
    <2> QED BY <2>1, <2>2
  <1> QED BY <1>0, <1>2, <1>3, <1>4, <1>5, Carry

LEMMA KeyMove == ASSUME TypeInv, KeyInv, NEW r \in Handlers, Move(r) PROVE KeyInv'
  <1>0. Typing /\ RowsKeyed /\ TeamsExist
    BY DEF TypeInv, KeyInv
  <1>1. \A q \in Handlers : JobKept(q) \/ job'[q] = NoJob
    BY StillKeeps DEF Still
  <1>2. nextId' = nextId /\ team' = team /\ phone' = phone
    BY DEF Move, Environment
  <1>3. CASE rows' = rows
    BY <1>1, <1>2, <1>3, KeyShrink
  <1>4. ASSUME NEW x \in rows, NEW y \in Row, y.id = x.id, y.device = x.device, y.token = x.token,
               y.team = job[r].team, rows' = (rows \ {x}) \cup {y}, SlotsOf(job[r].team) # {}
        PROVE  KeyInv'
    <2>1. Replaced(x, y)
      BY <1>2, <1>4 DEF Replaced
    <2>2. Effect
      BY <2>1 DEF Effect
    <2>3. \A a \in rows' : (\E b \in rows : b.team = a.team) \/ SlotsOf(a.team) # {}
      BY <1>4
    <2>4. TeamsExist'
      BY <1>0, <1>2, <2>3, TeamsStay
    <2> QED BY <1>0, <1>1, <1>2, <2>2, <2>4, Carry
  <1> QED BY <1>0, <1>3, <1>4, MoveIs

LEMMA KeyCreate == ASSUME TypeInv, KeyInv, NEW r \in Handlers, CreateRow(r) PROVE KeyInv'
  <1>0. Typing /\ RowsKeyed /\ TeamsExist /\ nextId \in Nat
    BY DEF TypeInv, KeyInv, Typing, Tabled
  <1>2. team' = team /\ phone' = phone
    BY DEF CreateRow, Environment
  <1>3. CASE rows' = rows /\ nextId' = nextId /\ End(r)
    BY <1>2, <1>3, JobsEnd, KeyShrink
  <1>4. ASSUME NEW y \in Row, NEW j \in Job, y.id = nextId, y.token = nextId, y.device = job[r].device,
               y.team = job[r].team, rows' = rows \cup {y}, nextId' = nextId + 1, SlotsOf(job[r].team) # {},
               Goto(r, "activate", j), j.row = nextId, j.token = nextId, j.device = job[r].device
        PROVE  KeyInv'
    <2>1. Added(y)
      BY <1>4 DEF Added
    <2>2. Effect
      BY <2>1 DEF Effect
    <2>3. \A a \in rows' : (\E b \in rows : b.team = a.team) \/ SlotsOf(a.team) # {}
      BY <1>4
    <2>4. TeamsExist'
      BY <1>0, <1>2, <2>3, TeamsStay
    <2>5. job'[r] = j /\ \A q \in Handlers \ {r} : JobKept(q)
      BY <1>4, JobsOther
    <2>6. \A b \in rows : b.token # nextId /\ b.id # nextId
      BY <1>0, Numbers DEF RowsKeyed
    <2>7. Owns(r)'
      BY <1>0, <1>4, <2>5, <2>6 DEF Owns
    <2> QED BY <1>0, <1>2, <2>2, <2>4, <2>5, <2>7, Carry
  <1> QED BY <1>3, <1>4, CreateIs

LEMMA KeyAnswer == ASSUME TypeInv, KeyInv, NEW r \in Handlers, Answer(r) PROVE KeyInv'
  <1>1. PICK j \in Job : j = job[r] /\ Fits(pc[r], j)
    BY OneOf
  <1>2. \A q \in Handlers : JobKept(q) \/ job'[q] = NoJob
    BY StillKeeps DEF Still
  <1>3. rows' = rows /\ nextId' = nextId /\ team' = team
    BY DEF Answer, Tables
  <1>4. ASSUME NEW d \in Devices PROVE phone'[d] = phone[d] \/ PhoneOwns(d)'
    <2>1. j.device \in Devices /\ phone \in [Devices -> Ids]
      BY <1>1 DEF Answer, Fits, TypeInv, Typing, Tabled
    <2>2. phone' = phone \/ phone' = [phone EXCEPT ![j.device] = j.token]
      BY <1>1 DEF Answer
    <2>3. phone'[d] = phone[d] \/ (d = j.device /\ phone'[d] = j.token)
      BY <2>1, <2>2
    <2>4. j.token < nextId /\ \A a \in rows : a.token = j.token => a.device = j.device
      BY <1>1 DEF KeyInv, Owns
    <2> QED BY <1>3, <2>3, <2>4 DEF PhoneOwns
  <1> QED BY <1>2, <1>3, <1>4, KeyShrink

LEMMA KeyReceive == ASSUME TypeInv, KeyInv, NEW r \in Handlers, Receive(r) PROVE KeyInv'
  <1>0. Typing /\ nextId \in Nat /\ nextId > 0 /\ (\A a \in rows : 0 < a.id /\ 0 < a.token /\ a.id < nextId /\ a.token < nextId)
    BY DEF TypeInv, KeyInv, RowsKeyed, Typing, Tabled
  <1>1. rows' = rows /\ nextId' = nextId /\ team' = team /\ phone' = phone
    BY DEF Receive, ReceiveJoin, ReceiveReset, ReceiveSession, Tables
  <1>2. ASSUME NEW p, NEW j, Goto(r, p, j), Owns(r)' PROVE KeyInv'
    BY <1>1, <1>2, JobsOther, KeyShrink
  <1>3. ASSUME NEW p, NEW j, Goto(r, p, j), j.row = 0, j.token = 0 PROVE KeyInv'
    <2>1. job'[r] = j
      BY <1>3, JobsOther
    <2>2. Owns(r)'
      BY <1>0, <1>1, <1>3, <2>1 DEF Owns
    <2> QED BY <1>2, <1>3, <2>2
  <1>4. ASSUME NEW d \in Devices, ReceiveJoin(r, d) PROVE KeyInv'
    <2> DEFINE j == [NoJob EXCEPT !.kind = "join", !.device = d, !.size = teamCount]
    <2>1. j.row = 0 /\ j.token = 0
      BY DEF NoJob
    <2>2. Goto(r, "teams", j)
      BY <1>4 DEF ReceiveJoin
    <2> HIDE DEF j
    <2> QED BY <1>3, <2>1, <2>2
  <1>5. ASSUME ReceiveReset(r) PROVE KeyInv'
    <2> DEFINE j == [NoJob EXCEPT !.kind = "reset", !.size = teamCount]
    <2>1. j.row = 0 /\ j.token = 0
      BY DEF NoJob
    <2>2. Goto(r, "teams", j)
      BY <1>5 DEF ReceiveReset
    <2> HIDE DEF j
    <2> QED BY <1>3, <2>1, <2>2
  <1>6. ASSUME NEW d \in Devices, NEW k \in {"state", "profile", "select"}, NEW s \in 0..MaxTeams,
               ReceiveSession(r, d, k, s)
        PROVE  KeyInv'
    <2>1. PICK a \in rows :
            /\ a.token = phone[d]
            /\ Goto(r, IF a.live THEN "touch" ELSE "drop",
                    [NoJob EXCEPT !.kind = k, !.device = d, !.slot = s, !.row = a.id, !.token = a.token, !.team = a.team])
      BY <1>6 DEF ReceiveSession
    <2> DEFINE j == [NoJob EXCEPT !.kind = k, !.device = d, !.slot = s, !.row = a.id, !.token = a.token, !.team = a.team]
               p == IF a.live THEN "touch" ELSE "drop"
    <2>2. j.row = a.id /\ j.token = a.token /\ j.device = d
      BY DEF NoJob
    <2>3. Goto(r, p, j)
      BY <2>1
    <2> HIDE DEF j, p
    <2>4. job'[r] = j
      BY <2>3, JobsOther
    <2>5. a.device = d /\ \A b \in rows : b.id = a.id \/ b.token = a.token => b = a
      BY <2>1 DEF KeyInv, PhoneOwns, RowsKeyed
    <2>6. Owns(r)'
      BY <1>0, <1>1, <2>2, <2>4, <2>5 DEF Owns
    <2> QED BY <1>2, <2>3, <2>6
  <1> QED BY <1>4, <1>5, <1>6 DEF Receive

LEMMA KeyOutside ==
  ASSUME TypeInv, KeyInv, Resize \/ (\E a \in rows : Expire(a)) \/ UNCHANGED vars
  PROVE  KeyInv'
  <1>0. Typing /\ TeamsExist
    BY DEF TypeInv, KeyInv
  <1>1. nextId' = nextId /\ team' = team /\ phone' = phone /\ job' = job
    BY DEF Resize, Expire, vars
  <1>2. \A q \in Handlers : JobKept(q)
    BY <1>1 DEF JobKept
  <1>3. CASE rows' = rows
    BY <1>1, <1>2, <1>3, KeyShrink
  <1>4. ASSUME NEW x \in rows, Expire(x) PROVE KeyInv'
    <2>1. PICK y \in Row : /\ y.id = x.id /\ y.device = x.device /\ y.token = x.token /\ y.team = x.team
                           /\ rows' = (rows \ {x}) \cup {y}
      BY <1>4, ExpireIs
    <2>2. Replaced(x, y)
      BY <1>1, <2>1 DEF Replaced
    <2>3. Effect
      BY <2>2 DEF Effect
    <2>4. TeamsExist'
      BY <1>0, <1>1, <2>1, TeamsStay
    <2> QED BY <1>0, <1>1, <1>2, <2>3, <2>4, Carry
  <1> QED BY <1>3, <1>4 DEF Resize, vars

BaseInv == TypeInv /\ KeyInv

LEMMA BaseInit == Init => BaseInv
  <1> SUFFICES ASSUME Init PROVE BaseInv
    OBVIOUS
  <1>1. NoTeam \in [id : TeamIds, active : BOOLEAN] /\ NoJob \in Job /\ "idle" \in PCs
    BY NothingTyped, PCsAre
  <1>2. Tabled
    <2>1. team \in [TeamSlots -> [id : TeamIds, active : BOOLEAN]] /\ phone \in [Devices -> Ids]
      BY <1>1 DEF Init, Ids
    <2>2. nextTeam \in Nat \ {0} /\ nextId \in Nat \ {0}
      BY DEF Init
    <2> QED BY <2>1, <2>2, Zenon DEF Init, Tabled
  <1>3. pc \in [Handlers -> PCs] /\ job \in [Handlers -> Job]
    BY <1>1 DEF Init
  <1>4. Fits("idle", NoJob)
    BY DEF Fits, NoJob, Ensuring
  <1>5. TypeInv
    BY <1>2, <1>3, <1>4 DEF Init, TypeInv, Typing
  <1>6. rows = {} /\ nextId = 1 /\ (\A d \in Devices : phone[d] = 0) /\ \A r \in Handlers : job[r].row = 0 /\ job[r].token = 0
    BY DEF Init, NoJob
  <1>7. KeyInv
    BY <1>6 DEF KeyInv, RowsKeyed, TeamsExist, Owns, PhoneOwns
  <1> QED BY <1>5, <1>7 DEF BaseInv

LEMMA BaseStep == BaseInv /\ [Next]_vars => BaseInv'
  <1> SUFFICES ASSUME TypeInv, KeyInv, [Next]_vars PROVE TypeInv' /\ KeyInv'
    BY DEF BaseInv
  <1>0. \A a \in rows : a.id < nextId
    BY DEF KeyInv, RowsKeyed
  <1>1. ASSUME NEW r \in Handlers, Receive(r) PROVE TypeInv' /\ KeyInv'
    BY <1>1, TypeReceive, KeyReceive
  <1>2. ASSUME NEW r \in Handlers, Step(r) PROVE TypeInv' /\ KeyInv'
    <2>1. TypeInv'
      BY <1>0, <1>2, TypeTeams, TypeFind, TypePlace, TypeSeat, TypeCreate, TypeSession, TypeReset DEF Step
    <2>2. KeyInv'
      BY <1>2, KeyStill, KeyTrim, KeyFind, KeyTouch, KeyRotate, KeyMove, KeyCreate, KeyAnswer DEF Step
    <2> QED BY <2>1, <2>2
  <1>3. ASSUME Resize \/ (\E a \in rows : Expire(a)) \/ UNCHANGED vars PROVE TypeInv' /\ KeyInv'
    BY <1>3, TypeOutside, KeyOutside
  <1> QED BY <1>1, <1>2, <1>3 DEF Next

LEMMA BaseAlways == Spec => []BaseInv
  BY BaseInit, BaseStep, PTL DEF Spec

\* The tables keep their types, foreign keys and unique keys, and a slot for requests has
\* local variables exactly while it serves one.
THEOREM TypeCorrect == Spec => []TypeOK
  <1>1. BaseInv => TypeOK
    <2> SUFFICES ASSUME TypeInv, KeyInv PROVE TypeOK
      BY DEF BaseInv
    <2>1. ASSUME NEW r \in Handlers PROVE pc[r] = "idle" <=> job[r] = NoJob
      <3>1. Fits(pc[r], job[r]) /\ pc[r] \in PCs
        BY DEF TypeInv, Typing
      <3>2. job[r] = NoJob => job[r].kind = "none"
        BY DEF NoJob
      <3> QED BY <3>1, <3>2, PCsAre DEF Fits, Ensuring
    <2>2. \A a \in rows : \E s \in TeamSlots : team[s].id = a.team /\ a.team # 0
      BY DEF KeyInv, TeamsExist, SlotsOf
    <2>3. \A a, b \in rows : a.token = b.token \/ a.id = b.id => a = b
      BY DEF KeyInv, RowsKeyed
    <2> QED BY <2>1, <2>2, <2>3 DEF TypeOK, TypeInv, Typing, Tabled
  <1> QED BY <1>1, BaseAlways, PTL

-----------------------------------------------------------------------------
(* Who may sit at a team that a handler is about to give to its device.    *)

Sits(p, j, a) ==
  /\ p # "create"
  /\ p = "clear" => a.device = j.device
  /\ p = "move" => a.id = j.row
  /\ p = "oust" => a.id \in j.found \/ (IF j.kind = "join" THEN a.device = j.device ELSE a.id = j.row)
Seated(r) ==
  \A a \in rows : a.live /\ a.team = job[r].team /\ a.team \notin contested => Sits(pc[r], job[r], a)
Alone == \A a, b \in rows : a.live /\ b.live /\ a.team = b.team /\ a.team \notin contested => a = b
SeatInv == Alone /\ \A r \in Handlers : Seated(r)

Others(r) == \A q \in Handlers \ {r} : pc'[q] = pc[q] /\ job'[q] = job[q]

LEMMA Elsewhere ==
  ASSUME TypeInv, NEW r \in Handlers, NEW p, NEW j, Goto(r, p, j)
  PROVE  pc'[r] = p /\ job'[r] = j /\ Others(r)
  BY DEF Goto, TypeInv, Typing, Others

LEMMA NotPlacing == ASSUME NEW p, p \notin Placing, NEW j, NEW a PROVE Sits(p, j, a)
  BY DEF Sits, Placing

LEMMA Quits ==
  ASSUME TypeInv, NEW r \in Handlers,
         \/ ReadTeams(r) \/ Trim(r) \/ CreateTeam(r) \/ FindRow(r) \/ Rotate(r) \/ Place(r)
         \/ CreateRow(r) \/ Activate(r) \/ Answer(r) \/ Drop(r) \/ Touch(r) \/ WriteProfile(r)
         \/ Move(r) \/ Release(r) \/ Wipe(r) \/ ZeroTeams(r) \/ Receive(r)
  PROVE  pc'[r] \notin Placing /\ Others(r)
  <1>0. "idle" \notin Placing /\ \A p \in {"teams", "trim", "createTeam", "wipe", "find", "rotate", "place", "joinRivals",
           "probe", "answer", "activate", "rivals", "profile", "release", "zero", "touch", "drop"} : p \notin Placing
    BY DEF Placing
  <1>1. ASSUME End(r) PROVE pc'[r] \notin Placing /\ Others(r)
    BY <1>0, <1>1, Elsewhere DEF End
  <1>2. CASE ReadTeams(r) \/ Trim(r)
    BY <1>0, <1>2, Elsewhere DEF ReadTeams, Trim, AfterTeams
  <1>3. CASE CreateTeam(r)
    BY <1>0, <1>1, <1>3, Elsewhere DEF CreateTeam, AfterTeams
  <1>4. CASE FindRow(r)
    BY <1>0, <1>4, Elsewhere DEF FindRow
  <1>5. CASE Rotate(r)
    BY <1>0, <1>1, <1>5, Elsewhere DEF Rotate
  <1>6. CASE Place(r)
    BY <1>0, <1>1, <1>6, Elsewhere DEF Place
  <1>7. CASE CreateRow(r)
    BY <1>0, <1>1, <1>7, Elsewhere DEF CreateRow
  <1>8. CASE Activate(r) \/ Answer(r) \/ Drop(r) \/ Touch(r) \/ WriteProfile(r)
    BY <1>0, <1>1, <1>8, Elsewhere DEF Activate, Answer, Drop, Touch, WriteProfile
  <1>9. CASE Move(r) \/ Release(r) \/ Wipe(r) \/ ZeroTeams(r)
    BY <1>0, <1>1, <1>9, Elsewhere DEF Move, Release, Wipe, ZeroTeams
  <1>10. CASE Receive(r)
    <2>1. ASSUME NEW p \in {"teams", "touch", "drop"}, NEW j, Goto(r, p, j) PROVE pc'[r] \notin Placing /\ Others(r)
      BY <1>0, <2>1, Elsewhere
    <2>2. CASE ReceiveReset(r) \/ \E d \in Devices : ReceiveJoin(r, d)
      BY <2>1, <2>2 DEF ReceiveReset, ReceiveJoin
    <2>3. ASSUME NEW d, NEW k, NEW s, ReceiveSession(r, d, k, s) PROVE pc'[r] \notin Placing /\ Others(r)
      <3>1. PICK a \in rows :
              Goto(r, IF a.live THEN "touch" ELSE "drop",
                   [NoJob EXCEPT !.kind = k, !.device = d, !.slot = s, !.row = a.id, !.token = a.token, !.team = a.team])
        BY <2>3 DEF ReceiveSession
      <3>2. (IF a.live THEN "touch" ELSE "drop") \in {"teams", "touch", "drop"}
        OBVIOUS
      <3> QED BY <2>1, <3>1, <3>2, Zenon
    <2> QED BY <1>10, <2>2, <2>3 DEF Receive
  <1> QED BY <1>2, <1>3, <1>4, <1>5, <1>6, <1>7, <1>8, <1>9, <1>10

\* No device is seated: every live row on a team that is not contested was one before.
LEMMA SeatQuiet ==
  ASSUME RowsKeyed', SeatInv, contested \subseteq contested',
         \A a \in rows' : a.live /\ a.team \notin contested' =>
           \E b \in rows : b.live /\ b.id = a.id /\ b.device = a.device /\ b.team = a.team,
         \A q \in Handlers : (pc'[q] = pc[q] /\ job'[q] = job[q]) \/ Seated(q)'
  PROVE  SeatInv'
  <1>1. Alone'
    <2> SUFFICES ASSUME NEW a \in rows', NEW b \in rows', a.live, b.live, a.team = b.team, a.team \notin contested'
                 PROVE  a = b
      BY DEF Alone
    <2>1. PICK c \in rows : c.live /\ c.id = a.id /\ c.team = a.team
      OBVIOUS
    <2>2. PICK d \in rows : d.live /\ d.id = b.id /\ d.team = b.team
      OBVIOUS
    <2>3. c = d
      BY <2>1, <2>2 DEF SeatInv, Alone
    <2> QED BY <2>1, <2>2, <2>3 DEF RowsKeyed
  <1>2. ASSUME NEW q \in Handlers PROVE Seated(q)'
    <2>1. CASE pc'[q] = pc[q] /\ job'[q] = job[q]
      <3> SUFFICES ASSUME NEW a \in rows', a.live, a.team = job[q].team, a.team \notin contested'
                   PROVE  Sits(pc[q], job[q], a)
        BY <2>1, Zenon DEF Seated
      <3>1. PICK c \in rows : c.live /\ c.id = a.id /\ c.device = a.device /\ c.team = a.team
        OBVIOUS
      <3>2. Sits(pc[q], job[q], c)
        BY <3>1 DEF SeatInv, Seated
      <3> QED BY <3>1, <3>2 DEF Sits
    <2> QED BY <2>1
  <1> QED BY <1>1, <1>2 DEF SeatInv

\* One device is seated, at a team that is free of others and of handlers that place one.
LEMMA SeatNew ==
  ASSUME SeatInv, NEW r \in Handlers, NEW y,
         \A a \in rows' : a = y \/ a \in rows, contested \subseteq contested',
         y.team \in contested' \/ (~Contest(r, y.team) /\ \A a \in rows' : a.live /\ a.team = y.team => a = y),
         pc'[r] \notin Placing, Others(r)
  PROVE  SeatInv'
  <1>1. Alone'
    BY DEF SeatInv, Alone
  <1>2. ASSUME NEW q \in Handlers PROVE Seated(q)'
    <2> SUFFICES ASSUME NEW a \in rows', a.live, a.team = job'[q].team, a.team \notin contested'
                 PROVE  Sits(pc'[q], job'[q], a)
      BY Zenon DEF Seated
    <2>1. CASE q = r
      BY <2>1, NotPlacing
    <2>2. CASE q # r /\ a \in rows
      BY <2>2, Zenon DEF SeatInv, Seated, Others
    <2>3. CASE q # r /\ a = y
      <3>1. pc[q] \notin Placing
        BY <2>3 DEF Contest, Others
      <3> QED BY <2>3, <3>1, NotPlacing DEF Others
    <2> QED BY <2>1, <2>2, <2>3
  <1> QED BY <1>1, <1>2 DEF SeatInv

LEMMA SeatLeft ==
  ASSUME RowsKeyed', SeatInv, NEW r \in Handlers, rows' \subseteq rows, contested' = contested,
         pc'[r] \notin Placing, Others(r)
  PROVE  SeatInv'
  <1>1. Seated(r)'
    BY NotPlacing, Zenon DEF Seated
  <1> QED BY <1>1, SeatQuiet, Zenon DEF Others

LEMMA SeatQuits ==
  ASSUME TypeInv, RowsKeyed', SeatInv, NEW r \in Handlers,
         \/ ReadTeams(r) \/ Trim(r) \/ CreateTeam(r) \/ FindRow(r) \/ Place(r)
         \/ Activate(r) \/ Answer(r) \/ Drop(r) \/ WriteProfile(r)
         \/ Release(r) \/ Wipe(r) \/ ZeroTeams(r) \/ Receive(r)
  PROVE  SeatInv'
  <1>1. pc'[r] \notin Placing /\ Others(r)
    BY Quits
  <1>2. contested' = contested
    BY DEF ReadTeams, Trim, CreateTeam, FindRow, Place, Activate, Answer, Drop, WriteProfile, Release,
           Wipe, ZeroTeams, Receive, ReceiveJoin, ReceiveReset, ReceiveSession, history
  <1>3. rows' \subseteq rows
    BY DEF ReadTeams, Trim, CreateTeam, FindRow, Place, Activate, Answer, Drop, WriteProfile, Release,
           Wipe, ZeroTeams, Receive, ReceiveJoin, ReceiveReset, ReceiveSession, Tables
  <1> QED BY <1>1, <1>2, <1>3, SeatLeft

LEMMA SeatProbe == ASSUME TypeInv, RowsKeyed', SeatInv, NEW r \in Handlers, Probe(r) PROVE SeatInv'
  <1>1. PICK j \in Job : j = job[r]
    BY OneOf
  <1> DEFINE t == j.list[j.slot]
             free == LiveOn(t) = {}
             last == j.slot = Len(j.list)
             chosen == IF free THEN t ELSE j.list[1]
  <1>2. /\ contested' = IF last /\ ~free THEN contested \cup {chosen} ELSE contested
        /\ rows' = rows
    BY <1>1 DEF Probe, Tables
  <1>3. CASE free \/ last
    <2> DEFINE jj == [j EXCEPT !.team = chosen, !.list = <<>>, !.slot = 0]
    <2>1. Goto(r, "create", jj)
      BY <1>1, <1>3 DEF Probe
    <2>2. jj.team = chosen
      BY DEF Job
    <2> HIDE DEF jj
    <2>3. pc'[r] = "create" /\ job'[r] = jj /\ Others(r)
      BY <2>1, Elsewhere
    <2>4. chosen \in contested' \/ LiveOn(chosen) = {}
      BY <1>2, <1>3
    <2>5. Seated(r)'
      <3> HIDE DEF chosen
      <3> QED BY <1>2, <2>2, <2>3, <2>4 DEF Seated, LiveOn
    <2>6. contested \subseteq contested'
      <3> HIDE DEF chosen, free, last
      <3> QED BY <1>2
    <2> QED BY <1>2, <2>3, <2>5, <2>6, SeatQuiet DEF Others
  <1>4. CASE ~(free \/ last)
    <2>1. Goto(r, "probe", [j EXCEPT !.slot = j.slot + 1])
      BY <1>1, <1>4 DEF Probe
    <2>2. pc'[r] \notin Placing /\ Others(r)
      BY <2>1, Elsewhere DEF Placing
    <2> QED BY <1>2, <1>4, <2>2, SeatLeft
  <1> QED BY <1>3, <1>4

LEMMA SeatRivals ==
  ASSUME TypeInv, RowsKeyed', SeatInv, NEW r \in Handlers, JoinRivals(r) \/ SelectRivals(r)
  PROVE  SeatInv'
  <1>1. PICK j \in Job : j = job[r] /\ Fits(pc[r], j)
    BY OneOf
  <1>2. rows' = rows /\ contested' = contested
    BY DEF JoinRivals, SelectRivals, Tables, history
  <1>a. ASSUME Seated(r)', Others(r) PROVE SeatInv'
    BY <1>2, <1>a, SeatQuiet, Zenon DEF Others
  <1>3. CASE JoinRivals(r)
    <2> DEFINE others == {a.id : a \in {b \in LiveOn(j.team) : b.device # j.device}}
               jj == [j EXCEPT !.found = others]
               p == IF others # {} THEN "oust" ELSE "clear"
    <2>1. Goto(r, p, jj)
      BY <1>1, <1>3 DEF JoinRivals
    <2>2. jj.team = j.team /\ jj.found = others /\ jj.kind = j.kind /\ jj.device = j.device /\ j.kind = "join"
      BY <1>1, <1>3 DEF JoinRivals, Fits, Job
    <2> HIDE DEF jj
    <2>3. pc'[r] = p /\ job'[r] = jj /\ Others(r)
      BY <2>1, Elsewhere
    <2>4. Seated(r)'
      <3> SUFFICES ASSUME NEW a \in rows, a.live, a.team = j.team PROVE Sits(p, jj, a)
        BY <1>2, <2>2, <2>3, Zenon DEF Seated
      <3>1. a.device # j.device => a.id \in others
        BY DEF LiveOn
      <3> HIDE DEF others
      <3>2. p = IF others # {} THEN "oust" ELSE "clear"
        BY DEF others
      <3> QED BY <2>2, <3>1, <3>2 DEF Sits
    <2> QED BY <1>a, <2>3, <2>4
  <1>4. CASE SelectRivals(r)
    <2> DEFINE t == team[j.slot].id
               others == {a.id : a \in {b \in LiveOn(t) : b.id # j.row}}
               jj == [j EXCEPT !.found = others, !.old = j.team, !.team = t]
               p == IF others # {} THEN "oust" ELSE "move"
    <2>1. CASE End(r)
      <3>1. pc'[r] \notin Placing /\ Others(r)
        BY <2>1, Elsewhere DEF End, Placing
      <3> QED BY <1>2, <3>1, SeatLeft
    <2>2. CASE Goto(r, p, jj)
      <3>2. jj.team = t /\ jj.found = others /\ jj.kind = j.kind /\ jj.row = j.row /\ j.kind = "select"
        BY <1>1, <1>4 DEF SelectRivals, Fits, Job
      <3> HIDE DEF jj
      <3>3. pc'[r] = p /\ job'[r] = jj /\ Others(r)
        BY <2>2, Elsewhere
      <3>4. Seated(r)'
        <4> SUFFICES ASSUME NEW a \in rows, a.live, a.team = t PROVE Sits(p, jj, a)
          BY <1>2, <3>2, <3>3, Zenon DEF Seated
        <4>1. a.id # j.row => a.id \in others
          BY DEF LiveOn
        <4>2. p = IF others # {} THEN "oust" ELSE "move"
          OBVIOUS
        <4> HIDE DEF others, p
        <4> QED BY <3>2, <4>1, <4>2 DEF Sits
      <3> QED BY <1>a, <3>3, <3>4
    <2> QED BY <1>1, <1>4, <2>1, <2>2 DEF SelectRivals
  <1> QED BY <1>3, <1>4

LEMMA SeatClears ==
  ASSUME TypeInv, RowsKeyed', SeatInv, NEW r \in Handlers, Oust(r) \/ Clear(r)
  PROVE  SeatInv'
  <1>1. PICK j \in Job : j = job[r] /\ Fits(pc[r], j)
    BY OneOf
  <1>2. rows' \subseteq rows /\ contested' = contested
    BY DEF Oust, Clear, history
  <1>3. CASE Oust(r)
    <2> DEFINE jj == [j EXCEPT !.found = {}]
               p == IF j.kind = "join" THEN "clear" ELSE "move"
    <2>1. Goto(r, p, jj)
      BY <1>1, <1>3 DEF Oust
    <2>2. jj.team = j.team /\ jj.kind = j.kind /\ jj.device = j.device /\ jj.row = j.row
      BY DEF Job
    <2> HIDE DEF jj
    <2>3. pc'[r] = p /\ job'[r] = jj /\ Others(r)
      BY <2>1, Elsewhere
    <2>4. Seated(r)'
      <3> SUFFICES ASSUME NEW a \in rows', a.live, a.team = j.team, a.team \notin contested PROVE Sits(p, jj, a)
        BY <1>2, <2>2, <2>3, Zenon DEF Seated
      <3>1. a \in rows /\ a.id \notin j.found
        BY <1>1, <1>3 DEF Oust
      <3>2. Sits("oust", j, a)
        BY <1>1, <1>3, <3>1 DEF SeatInv, Seated, Oust
      <3> QED BY <2>2, <3>1, <3>2 DEF Sits
    <2> QED BY <1>2, <2>3, <2>4, SeatQuiet, Zenon DEF Others
  <1>4. CASE Clear(r)
    <2>1. pc'[r] = "create" /\ job'[r] = j /\ Others(r)
      BY <1>1, <1>4, Elsewhere DEF Clear
    <2>2. Seated(r)'
      <3> SUFFICES ASSUME NEW a \in rows', a.live, a.team = j.team, a.team \notin contested PROVE FALSE
        BY <1>2, <2>1, Zenon DEF Seated
      <3>1. a \in rows /\ a.device # j.device
        BY <1>1, <1>4 DEF Clear, RowsOf
      <3>2. Sits("clear", j, a)
        BY <1>1, <1>4, <3>1 DEF SeatInv, Seated, Clear
      <3> QED BY <3>1, <3>2 DEF Sits
    <2> QED BY <1>2, <2>1, <2>2, SeatQuiet, Zenon DEF Others
  <1> QED BY <1>3, <1>4

LEMMA SeatCreate == ASSUME TypeInv, RowsKeyed', SeatInv, NEW r \in Handlers, CreateRow(r) PROVE SeatInv'
  <1>1. pc'[r] \notin Placing /\ Others(r)
    BY Quits
  <1>2. CASE rows' = rows /\ contested' = contested
    BY <1>1, <1>2, SeatLeft
  <1>3. ASSUME NEW y \in Row, y.team = job[r].team, y.live, rows' = rows \cup {y},
               contested' = IF Contest(r, job[r].team) THEN contested \cup {job[r].team} ELSE contested
        PROVE  SeatInv'
    <2>1. \A a \in rows : a.live /\ a.team = y.team => a.team \in contested
      BY <1>3 DEF SeatInv, Seated, Sits, CreateRow
    <2>2. contested \subseteq contested' /\ (y.team \in contested' \/ ~Contest(r, y.team))
      BY <1>3
    <2>3. y.team \in contested' \/ (~Contest(r, y.team) /\ \A a \in rows' : a.live /\ a.team = y.team => a = y)
      BY <1>3, <2>1, <2>2
    <2> QED BY <1>1, <1>3, <2>2, <2>3, SeatNew
  <1> QED BY <1>2, <1>3, CreateIs

LEMMA SeatMove == ASSUME TypeInv, RowsKeyed, RowsKeyed', SeatInv, NEW r \in Handlers, Move(r) PROVE SeatInv'
  <1>1. pc'[r] \notin Placing /\ Others(r)
    BY Quits
  <1>2. CASE rows' = rows /\ contested' = contested
    BY <1>1, <1>2, SeatLeft
  <1>3. ASSUME NEW x \in rows, NEW y \in Row, x.id = job[r].row, y.id = x.id, y.team = job[r].team, y.live,
               rows' = (rows \ {x}) \cup {y},
               contested' = IF Contest(r, job[r].team) THEN contested \cup {job[r].team} ELSE contested
        PROVE  SeatInv'
    <2>1. \A a \in rows : a.live /\ a.team = y.team => a.team \in contested \/ a.id = x.id
      BY <1>3 DEF SeatInv, Seated, Sits, Move
    <2>2. \A a \in rows \ {x} : a.live /\ a.team = y.team => a.team \in contested
      BY <1>3, <2>1 DEF RowsKeyed
    <2>3. contested \subseteq contested' /\ (y.team \in contested' \/ ~Contest(r, y.team))
      BY <1>3
    <2>4. y.team \in contested' \/ (~Contest(r, y.team) /\ \A a \in rows' : a.live /\ a.team = y.team => a = y)
      BY <1>3, <2>2, <2>3
    <2> QED BY <1>1, <1>3, <2>3, <2>4, SeatNew
  <1> QED BY <1>2, <1>3, MoveIs

LEMMA SeatRenew ==
  ASSUME TypeInv, RowsKeyed, RowsKeyed', SeatInv, NEW r \in Handlers, NEW token \in Ids, Renew(r, token),
         pc'[r] \notin Placing, Others(r)
  PROVE  SeatInv'
  <1>0. Typing
    BY DEF TypeInv
  <1>1. CASE rows' = rows /\ contested' = contested
    BY <1>1, SeatLeft
  <1>2. ASSUME NEW x \in rows, rows' = (rows \ {x}) \cup {Fresh(x, token)},
               contested' = IF ~x.live /\ (LiveOn(x.team) # {} \/ Contest(r, x.team))
                            THEN contested \cup {x.team} ELSE contested
        PROVE  SeatInv'
    <2>1. x \in Row
      BY <1>0 DEF Typing, Tabled
    <2>2. PICK y \in Row : y = Fresh(x, token) /\ y.live /\ y.id = x.id /\ y.device = x.device /\ y.team = x.team
      BY <2>1, FreshIs
    <2>3. rows' = (rows \ {x}) \cup {y}
      BY <1>2, <2>2
    <2>4. contested \subseteq contested'
      BY <1>2
    <2>5. CASE x.live
      <3>1. \A a \in rows' : a.live => \E b \in rows : b.live /\ b.id = a.id /\ b.device = a.device /\ b.team = a.team
        BY <2>2, <2>3, <2>5
      <3>2. Seated(r)'
        BY NotPlacing, Zenon DEF Seated
      <3> QED BY <2>4, <3>1, <3>2, SeatQuiet, Zenon DEF Others
    <2>6. CASE ~x.live
      <3>1. y.team \in contested' \/ (~Contest(r, y.team) /\ LiveOn(y.team) = {})
        BY <1>2, <2>2, <2>6
      <3>2. y.team \in contested' \/ (~Contest(r, y.team) /\ \A a \in rows' : a.live /\ a.team = y.team => a = y)
        BY <2>3, <3>1 DEF LiveOn
      <3> QED BY <2>3, <2>4, <3>2, SeatNew
    <2> QED BY <2>5, <2>6
  <1> QED BY <1>0, <1>1, <1>2, RenewIs

LEMMA SeatOutside ==
  ASSUME TypeInv, RowsKeyed', SeatInv, Resize \/ (\E a \in rows : Expire(a)) \/ UNCHANGED vars
  PROVE  SeatInv'
  <1>1. contested' = contested /\ pc' = pc /\ job' = job
    BY DEF Resize, Expire, vars, history
  <1>2. CASE rows' = rows
    BY <1>1, <1>2, SeatQuiet
  <1>3. ASSUME NEW x \in rows, Expire(x) PROVE SeatInv'
    <2>1. PICK y \in Row : ~y.live /\ rows' = (rows \ {x}) \cup {y}
      BY <1>3, ExpireIs
    <2>2. \A a \in rows' : a.live => a \in rows
      BY <2>1
    <2> QED BY <1>1, <2>2, SeatQuiet
  <1> QED BY <1>2, <1>3 DEF Resize, vars

LEMMA AtMostOne ==
  ASSUME NEW S, \A a, b \in S : a = b
  PROVE  Cardinality(S) <= 1
  <1>1. CASE S = {}
    <2>1. Cardinality(S) = 0
      BY <1>1, FS_EmptySet, Zenon
    <2> QED BY <2>1
  <1>2. ASSUME NEW b, S = {b} PROVE Cardinality(S) <= 1
    <2>1. Cardinality(S) = 1
      BY <1>2, FS_Singleton, Zenon
    <2> QED BY <2>1
  <1>3. S = {} \/ \E b : S = {b}
    OBVIOUS
  <1> QED BY <1>1, <1>2, <1>3

LEMMA SeatStep == BaseInv /\ BaseInv' /\ SeatInv /\ [Next]_vars => SeatInv'
  <1> SUFFICES ASSUME TypeInv, RowsKeyed, RowsKeyed', SeatInv, [Next]_vars PROVE SeatInv'
    BY DEF BaseInv, KeyInv
  <1>1. ASSUME NEW r \in Handlers, Rotate(r) \/ Touch(r) PROVE SeatInv'
    <2>1. pc'[r] \notin Placing /\ Others(r)
      BY <1>1, Quits
    <2>2. Renew(r, nextId) \/ Renew(r, 0)
      BY <1>1 DEF Rotate, Touch
    <2>3. nextId \in Ids /\ 0 \in Ids
      BY DEF Ids, TypeInv, Typing, Tabled
    <2> QED BY <2>1, <2>2, <2>3, SeatRenew
  <1>2. ASSUME NEW r \in Handlers, Receive(r) \/ Step(r) PROVE SeatInv'
    BY <1>1, <1>2, SeatQuits, SeatProbe, SeatRivals, SeatClears, SeatCreate, SeatMove DEF Step
  <1> QED BY <1>2, SeatOutside DEF Next

\* Two devices hold live sessions of one team only after a placement that overlapped another
\* handler placing a device there, the renewal of a session that had expired meanwhile, or a
\* join that found every team taken.
THEOREM SeatsCorrect == Spec => []SharedTeamsExplained
  <1>1. Init => SeatInv
    <2> SUFFICES ASSUME Init PROVE SeatInv
      OBVIOUS
    <2>1. rows = {}
      BY DEF Init
    <2> QED BY <2>1 DEF SeatInv, Alone, Seated
  <1>2. SeatInv => SharedTeamsExplained
    <2> SUFFICES ASSUME SeatInv, NEW a \in rows, a.team \notin contested PROVE Cardinality(LiveOn(a.team)) <= 1
      BY DEF SharedTeamsExplained
    <2>1. \A b, c \in LiveOn(a.team) : b = c
      BY DEF SeatInv, Alone, LiveOn
    <2> QED BY <2>1, AtMostOne
  <1> QED BY <1>1, <1>2, BaseAlways, SeatStep, PTL DEF Spec

-----------------------------------------------------------------------------
(* The session of a device whose joins did not overlap.                    *)

JoinOf(r, d) == job[r].kind = "join" /\ job[r].device = d

\* Where a join has decided on the token it will answer.
Told == {"activate", "answer"}

\* What a join of d relies on.
Joins(r, d) ==
  /\ pc[r] \in {"probe", "create"} \/ (pc[r] = "place" /\ job[r].row = 0) => RowsOf(d) = {}
  /\ pc[r] = "rotate" => \A a \in RowsOf(d) : a.id = job[r].row
  /\ pc[r] \in Told => \A a \in RowsOf(d) : a.token = job[r].token
  \* the new row is known to no one else, so no other request moves it
  /\ pc[r] = "activate" =>
       /\ job[r].row # 0 /\ phone[d] # job[r].token
       /\ \A a \in RowsOf(d) : a.id = job[r].row /\ a.team = job[r].team
       /\ \A q \in Handlers \ {r} : job[q].row # job[r].row
Holds(d) ==
  d \notin misread /\ (\A r \in Handlers : JoinOf(r, d) => pc[r] \notin Told)
    => \A a \in RowsOf(d) : a.token = phone[d]
OneJoin(d) == \A r, q \in Handlers : JoinOf(r, d) /\ JoinOf(q, d) => r = q
OneRow(d) == \A a, b \in RowsOf(d) : a = b
SessionOf(d) == OneJoin(d) /\ OneRow(d) /\ (\A r \in Handlers : JoinOf(r, d) => Joins(r, d)) /\ Holds(d)
SessionInv == \A d \in Devices \ doubled : SessionOf(d)

\* Steps that are not of a join of d.
LEMMA SessionQuiet ==
  ASSUME NEW d, RowsKeyed', SessionOf(d), phone'[d] = phone[d], d \notin misread' => d \notin misread,
         \A q \in Handlers : \/ pc'[q] = pc[q] /\ job'[q] = job[q]
                             \/ ~JoinOf(q, d) /\ ~JoinOf(q, d)',
         \A q \in Handlers : JoinOf(q, d) /\ pc[q] = "activate" =>
           \A p \in Handlers \ {q} : job'[p].row # job[q].row,
         \A a \in rows' : a.device = d =>
           \E b \in rows : /\ b.device = d /\ b.id = a.id /\ b.token = a.token
                           /\ b.team = a.team \/ \E p \in Handlers : ~JoinOf(p, d) /\ job[p].row = b.id
  PROVE  SessionOf(d)'
  <1>1. \A q \in Handlers : JoinOf(q, d)' <=> JoinOf(q, d)
    BY DEF JoinOf
  <1>2. \A q \in Handlers : JoinOf(q, d) => pc'[q] = pc[q] /\ job'[q] = job[q]
    OBVIOUS
  <1>3. OneJoin(d)'
    BY <1>1 DEF SessionOf, OneJoin
  <1>4. \A a \in RowsOf(d)' : \E b \in RowsOf(d) :
          /\ b.id = a.id /\ b.token = a.token
          /\ b.team = a.team \/ \E p \in Handlers : ~JoinOf(p, d) /\ job[p].row = b.id
    BY DEF RowsOf
  <1>5. OneRow(d)'
    <2> SUFFICES ASSUME NEW a \in RowsOf(d)', NEW b \in RowsOf(d)' PROVE a = b
      BY DEF OneRow
    <2>1. a.id = b.id
      BY <1>4 DEF SessionOf, OneRow
    <2> QED BY <2>1 DEF RowsKeyed, RowsOf
  <1>6. ASSUME NEW q \in Handlers, JoinOf(q, d) PROVE Joins(q, d)'
    <2>1. Joins(q, d) /\ pc'[q] = pc[q] /\ job'[q] = job[q]
      BY <1>2, <1>6 DEF SessionOf
    <2>2. RowsOf(d) = {} => RowsOf(d)' = {}
      BY <1>4
    <2>3. \A i : (\A a \in RowsOf(d) : a.id = i) => \A a \in RowsOf(d)' : a.id = i
      BY <1>4
    <2>4. \A i : (\A a \in RowsOf(d) : a.token = i) => \A a \in RowsOf(d)' : a.token = i
      BY <1>4
    <2>5. ASSUME pc[q] = "activate"
          PROVE  /\ \A a \in RowsOf(d)' : a.team = job[q].team
                 /\ \A p \in Handlers \ {q} : job'[p].row # job[q].row
      <3>1. /\ \A a \in RowsOf(d) : a.id = job[q].row /\ a.team = job[q].team
            /\ \A p \in Handlers \ {q} : job[p].row # job[q].row
        BY <2>1, <2>5 DEF Joins
      <3>2. \A a \in RowsOf(d)' : a.team = job[q].team
        BY <1>4, <1>6, <3>1
      <3> QED BY <1>6, <2>5, <3>2
    <2> QED BY <2>1, <2>2, <2>3, <2>4, <2>5 DEF Joins
  <1>7. Holds(d)'
    <2> SUFFICES ASSUME d \notin misread', \A r \in Handlers : JoinOf(r, d)' => pc'[r] \notin Told
                 PROVE  \A a \in RowsOf(d)' : a.token = phone'[d]
      BY DEF Holds
    <2>1. \A r \in Handlers : JoinOf(r, d) => pc[r] \notin Told
      BY <1>1, <1>2
    <2>2. \A a \in RowsOf(d) : a.token = phone[d]
      BY <2>1 DEF SessionOf, Holds
    <2> QED BY <1>4, <2>2
  <1> QED BY <1>1, <1>3, <1>5, <1>6, <1>7 DEF SessionOf

\* Steps of a join of d: what other handlers rely on stays.
LEMMA SessionOwn ==
  ASSUME NEW d, SessionOf(d), NEW r \in Handlers, JoinOf(r, d), Others(r),
         OneRow(d)', JoinOf(r, d)' => Joins(r, d)', Holds(d)'
  PROVE  SessionOf(d)'
  <1>1. \A q \in Handlers \ {r} : ~JoinOf(q, d)'
    BY DEF SessionOf, OneJoin, Others, JoinOf
  <1> QED BY <1>1 DEF SessionOf, OneJoin

\* The fresh row of a join of d is not the one another handler read with its request.
LEMMA RowUnknown ==
  ASSUME TypeInv, KeyInv, NEW d, SessionOf(d), NEW q \in Handlers, JoinOf(q, d), pc[q] = "activate"
  PROVE  /\ job[q].row # 0 /\ \A p \in Handlers \ {q} : job[p].row # job[q].row
         /\ \A a \in rows : a.device # d => a.id # job[q].row
         /\ \A a \in rows : a.token = phone[d] /\ d \in Devices => a.id # job[q].row
  <1>1. /\ job[q].row # 0 /\ phone[d] # job[q].token /\ \A p \in Handlers \ {q} : job[p].row # job[q].row
        /\ \A a \in RowsOf(d) : a.token = job[q].token
    BY DEF SessionOf, Joins, Told
  <1>2. \A a \in rows : a.id = job[q].row => a.device = d
    BY DEF KeyInv, Owns, JoinOf
  <1>3. \A a \in rows : a.token = phone[d] /\ d \in Devices => a.device = d
    BY DEF KeyInv, PhoneOwns
  <1> QED BY <1>1, <1>2, <1>3 DEF RowsOf

LEMMA OthersStay == ASSUME TypeInv, NEW r \in Handlers, Step(r) \/ Receive(r) PROVE Others(r)
  <1>1. CASE Probe(r)
    BY <1>1, Elsewhere DEF Probe
  <1>2. CASE JoinRivals(r) \/ Oust(r) \/ Clear(r)
    BY <1>2, Elsewhere DEF JoinRivals, Oust, Clear
  <1>3. CASE SelectRivals(r)
    BY <1>3, Elsewhere DEF SelectRivals, End
  <1> QED BY <1>1, <1>2, <1>3, Quits DEF Step

LEMMA Bystander ==
  ASSUME TypeInv, KeyInv, RowsKeyed', NEW d \in Devices, SessionOf(d),
         NEW r \in Handlers, ~JoinOf(r, d), ~JoinOf(r, d)', Others(r),
         phone'[d] = phone[d], d \notin misread' => d \notin misread,
         \/ job'[r].row \in {job[r].row, 0, nextId}
         \/ \E a \in rows : a.id = job'[r].row /\ (a.device # d \/ a.token = phone[d]),
         \A a \in rows' : a.device = d =>
           \E b \in rows : /\ b.device = d /\ b.id = a.id /\ b.token = a.token
                           /\ b.team = a.team \/ b.id = job[r].row
  PROVE  SessionOf(d)'
  <1>1. \A q \in Handlers : \/ pc'[q] = pc[q] /\ job'[q] = job[q]
                            \/ ~JoinOf(q, d) /\ ~JoinOf(q, d)'
    BY DEF Others
  <1>2. ASSUME NEW q \in Handlers, JoinOf(q, d), pc[q] = "activate", NEW p \in Handlers \ {q}
        PROVE  job'[p].row # job[q].row
    <2>1. /\ job[q].row # 0 /\ job[p].row # job[q].row
          /\ \A a \in rows : a.device # d \/ a.token = phone[d] => a.id # job[q].row
      BY <1>2, RowUnknown
    <2>2. job[q].row # nextId
      BY Numbers DEF TypeInv, KeyInv, Owns
    <2>3. CASE p = r
      <3>1. r # q
        BY <1>2
      <3>2. job[r].row # job[q].row
        BY <1>2, <2>1, <2>3
      <3> QED BY <2>1, <2>2, <2>3, <3>2
    <2>4. CASE p # r
      BY <2>1, <2>4 DEF Others
    <2> QED BY <2>3, <2>4
  <1>3. \A a \in rows' : a.device = d =>
          \E b \in rows : /\ b.device = d /\ b.id = a.id /\ b.token = a.token
                          /\ b.team = a.team \/ \E p \in Handlers : ~JoinOf(p, d) /\ job[p].row = b.id
    OBVIOUS
  <1> QED BY <1>1, <1>2, <1>3, SessionQuiet

LEMMA SessionStill ==
  ASSUME TypeInv, KeyInv, RowsKeyed', NEW d \in Devices, SessionOf(d), NEW r \in Handlers, ~JoinOf(r, d),
         Still(r)
  PROVE  SessionOf(d)'
  <1>1. JobKept(r) \/ job'[r] = NoJob
    BY StillKeeps
  <1>2. job'[r].row \in {job[r].row, 0} /\ ~JoinOf(r, d)'
    BY <1>1 DEF JobKept, JoinOf, NoJob
  <1>3. Others(r)
    BY OthersStay DEF Still, Step
  <1>4. phone'[d] = phone[d] /\ (d \notin misread' => d \notin misread)
    <2>1. CASE Answer(r)
      <3>1. job[r].kind = "join"
        BY <2>1, OneOf DEF Answer, Fits
      <3>2. d # job[r].device
        BY <3>1 DEF JoinOf
      <3>3. phone \in [Devices -> Ids]
        BY DEF TypeInv, Typing, Tabled
      <3> QED BY <2>1, <3>2, <3>3 DEF Answer
    <2>2. CASE ~Answer(r)
      <3>1. phone' = phone /\ misread' = misread
        BY <2>2 DEF Still, ReadTeams, Trim, CreateTeam, Place, Probe, JoinRivals, Oust, Clear, Activate, Drop,
                    Touch, WriteProfile, SelectRivals, Move, Release, Wipe, ZeroTeams, Environment, history
      <3> QED BY <3>1
    <2> QED BY <2>1, <2>2
  <1>5. ASSUME NEW a \in rows', a.device = d
        PROVE  \E b \in rows : /\ b.device = d /\ b.id = a.id /\ b.token = a.token
                               /\ b.team = a.team \/ b.id = job[r].row
    <2>1. CASE Touch(r)
      <3>1. \/ rows' = rows
            \/ \E x \in rows : rows' = (rows \ {x}) \cup {Fresh(x, 0)}
        BY <2>1, RenewIs DEF Touch, Ids, TypeInv, KeyInv
      <3>2. ASSUME NEW x \in rows
            PROVE  /\ Fresh(x, 0).device = x.device /\ Fresh(x, 0).id = x.id
                   /\ Fresh(x, 0).token = x.token /\ Fresh(x, 0).team = x.team
        <4>1. x \in Row /\ 0 \in Ids
          BY DEF Ids, TypeInv, Typing, Tabled
        <4> QED BY <4>1, FreshIs
      <3> QED BY <1>5, <3>1, <3>2
    <2>2. CASE Move(r)
      <3>1. \/ rows' = rows
            \/ \E x \in rows, y \in Row : /\ x.id = job[r].row /\ y.id = x.id /\ y.device = x.device /\ y.token = x.token
                                          /\ rows' = (rows \ {x}) \cup {y}
        BY <2>2, MoveIs DEF KeyInv
      <3> QED BY <1>5, <3>1
    <2>3. CASE ~Touch(r) /\ ~Move(r)
      <3>1. rows' \subseteq rows
        BY <2>3 DEF Still, ReadTeams, Trim, CreateTeam, Place, Probe, JoinRivals, Oust, Clear, Activate, Answer, Drop,
                    WriteProfile, SelectRivals, Release, Wipe, ZeroTeams, Tables
      <3> QED BY <1>5, <3>1
    <2> QED BY <2>1, <2>2, <2>3
  <1> QED BY <1>2, <1>3, <1>4, <1>5, Bystander

\* Joins of other devices.
LEMMA SessionOther ==
  ASSUME TypeInv, KeyInv, RowsKeyed', NEW d \in Devices, SessionOf(d), NEW r \in Handlers, ~JoinOf(r, d),
         FindRow(r) \/ Rotate(r) \/ CreateRow(r)
  PROVE  SessionOf(d)'
  <1>1. PICK j \in Job : j = job[r] /\ Fits(pc[r], j)
    BY OneOf
  <1>2. j.kind = "join" /\ j.device # d
    BY <1>1 DEF FindRow, Rotate, CreateRow, Fits, JoinOf
  <1>3. Others(r)
    BY OthersStay DEF Step
  <1>4. phone' = phone /\ misread' = misread
    BY DEF FindRow, Rotate, CreateRow, Environment, history
  <1>5. CASE FindRow(r)
    <2>1. rows' = rows
      BY <1>5 DEF FindRow, Tables
    <2>2. CASE RowsOf(j.device) = {}
      <3> DEFINE jj == [j EXCEPT !.list = <<>>, !.slot = 0]
      <3>1. jj.row = j.row /\ jj.device = j.device
        BY DEF Job
      <3>2. Goto(r, "place", jj)
        BY <1>1, <1>5, <2>2 DEF FindRow
      <3> HIDE DEF jj
      <3>3. job'[r] = jj
        BY <3>2, Elsewhere
      <3>4. ~JoinOf(r, d)'
        BY <1>2, <3>1, <3>3 DEF JoinOf
      <3> QED BY <1>1, <1>3, <1>4, <2>1, <3>1, <3>3, <3>4, Bystander
    <2>3. CASE RowsOf(j.device) # {}
      <3>0. Tabled /\ \A a \in rows : a.id < nextId
        BY DEF TypeInv, Typing, KeyInv, RowsKeyed
      <3>1. PICK a \in rows : a = Newest(j.device) /\ a.device = j.device
        BY <2>3, <3>0, NewestIs DEF RowsOf
      <3> DEFINE jj == [j EXCEPT !.list = <<>>, !.slot = 0, !.row = a.id, !.team = a.team]
      <3>2. jj.row = a.id /\ jj.device = j.device
        BY DEF Job
      <3>3. Goto(r, IF a.live THEN "rotate" ELSE "place", jj)
        BY <1>1, <1>5, <2>3, <3>1 DEF FindRow
      <3> HIDE DEF jj
      <3>4. job'[r] = jj
        BY <3>3, Elsewhere
      <3>5. ~JoinOf(r, d)'
        BY <1>2, <3>2, <3>4 DEF JoinOf
      <3> QED BY <1>2, <1>3, <1>4, <2>1, <3>1, <3>2, <3>4, <3>5, Bystander
    <2> QED BY <2>2, <2>3
  <1>6. CASE Rotate(r)
    <2>1. \/ rows' = rows
          \/ \E x \in rows : x.id = j.row /\ rows' = (rows \ {x}) \cup {Fresh(x, nextId)}
      BY <1>1, <1>6, RenewIs DEF Rotate, Ids, TypeInv, Typing, Tabled, KeyInv
    <2>2. ASSUME NEW a \in rows', a.device = d PROVE a \in rows
      <3>1. ASSUME NEW x \in rows, x.id = j.row PROVE Fresh(x, nextId).device # d
        <4>1. x.device = j.device
          BY <1>1, <3>1 DEF KeyInv, Owns
        <4>2. x \in Row /\ nextId \in Ids
          BY DEF Ids, TypeInv, Typing, Tabled
        <4> QED BY <1>2, <4>1, <4>2, FreshIs
      <3> QED BY <2>1, <2>2, <3>1
    <2>3. job'[r].row \in {j.row, 0} /\ ~JoinOf(r, d)'
      <3>1. CASE Goto(r, "answer", [j EXCEPT !.token = nextId])
        <4> DEFINE jj == [j EXCEPT !.token = nextId]
        <4>1. jj.row = j.row /\ jj.device = j.device
          BY DEF Job
        <4>2. job'[r] = jj
          BY <3>1, Elsewhere
        <4> HIDE DEF jj
        <4> QED BY <1>2, <4>1, <4>2 DEF JoinOf
      <3>2. CASE End(r)
        <4>1. job'[r] = NoJob
          BY <3>2, Elsewhere DEF End
        <4> QED BY <4>1 DEF JoinOf, NoJob
      <3> QED BY <1>1, <1>6, <3>1, <3>2 DEF Rotate
    <2> QED BY <1>1, <1>3, <1>4, <2>2, <2>3, Bystander
  <1>7. CASE CreateRow(r)
    <2>1. CASE rows' = rows /\ End(r)
      <3>1. job'[r] = NoJob
        BY <2>1, Elsewhere DEF End
      <3>2. job'[r].row = 0 /\ ~JoinOf(r, d)'
        BY <3>1 DEF JoinOf, NoJob
      <3> QED BY <1>3, <1>4, <2>1, <3>2, Bystander
    <2>2. ASSUME NEW y \in Row, NEW k \in Job, y.device = j.device, rows' = rows \cup {y},
                 Goto(r, "activate", k), k.row = nextId, k.device = j.device
          PROVE  SessionOf(d)'
      <3>1. job'[r] = k
        BY <2>2, Elsewhere
      <3>2. job'[r].row = nextId /\ ~JoinOf(r, d)'
        BY <1>2, <2>2, <3>1 DEF JoinOf
      <3>3. \A a \in rows' : a.device = d => a \in rows
        BY <1>2, <2>2
      <3> QED BY <1>3, <1>4, <3>2, <3>3, Bystander
    <2> QED BY <1>1, <1>7, <2>1, <2>2, CreateIs
  <1> QED BY <1>5, <1>6, <1>7

LEMMA FreeIsIdle == ASSUME TypeInv, NEW r \in Handlers, Free(r) PROVE pc[r] = "idle" /\ job[r] = NoJob
  <1>1. r \in {q \in Handlers : pc[q] = "idle"}
    BY DEF Free
  <1> QED BY <1>1 DEF TypeInv, Fits

LEMMA SessionReceive ==
  ASSUME TypeInv, KeyInv, RowsKeyed', NEW d \in Devices, d \notin doubled', SessionOf(d),
         NEW r \in Handlers, Receive(r)
  PROVE  SessionOf(d)'
  <1>1. pc[r] = "idle" /\ job[r] = NoJob /\ ~JoinOf(r, d)
    <2>1. Free(r)
      BY DEF Receive, ReceiveJoin, ReceiveReset, ReceiveSession
    <2>2. pc[r] = "idle" /\ job[r] = NoJob
      BY <2>1, FreeIsIdle
    <2>3. NoJob.kind = "none"
      BY DEF NoJob
    <2> QED BY <2>2, <2>3 DEF JoinOf
  <1>2. Others(r)
    BY OthersStay
  <1>3. rows' = rows /\ phone' = phone /\ misread' = misread
    BY DEF Receive, ReceiveJoin, ReceiveReset, ReceiveSession, Tables, history
  <1>4. ASSUME NEW e \in Devices, ReceiveJoin(r, e) PROVE SessionOf(d)'
    <2> DEFINE j == [NoJob EXCEPT !.kind = "join", !.device = e, !.size = teamCount]
    <2>1. j.row = 0 /\ j.device = e /\ j.kind = "join"
      BY DEF NoJob
    <2>2. Goto(r, "teams", j)
      BY <1>4 DEF ReceiveJoin
    <2> HIDE DEF j
    <2>3. job'[r] = j /\ pc'[r] = "teams"
      BY <2>2, Elsewhere
    <2>4. CASE e # d
      <3>1. ~JoinOf(r, d)'
        BY <2>1, <2>3, <2>4 DEF JoinOf
      <3> QED BY <1>1, <1>2, <1>3, <2>1, <2>3, <3>1, Bystander
    <2>5. CASE e = d
      <3>1. \A q \in Handlers : ~JoinOf(q, d)
        BY <1>4, <2>5 DEF ReceiveJoin, JoinOf
      <3>2. \A q \in Handlers \ {r} : ~JoinOf(q, d)'
        BY <1>2, <3>1 DEF Others, JoinOf
      <3>3. Joins(r, d)'
        BY <2>3 DEF Joins, Told
      <3>4. RowsOf(d)' = RowsOf(d)
        BY <1>3 DEF RowsOf
      <3>5. Holds(d)'
        BY <1>3, <3>1, <3>4 DEF SessionOf, Holds
      <3>6. OneRow(d)' /\ OneJoin(d)'
        BY <3>2, <3>4 DEF SessionOf, OneRow, OneJoin
      <3> QED BY <3>2, <3>3, <3>5, <3>6 DEF SessionOf
    <2> QED BY <2>4, <2>5
  <1>5. ASSUME ReceiveReset(r) PROVE SessionOf(d)'
    <2> DEFINE j == [NoJob EXCEPT !.kind = "reset", !.size = teamCount]
    <2>1. j.row = 0 /\ j.kind = "reset"
      BY DEF NoJob
    <2>2. Goto(r, "teams", j)
      BY <1>5 DEF ReceiveReset
    <2> HIDE DEF j
    <2>3. job'[r] = j
      BY <2>2, Elsewhere
    <2>4. ~JoinOf(r, d)'
      BY <2>1, <2>3 DEF JoinOf
    <2> QED BY <1>1, <1>2, <1>3, <2>1, <2>3, <2>4, Bystander
  <1>6. ASSUME NEW e \in Devices, NEW k \in {"state", "profile", "select"}, NEW s \in 0..MaxTeams,
               ReceiveSession(r, e, k, s)
        PROVE  SessionOf(d)'
    <2>1. PICK a \in rows :
            /\ a.token = phone[e]
            /\ Goto(r, IF a.live THEN "touch" ELSE "drop",
                    [NoJob EXCEPT !.kind = k, !.device = e, !.slot = s, !.row = a.id, !.token = a.token, !.team = a.team])
      BY <1>6 DEF ReceiveSession
    <2> DEFINE j == [NoJob EXCEPT !.kind = k, !.device = e, !.slot = s, !.row = a.id, !.token = a.token, !.team = a.team]
               p == IF a.live THEN "touch" ELSE "drop"
    <2>2. j.row = a.id /\ j.kind = k
      BY DEF NoJob
    <2>3. Goto(r, p, j)
      BY <2>1
    <2> HIDE DEF j, p
    <2>4. job'[r] = j
      BY <2>3, Elsewhere
    <2>5. ~JoinOf(r, d)'
      BY <2>2, <2>4 DEF JoinOf
    <2>6. a.device # d \/ a.token = phone[d]
      BY <2>1 DEF KeyInv, PhoneOwns
    <2> QED BY <1>1, <1>2, <1>3, <2>2, <2>4, <2>5, <2>6, Bystander
  <1> QED BY <1>4, <1>5, <1>6 DEF Receive

LEMMA SessionOutside ==
  ASSUME TypeInv, KeyInv, RowsKeyed', NEW d \in Devices, SessionOf(d),
         Resize \/ (\E a \in rows : Expire(a)) \/ UNCHANGED vars
  PROVE  SessionOf(d)'
  <1>1. phone' = phone /\ misread' = misread /\ pc' = pc /\ job' = job
    BY DEF Resize, Expire, vars, history
  <1>2. \A q \in Handlers : JoinOf(q, d) /\ pc[q] = "activate" =>
          \A p \in Handlers \ {q} : job'[p].row # job[q].row
    BY <1>1, RowUnknown
  <1>3. ASSUME NEW a \in rows'
        PROVE  \E b \in rows : b.device = a.device /\ b.id = a.id /\ b.token = a.token /\ b.team = a.team
    <2>1. CASE rows' = rows
      BY <1>3, <2>1
    <2>2. ASSUME NEW x \in rows, Expire(x)
          PROVE  \E b \in rows : b.device = a.device /\ b.id = a.id /\ b.token = a.token /\ b.team = a.team
      BY <1>3, <2>2, ExpireIs
    <2> QED BY <2>1, <2>2 DEF Resize, vars
  <1> QED BY <1>1, <1>2, <1>3, SessionQuiet

-----------------------------------------------------------------------------
(* The statements of the one join of d.                                    *)

\* On the way to a decision the device may only lose sessions.
LEMMA SessionOnTheWay ==
  ASSUME NEW d, SessionOf(d), NEW r \in Handlers, JoinOf(r, d), Others(r), rows' \subseteq rows,
         pc[r] \notin Told, phone' = phone, misread' = misread,
         JoinOf(r, d)' => Joins(r, d)'
  PROVE  SessionOf(d)'
  <1>1. \A q \in Handlers : JoinOf(q, d) => q = r
    BY DEF SessionOf, OneJoin
  <1>2. RowsOf(d)' \subseteq RowsOf(d)
    BY DEF RowsOf
  <1>3. OneRow(d)'
    BY <1>2 DEF SessionOf, OneRow
  <1>4. Holds(d)'
    BY <1>1, <1>2 DEF SessionOf, Holds
  <1> QED BY <1>3, <1>4, SessionOwn

LEMMA SessionTeams ==
  ASSUME TypeInv, NEW d, SessionOf(d), NEW r \in Handlers, JoinOf(r, d),
         ReadTeams(r) \/ Trim(r) \/ CreateTeam(r) \/ JoinRivals(r) \/ Oust(r)
  PROVE  SessionOf(d)'
  <1>1. rows' \subseteq rows /\ phone' = phone /\ misread' = misread
    BY DEF ReadTeams, Trim, CreateTeam, JoinRivals, Oust, Tables, Environment, history
  <1>2. pc[r] \notin Told
    BY DEF ReadTeams, Trim, CreateTeam, JoinRivals, Oust, Told
  <1>3. Others(r)
    BY OthersStay DEF Step
  <1>4. pc'[r] \in {"trim", "createTeam", "wipe", "find", "idle", "oust", "clear"}
    <2>1. job[r].kind = "join"
      BY DEF JoinOf
    <2>2. CASE ReadTeams(r) \/ Trim(r)
      BY <2>2, Elsewhere DEF ReadTeams, Trim, AfterTeams
    <2>3. CASE CreateTeam(r)
      BY <2>3, Elsewhere DEF CreateTeam, AfterTeams, End
    <2>4. CASE JoinRivals(r) \/ Oust(r)
      BY <2>1, <2>4, Elsewhere DEF JoinRivals, Oust
    <2> QED BY <2>2, <2>3, <2>4
  <1>5. Joins(r, d)'
    BY <1>4 DEF Joins, Told
  <1> QED BY <1>1, <1>2, <1>3, <1>5, SessionOnTheWay

LEMMA SessionFinds ==
  ASSUME TypeInv, KeyInv, NEW d, SessionOf(d), NEW r \in Handlers, JoinOf(r, d), FindRow(r)
  PROVE  SessionOf(d)'
  <1>1. PICK j \in Job : j = job[r]
    BY OneOf
  <1>2. rows' = rows /\ phone' = phone /\ misread' = misread /\ pc[r] \notin Told /\ j.device = d
    BY <1>1 DEF FindRow, Tables, Environment, history, Told, JoinOf
  <1>3. Others(r)
    BY OthersStay DEF Step
  <1>4. RowsOf(d)' = RowsOf(d)
    BY <1>2 DEF RowsOf
  <1>5. CASE RowsOf(d) = {}
    <2>1. pc'[r] = "place"
      BY <1>1, <1>2, <1>5, Elsewhere DEF FindRow
    <2>2. Joins(r, d)'
      BY <1>4, <1>5, <2>1 DEF Joins, Told
    <2> QED BY <1>2, <1>3, <2>2, SessionOnTheWay
  <1>6. CASE RowsOf(d) # {}
    <2>0. Tabled /\ \A a \in rows : 0 < a.id /\ a.id < nextId
      BY DEF TypeInv, Typing, KeyInv, RowsKeyed
    <2>1. PICK a \in RowsOf(d) : a = Newest(d)
      BY <1>6, <2>0, NewestIs
    <2> DEFINE jj == [j EXCEPT !.list = <<>>, !.slot = 0, !.row = a.id, !.team = a.team]
    <2>2. jj.row = a.id
      BY DEF Job
    <2>3. Goto(r, IF a.live THEN "rotate" ELSE "place", jj)
      BY <1>1, <1>2, <1>6, <2>1 DEF FindRow
    <2> HIDE DEF jj
    <2>4. job'[r].row = a.id /\ pc'[r] \in {"rotate", "place"}
      BY <2>2, <2>3, Elsewhere
    <2>5. a.id # 0 /\ \A b \in RowsOf(d) : b.id = a.id
      BY <2>0, Numbers DEF TypeInv, SessionOf, OneRow, RowsOf
    <2>6. Joins(r, d)'
      BY <1>4, <2>4, <2>5 DEF Joins, Told
    <2> QED BY <1>2, <1>3, <2>6, SessionOnTheWay
  <1> QED BY <1>5, <1>6

LEMMA SessionPlaces ==
  ASSUME TypeInv, NEW d, SessionOf(d), NEW r \in Handlers, JoinOf(r, d), Place(r) \/ Probe(r) \/ Clear(r)
  PROVE  SessionOf(d)'
  <1>1. rows' \subseteq rows /\ phone' = phone /\ misread' = misread /\ pc[r] \notin Told
    BY DEF Place, Probe, Clear, Tables, Environment, history, Told
  <1>2. Others(r)
    BY OthersStay DEF Step
  <1>3. RowsOf(d)' \subseteq RowsOf(d)
    BY <1>1 DEF RowsOf
  <1>4. pc'[r] \in {"idle", "joinRivals"} \/ (pc'[r] \in {"probe", "create"} /\ RowsOf(d)' = {})
    <2>1. CASE Place(r)
      <3>1. pc'[r] \in {"idle", "joinRivals"} \/ (pc'[r] = "probe" /\ job[r].row = 0)
        BY <2>1, Elsewhere DEF Place, End
      <3>2. job[r].row = 0 => RowsOf(d) = {}
        BY <2>1 DEF Place, SessionOf, Joins
      <3> QED BY <1>3, <3>1, <3>2
    <2>2. CASE Probe(r)
      <3>1. pc'[r] \in {"probe", "create"}
        BY <2>2, Elsewhere DEF Probe
      <3>2. RowsOf(d) = {}
        BY <2>2 DEF Probe, SessionOf, Joins
      <3> QED BY <1>3, <3>1, <3>2
    <2>3. CASE Clear(r)
      <3>1. pc'[r] = "create"
        BY <2>3, Elsewhere DEF Clear
      <3>2. RowsOf(d)' = {}
        BY <2>3 DEF Clear, RowsOf, JoinOf
      <3> QED BY <3>1, <3>2
    <2> QED BY <2>1, <2>2, <2>3
  <1>5. Joins(r, d)'
    BY <1>4 DEF Joins, Told
  <1> QED BY <1>1, <1>2, <1>5, SessionOnTheWay

LEMMA SessionRotates ==
  ASSUME TypeInv, KeyInv, NEW d, SessionOf(d), NEW r \in Handlers, JoinOf(r, d), Rotate(r)
  PROVE  SessionOf(d)'
  <1>1. PICK j \in Job : j = job[r]
    BY OneOf
  <1>2. phone' = phone /\ misread' = misread /\ j.device = d
    BY <1>1 DEF Rotate, Environment, JoinOf
  <1>3. Others(r)
    BY OthersStay DEF Step
  <1>4. \A a \in RowsOf(d) : a.id = j.row
    BY <1>1 DEF Rotate, SessionOf, Joins
  <1>5. CASE RowById(j.row) = {}
    <2>1. rows' = rows /\ pc'[r] = "idle"
      BY <1>1, <1>5, Elsewhere DEF Rotate, Renew, End
    <2>2. RowsOf(d)' = {}
      BY <1>4, <1>5, <2>1 DEF RowsOf, RowById
    <2> QED BY <1>3, <2>1, <2>2, SessionOwn DEF OneRow, Holds, Joins, Told
  <1>6. CASE RowById(j.row) # {}
    <2> DEFINE jj == [j EXCEPT !.token = nextId]
    <2>1. jj.token = nextId
      BY DEF Job
    <2>2. Goto(r, "answer", jj)
      BY <1>1, <1>6 DEF Rotate
    <2> HIDE DEF jj
    <2>3. job'[r].token = nextId /\ pc'[r] = "answer"
      BY <2>1, <2>2, Elsewhere
    <2>a. nextId \in Ids /\ Typing /\ RowsKeyed
      BY DEF Ids, TypeInv, Typing, Tabled, KeyInv
    <2>4. PICK x \in rows : x.id = j.row /\ rows' = (rows \ {x}) \cup {Fresh(x, nextId)}
      BY <1>1, <1>6, <2>a, RenewIs DEF Rotate
    <2>5. PICK y : y = Fresh(x, nextId) /\ y.token = nextId
      <3>1. x \in Row /\ nextId # 0
        BY DEF TypeInv, Typing, Tabled
      <3> QED BY <2>a, <3>1, FreshIs
    <2>6. \A a \in rows : a.device = d => a = x
      BY <1>4, <2>4 DEF RowsOf, KeyInv, RowsKeyed
    <2>7. \A a \in RowsOf(d)' : a = y
      BY <2>4, <2>5, <2>6 DEF RowsOf
    <2>8. OneRow(d)' /\ \A a \in RowsOf(d)' : a.token = job'[r].token
      BY <2>3, <2>5, <2>7 DEF OneRow
    <2>9. Joins(r, d)'
      BY <2>3, <2>8 DEF Joins
    <2>10. JoinOf(r, d)' /\ pc'[r] \in Told
      <3>1. jj.kind = j.kind /\ jj.device = j.device
        BY DEF Job, jj
      <3> QED BY <1>1, <2>2, <2>3, <3>1, Elsewhere DEF JoinOf, Told
    <2>11. Holds(d)'
      BY <2>10 DEF Holds
    <2> QED BY <1>3, <2>8, <2>9, <2>11, SessionOwn
  <1> QED BY <1>5, <1>6

LEMMA SessionCreates ==
  ASSUME TypeInv, KeyInv, NEW d \in Devices, SessionOf(d), NEW r \in Handlers, JoinOf(r, d), CreateRow(r)
  PROVE  SessionOf(d)'
  <1>1. phone' = phone /\ misread' = misread /\ RowsOf(d) = {}
    BY DEF CreateRow, Environment, SessionOf, Joins
  <1>2. Others(r)
    BY OthersStay DEF Step
  <1>3. CASE rows' = rows /\ End(r)
    <2>1. pc'[r] = "idle" /\ RowsOf(d)' = {}
      BY <1>1, <1>3, Elsewhere DEF End, RowsOf
    <2> QED BY <1>2, <2>1, SessionOwn DEF OneRow, Holds, Joins, Told
  <1>4. ASSUME NEW y \in Row, NEW j \in Job, y.id = nextId, y.token = nextId, y.team = job[r].team,
               rows' = rows \cup {y}, Goto(r, "activate", j), j.row = nextId, j.token = nextId,
               j.kind = job[r].kind, j.device = job[r].device, j.team = job[r].team
        PROVE  SessionOf(d)'
    <2>1. pc'[r] = "activate" /\ job'[r] = j
      BY <1>4, Elsewhere
    <2>2. \A a \in RowsOf(d)' : a = y
      BY <1>1, <1>4 DEF RowsOf
    <2>3. nextId # 0 /\ phone[d] # nextId /\ \A q \in Handlers : job[q].row # nextId
      BY Numbers DEF TypeInv, KeyInv, PhoneOwns, Owns
    <2>4. Joins(r, d)'
      BY <1>1, <1>2, <1>4, <2>1, <2>2, <2>3 DEF Joins, Others
    <2>5. JoinOf(r, d)' /\ pc'[r] \in Told
      BY <1>4, <2>1 DEF JoinOf, Told
    <2>6. OneRow(d)' /\ Holds(d)'
      BY <2>2, <2>5 DEF OneRow, Holds
    <2> QED BY <1>2, <2>4, <2>6, SessionOwn
  <1> QED BY <1>3, <1>4, CreateIs

LEMMA SessionTells ==
  ASSUME TypeInv, KeyInv, NEW d \in Devices, SessionOf(d), NEW r \in Handlers, JoinOf(r, d),
         Activate(r) \/ Answer(r)
  PROVE  SessionOf(d)'
  <1>1. Others(r)
    BY OthersStay DEF Step
  <1>2. rows' = rows /\ \A a \in RowsOf(d) : a.token = job[r].token
    BY DEF Activate, Answer, Tables, SessionOf, Joins, Told
  <1>3. RowsOf(d)' = RowsOf(d)
    BY <1>2 DEF RowsOf
  <1>4. OneRow(d)'
    BY <1>3 DEF SessionOf, OneRow
  <1>5. CASE Activate(r) /\ SlotsOf(job[r].team) # {}
    <2>1. pc'[r] = "answer" /\ job'[r] = job[r]
      BY <1>5, Elsewhere DEF Activate, JoinOf
    <2>2. Joins(r, d)' /\ Holds(d)'
      BY <1>2, <1>3, <2>1 DEF Joins, Holds, Told, JoinOf
    <2> QED BY <1>1, <1>4, <2>2, SessionOwn
  <1>6. CASE Activate(r) /\ SlotsOf(job[r].team) = {}
    <2>1. pc'[r] = "idle"
      BY <1>6, Elsewhere DEF Activate, End
    <2>2. \A a \in RowsOf(d) : a.team = job[r].team
      BY <1>6 DEF SessionOf, Joins, Activate
    <2>3. RowsOf(d)' = {}
      BY <1>3, <1>6, <2>2 DEF KeyInv, TeamsExist, RowsOf
    <2> QED BY <1>1, <1>4, <2>1, <2>3, SessionOwn DEF Holds, Joins, Told
  <1>7. CASE Answer(r)
    <2>1. pc'[r] = "idle"
      BY <1>7, Elsewhere DEF Answer, End
    <2>2. phone \in [Devices -> Ids] /\ job[r].device = d
      BY DEF TypeInv, Typing, Tabled, JoinOf
    <2>3. d \in misread' \/ phone'[d] = job[r].token
      BY <1>7, <2>2 DEF Answer
    <2>4. Holds(d)'
      BY <1>2, <1>3, <2>3 DEF Holds
    <2> QED BY <1>1, <1>4, <2>1, <2>4, SessionOwn DEF Joins, Told
  <1> QED BY <1>5, <1>6, <1>7

LEMMA SessionStep == BaseInv /\ BaseInv' /\ SessionInv /\ [Next]_vars => SessionInv'
  <1> SUFFICES ASSUME TypeInv, KeyInv, RowsKeyed', SessionInv, [Next]_vars, NEW d \in Devices, d \notin doubled'
               PROVE  SessionOf(d)'
    BY DEF BaseInv, KeyInv, SessionInv
  <1>1. doubled \subseteq doubled'
    <2>1. ASSUME NEW r \in Handlers, Receive(r) PROVE doubled \subseteq doubled'
      BY <2>1 DEF Receive, ReceiveJoin, ReceiveReset, ReceiveSession, history
    <2>2. ASSUME NEW r \in Handlers, Step(r) PROVE doubled' = doubled
      BY <2>2 DEF Step, ReadTeams, Trim, CreateTeam, FindRow, Rotate, Place, Probe, JoinRivals, Oust, Clear, CreateRow,
                  Activate, Answer, Drop, Touch, WriteProfile, SelectRivals, Move, Release, Wipe, ZeroTeams, history
    <2>3. ASSUME Resize \/ (\E a \in rows : Expire(a)) \/ UNCHANGED vars PROVE doubled' = doubled
      BY <2>3 DEF Resize, Expire, vars, history
    <2> QED BY <2>1, <2>2, <2>3 DEF Next
  <1>2. SessionOf(d)
    BY <1>1 DEF SessionInv
  <1>3. ASSUME NEW r \in Handlers, Step(r), ~JoinOf(r, d) PROVE SessionOf(d)'
    BY <1>2, <1>3, SessionStill, SessionOther DEF Step, Still
  <1>4. ASSUME NEW r \in Handlers, Step(r), JoinOf(r, d) PROVE SessionOf(d)'
    <2>1. ~Drop(r) /\ ~Touch(r) /\ ~WriteProfile(r) /\ ~SelectRivals(r) /\ ~Move(r) /\ ~Release(r) /\ ~Wipe(r) /\ ~ZeroTeams(r)
      BY <1>4, OneOf DEF Fits, JoinOf, Drop, Touch, WriteProfile, SelectRivals, Move, Release, Wipe, ZeroTeams
    <2> QED BY <1>2, <1>4, <2>1, SessionTeams, SessionFinds, SessionPlaces, SessionRotates, SessionCreates,
               SessionTells DEF Step
  <1>5. ASSUME NEW r \in Handlers, Receive(r) PROVE SessionOf(d)'
    BY <1>2, <1>5, SessionReceive
  <1> QED BY <1>2, <1>3, <1>4, <1>5, SessionOutside DEF Next

LEMMA SessionInit == Init => SessionInv
  <1> SUFFICES ASSUME Init, NEW d \in Devices PROVE SessionOf(d)
    BY DEF SessionInv
  <1>1. RowsOf(d) = {} /\ \A r \in Handlers : job[r] = NoJob /\ pc[r] = "idle"
    BY DEF Init, RowsOf
  <1>2. NoJob.kind = "none"
    BY DEF NoJob
  <1> QED BY <1>1, <1>2 DEF SessionOf, OneJoin, OneRow, JoinOf, Holds

\* A device whose joins did not overlap has one session at most, and one that got the
\* answer of its last join holds the token of it, whatever the other devices, the organiser
\* and its own other requests do meanwhile.
THEOREM SessionCorrect == Spec => []SessionHeld
  <1>1. Init => SessionInv
    BY SessionInit
  <1>2. SessionInv => SessionHeld
    <2> SUFFICES ASSUME SessionInv PROVE OneSessionPerDevice /\ PhoneHoldsToken
      BY DEF SessionHeld
    <2>1. OneSessionPerDevice
      <3> SUFFICES ASSUME NEW d \in Devices \ doubled PROVE Cardinality(RowsOf(d)) <= 1
        BY DEF OneSessionPerDevice
      <3>1. \A a, b \in RowsOf(d) : a = b
        BY DEF SessionInv, SessionOf, OneRow
      <3> QED BY <3>1, AtMostOne
    <2>2. PhoneHoldsToken
      BY DEF PhoneHoldsToken, SessionInv, SessionOf, Holds, Joining, JoinOf
    <2> QED BY <2>1, <2>2
  <1> QED BY <1>1, <1>2, BaseAlways, SessionStep, PTL DEF Spec

-----------------------------------------------------------------------------
(* The slots of the teams, as long as the team count does not change under *)
(* a handler that reads and creates them, or no other handler does so.     *)

OneAtATime == \A r, q \in Handlers : r = q
Steady == ~resized \/ OneAtATime

NoGaps == \A s \in 2..MaxTeams : team[s].id # 0 => team[s - 1].id # 0
TeamsKeyed ==
  /\ \A s \in TeamSlots : team[s].id < nextTeam
  /\ \A s, t \in TeamSlots : team[s].id = team[t].id /\ team[s].id # 0 => s = t

\* What a handler relies on that makes the teams match the team count.
Ensures(r) ==
  /\ pc[r] \in Ensuring => job[r].size = teamCount \/ OneAtATime
  /\ pc[r] = "createTeam" => \A s \in 1..(job[r].slot - 1) : team[s].id # 0
  /\ pc[r] = "trim" =>
       /\ \A t \in Surplus(r) : t < nextTeam
       /\ \A s \in TeamSlots : team[s].id # 0 => (team[s].id \in Surplus(r) <=> s > job[r].size)
TeamInv == TeamsKeyed /\ (Steady => NoGaps /\ \A r \in Handlers : Ensures(r))

LEMMA TeamQuiet ==
  ASSUME TypeInv, TeamInv, \A s \in TeamSlots : team'[s].id = team[s].id, nextTeam' = nextTeam,
         teamCount' = teamCount, resized' = resized,
         \A q \in Handlers : (pc'[q] = pc[q] /\ job'[q] = job[q]) \/ pc'[q] \notin Ensuring \/ Ensures(q)'
  PROVE  TeamInv'
  <1>1. TeamsKeyed'
    BY DEF TeamInv, TeamsKeyed
  <1>0. Steady' <=> Steady
    BY DEF Steady
  <1>2. ASSUME Steady PROVE NoGaps'
    <2>1. \A s \in 2..MaxTeams : s \in TeamSlots /\ s - 1 \in TeamSlots
      BY Limits DEF TeamSlots
    <2> QED BY <1>2, <2>1 DEF TeamInv, NoGaps
  <1>3. ASSUME Steady, NEW q \in Handlers PROVE Ensures(q)'
    <2>1. CASE pc'[q] = pc[q] /\ job'[q] = job[q]
      <3>1. Ensures(q)
        BY <1>3 DEF TeamInv
      <3>2. Surplus(q)' = Surplus(q)
        BY <2>1, Zenon DEF Surplus
      <3>3. \A s \in 1..(job[q].slot - 1) : pc[q] = "createTeam" => s \in TeamSlots
        <4>1. PICK j \in Job : j = job[q] /\ Fits(pc[q], j)
          BY OneOf
        <4>2. pc[q] = "createTeam" => j.slot \in 1..j.size /\ j.size \in 0..MaxTeams
          BY <4>1 DEF Fits, Job
        <4> QED BY <4>1, <4>2, Limits DEF TeamSlots
      <3> QED BY <2>1, <3>1, <3>2, <3>3 DEF Ensures
    <2>2. CASE pc'[q] \notin Ensuring
      BY <2>2 DEF Ensures, Ensuring
    <2> QED BY <1>3, <2>1, <2>2
  <1> QED BY <1>0, <1>1, <1>2, <1>3 DEF TeamInv

LEMMA TeamLeft ==
  ASSUME TypeInv, TeamInv, NEW r \in Handlers, Step(r), ~ReadTeams(r), ~Trim(r), ~CreateTeam(r)
  PROVE  TeamInv'
  <1>1. Others(r)
    BY OthersStay
  <1>2. nextTeam' = nextTeam /\ teamCount' = teamCount /\ resized' = resized
    BY DEF Step, FindRow, Rotate, Place, Probe, JoinRivals, Oust, Clear, CreateRow, Activate, Answer, Drop, Touch,
           WriteProfile, SelectRivals, Move, Release, Wipe, ZeroTeams, Tables, history
  <1>3. \A s \in TeamSlots : team'[s].id = team[s].id
    <2>0. Typing /\ team \in [TeamSlots -> [id : TeamIds, active : BOOLEAN]]
      BY DEF TypeInv, Typing, Tabled
    <2>1. CASE Activate(r) \/ WriteProfile(r) \/ Release(r)
      BY <2>0, <2>1, StatusIds DEF Activate, WriteProfile, Release
    <2>2. CASE ZeroTeams(r)
      BY <2>0, <2>2 DEF ZeroTeams
    <2>3. CASE ~Activate(r) /\ ~WriteProfile(r) /\ ~Release(r) /\ ~ZeroTeams(r)
      <3>1. team' = team
        BY <2>3 DEF Step, FindRow, Rotate, Place, Probe, JoinRivals, Oust, Clear, CreateRow, Answer, Drop, Touch,
                    SelectRivals, Move, Wipe, Tables
      <3> QED BY <3>1
    <2> QED BY <2>1, <2>2, <2>3
  <1>4. pc'[r] \notin Ensuring
    <2>1. ASSUME NEW p, NEW j, Goto(r, p, j), p \notin Ensuring PROVE pc'[r] \notin Ensuring
      BY <2>1, Elsewhere
    <2>2. \A p \in {"idle", "rotate", "place", "probe", "create", "joinRivals", "oust", "clear", "move", "answer", "activate",
                    "rivals", "profile", "release", "zero"} : p \notin Ensuring
      BY DEF Ensuring
    <2>3. CASE FindRow(r) \/ Rotate(r)
      BY <2>1, <2>2, <2>3 DEF FindRow, Rotate, End
    <2>4. CASE Place(r) \/ Probe(r)
      BY <2>1, <2>2, <2>4 DEF Place, Probe, End
    <2>5. CASE JoinRivals(r) \/ Oust(r) \/ Clear(r)
      BY <2>1, <2>2, <2>5 DEF JoinRivals, Oust, Clear
    <2>6. CASE CreateRow(r) \/ Activate(r) \/ Answer(r)
      BY <2>1, <2>2, <2>6 DEF CreateRow, Activate, Answer, End
    <2>7. CASE Drop(r) \/ Touch(r) \/ WriteProfile(r) \/ SelectRivals(r)
      BY <2>1, <2>2, <2>7 DEF Drop, Touch, WriteProfile, SelectRivals, End
    <2>8. CASE Move(r) \/ Release(r) \/ Wipe(r) \/ ZeroTeams(r)
      BY <2>1, <2>2, <2>8 DEF Move, Release, Wipe, ZeroTeams, End
    <2> QED BY <2>3, <2>4, <2>5, <2>6, <2>7, <2>8 DEF Step
  <1> QED BY <1>1, <1>2, <1>3, <1>4, TeamQuiet DEF Others

LEMMA TeamReceive ==
  ASSUME TypeInv, TeamInv, NEW r \in Handlers, Receive(r)
  PROVE  TeamInv'
  <1>1. Others(r)
    BY OthersStay
  <1>2. team' = team /\ nextTeam' = nextTeam /\ teamCount' = teamCount /\ resized' = resized
    BY DEF Receive, ReceiveJoin, ReceiveReset, ReceiveSession, Tables, history
  <1>3. ASSUME NEW j, Goto(r, "teams", j), j.size = teamCount PROVE Ensures(r)'
    BY <1>2, <1>3, Elsewhere DEF Ensures
  <1>4. CASE \E d \in Devices : ReceiveJoin(r, d)
    <2>1. PICK d \in Devices : Goto(r, "teams", [NoJob EXCEPT !.kind = "join", !.device = d, !.size = teamCount])
      BY <1>4 DEF ReceiveJoin
    <2>2. [NoJob EXCEPT !.kind = "join", !.device = d, !.size = teamCount].size = teamCount
      BY DEF NoJob
    <2>3. Ensures(r)'
      BY <1>3, <2>1, <2>2
    <2> QED BY <1>1, <1>2, <2>3, TeamQuiet DEF Others
  <1>5. CASE ReceiveReset(r)
    <2>1. Goto(r, "teams", [NoJob EXCEPT !.kind = "reset", !.size = teamCount])
      BY <1>5 DEF ReceiveReset
    <2>2. [NoJob EXCEPT !.kind = "reset", !.size = teamCount].size = teamCount
      BY DEF NoJob
    <2>3. Ensures(r)'
      BY <1>3, <2>1, <2>2
    <2> QED BY <1>1, <1>2, <2>3, TeamQuiet DEF Others
  <1>6. ASSUME NEW d, NEW k, NEW s, ReceiveSession(r, d, k, s) PROVE TeamInv'
    <2>1. PICK a \in rows :
            Goto(r, IF a.live THEN "touch" ELSE "drop",
                 [NoJob EXCEPT !.kind = k, !.device = d, !.slot = s, !.row = a.id, !.token = a.token, !.team = a.team])
      BY <1>6 DEF ReceiveSession
    <2>2. pc'[r] = IF a.live THEN "touch" ELSE "drop"
      BY <2>1, Elsewhere
    <2>3. pc'[r] \notin Ensuring
      BY <2>2 DEF Ensuring
    <2> QED BY <1>1, <1>2, <2>3, TeamQuiet DEF Others
  <1> QED BY <1>4, <1>5, <1>6 DEF Receive

LEMMA TeamReads ==
  ASSUME TypeInv, TeamInv, NEW r \in Handlers, ReadTeams(r)
  PROVE  TeamInv'
  <1>1. Others(r)
    BY OthersStay DEF Step
  <1>2. team' = team /\ nextTeam' = nextTeam /\ teamCount' = teamCount /\ resized' = resized
    BY DEF ReadTeams, Tables, history
  <1>3. PICK j \in Job : j = job[r] /\ Fits(pc[r], j)
    BY OneOf
  <1>4. PICK there \in Seq(Nat) :
          /\ there = TeamsBySlot /\ Len(there) <= MaxTeams
          /\ NoGaps => /\ \A s \in TeamSlots : team[s].id # 0 <=> s <= Len(there)
                       /\ \A i \in 1..Len(there) : there[i] = team[i].id
    BY TeamsBySlotIs DEF NoGaps, TypeInv
  <1> DEFINE n == Len(there)
             jj == Listed(j, there, n + 1)
             p == IF n > j.size THEN "trim" ELSE IF n < j.size THEN "createTeam" ELSE AfterTeams(r)
  <1>5. MaxTeams \in Nat /\ n \in Nat /\ n <= MaxTeams /\ j.size \in Nat
    BY <1>4, Limits DEF Job
  <1>6. jj.list = there /\ jj.slot = n + 1 /\ jj.size = j.size
    BY <1>4, <1>5, JobLists DEF TeamIds
  <1>7. Goto(r, p, jj)
    BY <1>3, <1>4 DEF ReadTeams, Listed
  <1> HIDE DEF jj
  <1>8. pc'[r] = p /\ job'[r] = jj
    BY <1>7, Elsewhere
  <1>9. CASE ~Steady
    <2>1. TeamsKeyed'
      BY <1>2 DEF TeamInv, TeamsKeyed
    <2> QED BY <1>2, <1>9, <2>1 DEF TeamInv, Steady
  <1>10. CASE Steady
    <2>1. /\ \A s \in TeamSlots : team[s].id # 0 <=> s <= n
          /\ \A i \in 1..n : there[i] = team[i].id
      BY <1>4, <1>10 DEF TeamInv
    <2>2. j.size = teamCount \/ OneAtATime
      BY <1>3, <1>10 DEF TeamInv, Ensures, ReadTeams, Ensuring
    <2>3. \A i \in 1..n : i \in TeamSlots
      BY <1>5 DEF TeamSlots
    <2>4. ASSUME p = "createTeam" PROVE \A s \in 1..(jj.slot - 1) : team[s].id # 0
      <3>1. jj.slot - 1 = n
        BY <1>5, <1>6
      <3> HIDE DEF n
      <3> QED BY <1>5, <2>1, <2>3, <3>1
    <2>5. ASSUME p = "trim"
          PROVE  /\ \A t \in Surplus(r)' : t < nextTeam
                 /\ \A s \in TeamSlots : team[s].id # 0 => (team[s].id \in Surplus(r)' <=> s > jj.size)
      <3>1. Surplus(r)' = {there[i] : i \in (j.size + 1)..n}
        BY <1>6, <1>8 DEF Surplus
      <3> HIDE DEF n
      <3>2. \A i \in (j.size + 1)..n : i \in 1..n /\ i \in TeamSlots /\ there[i] = team[i].id /\ team[i].id # 0
        BY <1>5, <2>1, <2>3
      <3>3. \A t \in Surplus(r)' : t < nextTeam
        BY <3>1, <3>2 DEF TeamInv, TeamsKeyed
      <3>4. ASSUME NEW s \in TeamSlots, team[s].id # 0 PROVE team[s].id \in Surplus(r)' <=> s > j.size
        <4>1. s <= n /\ s \in Nat
          BY <2>1, <3>4 DEF TeamSlots
        <4>2. ASSUME s > j.size PROVE team[s].id \in Surplus(r)'
          <5>1. s \in (j.size + 1)..n
            BY <1>5, <4>1, <4>2
          <5>2. there[s] = team[s].id
            BY <3>2, <5>1
          <5> QED BY <3>1, <5>1, <5>2
        <4>3. ASSUME team[s].id \in Surplus(r)' PROVE s > j.size
          <5>1. PICK i \in (j.size + 1)..n : team[s].id = there[i]
            BY <3>1, <4>3
          <5>2. s = i
            BY <3>2, <3>4, <5>1 DEF TeamInv, TeamsKeyed
          <5> QED BY <1>5, <5>1, <5>2
        <4> QED BY <4>2, <4>3
      <3> QED BY <1>6, <3>3, <3>4
    <2>6. Ensures(r)'
      BY <1>2, <1>6, <1>8, <2>2, <2>4, <2>5 DEF Ensures
    <2> QED BY <1>1, <1>2, <2>6, TeamQuiet DEF Others
  <1> QED BY <1>9, <1>10

\* Where the handler awaits next does not matter to it.
LEMMA AfterTeamsEnds == ASSUME NEW r \in Handlers PROVE AfterTeams(r) \in {"wipe", "find"} /\ AfterTeams(r) \notin Ensuring
  BY DEF AfterTeams, Ensuring

LEMMA TeamTrims ==
  ASSUME TypeInv, TeamInv, NEW r \in Handlers, Trim(r)
  PROVE  TeamInv'
  <1>1. pc'[r] \notin Ensuring /\ Others(r)
    BY Elsewhere, AfterTeamsEnds DEF Trim
  <1>2. nextTeam' = nextTeam /\ teamCount' = teamCount /\ resized' = resized
    BY DEF Trim, history
  <1>3. \A s \in TeamSlots : team'[s] = IF team[s].id \in Surplus(r) THEN NoTeam ELSE team[s]
    BY DEF Trim
  <1>4. NoTeam.id = 0 /\ nextTeam \in Nat \ {0}
    BY DEF NoTeam, TypeInv, Typing, Tabled
  <1>5. TeamsKeyed'
    <2>1. ASSUME NEW s \in TeamSlots PROVE team'[s].id = 0 \/ team'[s].id = team[s].id
      BY <1>3, <1>4
    <2>2. \A s \in TeamSlots : team'[s].id < nextTeam
      BY <1>4, <2>1 DEF TeamInv, TeamsKeyed
    <2>3. \A s, t \in TeamSlots : team'[s].id = team'[t].id /\ team'[s].id # 0 => s = t
      BY <2>1 DEF TeamInv, TeamsKeyed
    <2> QED BY <1>2, <2>2, <2>3 DEF TeamsKeyed
  <1>a. PICK size \in Nat : size = job[r].size
    BY OneOf DEF Job
  <1>6. ASSUME Steady PROVE NoGaps' /\ \A q \in Handlers : Ensures(q)'
    <2>1. /\ NoGaps /\ (\A q \in Handlers : Ensures(q)) /\ (size = teamCount \/ OneAtATime)
          /\ \A s \in TeamSlots : team[s].id # 0 => (team[s].id \in Surplus(r) <=> s > size)
      BY <1>6, <1>a DEF TeamInv, Ensures, Trim, Ensuring
    <2>2. MaxTeams \in Nat
      BY Limits
    <2>3. ASSUME NEW s \in TeamSlots
          PROVE  /\ team'[s].id # 0 <=> team[s].id # 0 /\ s <= size
                 /\ team'[s].id # 0 => team'[s].id = team[s].id
      BY <1>a, <1>3, <1>4, <2>1, <2>2 DEF TeamSlots
    <2>4. NoGaps'
      <3> SUFFICES ASSUME NEW s \in 2..MaxTeams, team'[s].id # 0 PROVE team'[s - 1].id # 0
        BY DEF NoGaps
      <3>1. s \in TeamSlots /\ s - 1 \in TeamSlots
        BY <2>2 DEF TeamSlots
      <3>2. team[s].id # 0 /\ s <= size
        BY <2>3, <3>1
      <3>3. team[s - 1].id # 0
        BY <2>1, <3>2 DEF NoGaps
      <3>4. s - 1 <= size
        BY <2>2, <3>2
      <3> QED BY <2>3, <3>1, <3>3, <3>4
    <2>5. ASSUME NEW q \in Handlers PROVE Ensures(q)'
      <3>1. CASE q = r
        BY <1>1, <3>1 DEF Ensures, Ensuring
      <3>2. CASE q # r
        <4>0. size = teamCount /\ ~OneAtATime
          BY <2>1, <3>2 DEF OneAtATime
        <4>1. Ensures(q) /\ pc'[q] = pc[q] /\ job'[q] = job[q]
          BY <1>1, <2>1, <3>2 DEF Others
        <4>2. Surplus(q)' = Surplus(q)
          BY <4>1, Zenon DEF Surplus
        <4>3. ASSUME pc[q] = "createTeam" PROVE \A s \in 1..(job[q].slot - 1) : team'[s].id # 0
          <5>1. PICK j \in Job : j = job[q] /\ Fits(pc[q], j)
            BY OneOf
          <5>2. j.slot \in 1..j.size /\ j.size = teamCount /\ teamCount <= MaxTeams
            BY <4>0, <4>1, <4>3, <5>1, Limits DEF Fits, Ensures, Ensuring, TypeInv, Typing, Tabled
          <5>3. \A s \in 1..(j.slot - 1) : s \in TeamSlots /\ s <= size
            BY <2>2, <4>0, <5>2 DEF TeamSlots
          <5>4. \A s \in 1..(j.slot - 1) : team[s].id # 0
            BY <4>1, <4>3, <5>1 DEF Ensures
          <5> QED BY <2>3, <5>1, <5>3, <5>4
        <4>4. ASSUME pc[q] = "trim", NEW s \in TeamSlots, team'[s].id # 0
              PROVE  team'[s].id \in Surplus(q) <=> s > job[q].size
          BY <2>3, <4>1, <4>4 DEF Ensures
        <4>5. pc[q] = "trim" => \A t \in Surplus(q) : t < nextTeam
          BY <4>1 DEF Ensures
        <4>6. pc[q] \in Ensuring => job[q].size = teamCount
          BY <4>0, <4>1 DEF Ensures
        <4> QED BY <1>2, <4>1, <4>2, <4>3, <4>4, <4>5, <4>6 DEF Ensures
      <3> QED BY <3>1, <3>2
    <2> QED BY <2>4, <2>5
  <1> QED BY <1>2, <1>5, <1>6 DEF TeamInv, Steady

LEMMA TeamCreates ==
  ASSUME TypeInv, TeamInv, NEW r \in Handlers, CreateTeam(r)
  PROVE  TeamInv'
  <1>1. Others(r) /\ teamCount' = teamCount /\ resized' = resized
    BY OthersStay DEF Step, CreateTeam, history
  <1>2. PICK j \in Job : j = job[r] /\ Fits(pc[r], j)
    BY OneOf
  <1>3. j.slot \in 1..j.size /\ j.size \in 0..MaxTeams /\ MaxTeams \in Nat
    BY <1>2, Limits DEF CreateTeam, Fits, Job
  <1>4. nextTeam \in Nat \ {0} /\ team \in [TeamSlots -> [id : TeamIds, active : BOOLEAN]]
    BY DEF TypeInv, Typing, Tabled
  <1>5. CASE team' = team /\ nextTeam' = nextTeam /\ End(r)
    <2>1. pc'[r] \notin Ensuring
      BY <1>5, Elsewhere DEF End, Ensuring
    <2> QED BY <1>1, <1>5, <2>1, TeamQuiet DEF Others
  <1>6. CASE /\ team' = [team EXCEPT ![j.slot] = [id |-> nextTeam, active |-> FALSE]] /\ nextTeam' = nextTeam + 1
             /\ Goto(r, IF j.slot < j.size THEN "createTeam" ELSE AfterTeams(r),
                     Listed(j, <<>>, IF j.slot < j.size THEN j.slot + 1 ELSE 0))
    <2> DEFINE jj == Listed(j, <<>>, IF j.slot < j.size THEN j.slot + 1 ELSE 0)
               p == IF j.slot < j.size THEN "createTeam" ELSE AfterTeams(r)
    <2>1. jj.size = j.size /\ (j.slot < j.size => jj.slot = j.slot + 1)
      <3>1. <<>> \in Seq(TeamIds) /\ (j.slot < j.size => j.slot + 1 \in 0..(MaxTeams + 1)) /\ 0 \in 0..(MaxTeams + 1)
        BY <1>3
      <3> QED BY <3>1, JobLists, ZenonT(40)
    <2>2. Goto(r, p, jj)
      BY <1>6
    <2> HIDE DEF jj
    <2>3. pc'[r] = p /\ job'[r] = jj
      BY <2>2, Elsewhere
    <2>4. j.slot \in TeamSlots
      BY <1>3 DEF TeamSlots
    <2>5. \A s \in TeamSlots : team'[s].id = IF s = j.slot THEN nextTeam ELSE team[s].id
      BY <1>4, <1>6, <2>4
    <2>6. \A s \in TeamSlots : team[s].id < nextTeam /\ team[s].id \in Nat
      BY <1>4 DEF TeamInv, TeamsKeyed, TeamIds
    <2>7. TeamsKeyed'
      <3>1. \A s \in TeamSlots : team'[s].id < nextTeam'
        BY <1>4, <1>6, <2>5, <2>6
      <3>2. \A s, t \in TeamSlots : team'[s].id = team'[t].id /\ team'[s].id # 0 => s = t
        BY <1>4, <2>5, <2>6 DEF TeamInv, TeamsKeyed
      <3> QED BY <3>1, <3>2 DEF TeamsKeyed
    <2>8. ASSUME Steady PROVE NoGaps' /\ \A q \in Handlers : Ensures(q)'
      <3>1. /\ NoGaps /\ (\A q \in Handlers : Ensures(q)) /\ (j.size = teamCount \/ OneAtATime)
            /\ \A s \in 1..(j.slot - 1) : team[s].id # 0
        BY <1>2, <2>8 DEF TeamInv, Ensures, CreateTeam, Ensuring
      <3>2. \A s \in TeamSlots : team[s].id # 0 => team'[s].id # 0
        BY <1>4, <2>5
      <3>3. NoGaps'
        <4> SUFFICES ASSUME NEW s \in 2..MaxTeams, team'[s].id # 0 PROVE team'[s - 1].id # 0
          BY DEF NoGaps
        <4>1. s \in TeamSlots /\ s - 1 \in TeamSlots
          BY <1>3 DEF TeamSlots
        <4>2. CASE s = j.slot
          <5>1. s - 1 \in 1..(j.slot - 1)
            BY <1>3, <4>2
          <5> QED BY <3>1, <3>2, <4>1, <5>1
        <4>3. CASE s # j.slot
          <5>1. team[s].id # 0
            BY <2>5, <4>1, <4>3
          <5> QED BY <3>1, <3>2, <4>1, <5>1 DEF NoGaps
        <4> QED BY <4>2, <4>3
      <3>4. Ensures(r)'
        <4>1. CASE j.slot < j.size
          <5>1. ASSUME NEW s \in 1..(jj.slot - 1) PROVE team'[s].id # 0
            <6>1. s \in 1..j.slot
              BY <1>3, <2>1, <4>1, <5>1
            <6>2. s \in TeamSlots /\ (s = j.slot \/ s \in 1..(j.slot - 1))
              BY <1>3, <6>1 DEF TeamSlots
            <6> QED BY <1>4, <2>5, <3>1, <3>2, <6>2
          <5> QED BY <1>1, <2>1, <2>3, <3>1, <4>1, <5>1 DEF Ensures
        <4>2. CASE ~(j.slot < j.size)
          BY <2>3, <4>2, AfterTeamsEnds DEF Ensures, Ensuring
        <4> QED BY <4>1, <4>2
      <3>5. ASSUME NEW q \in Handlers, q # r PROVE Ensures(q)'
        <4>0. j.size = teamCount /\ ~OneAtATime
          BY <3>1, <3>5 DEF OneAtATime
        <4>1. Ensures(q) /\ pc'[q] = pc[q] /\ job'[q] = job[q]
          BY <1>1, <3>1, <3>5 DEF Others
        <4>2. Surplus(q)' = Surplus(q)
          BY <4>1, Zenon DEF Surplus
        <4>3. ASSUME pc[q] = "createTeam" PROVE \A s \in 1..(job[q].slot - 1) : team'[s].id # 0
          <5>1. PICK k \in Job : k = job[q] /\ Fits(pc[q], k)
            BY OneOf
          <5>2. k.slot \in 1..k.size /\ k.size \in 0..MaxTeams
            BY <4>3, <5>1 DEF Fits, Job
          <5>3. \A s \in 1..(k.slot - 1) : s \in TeamSlots
            BY <1>3, <5>2 DEF TeamSlots
          <5>4. \A s \in 1..(k.slot - 1) : team[s].id # 0
            BY <4>1, <4>3, <5>1 DEF Ensures
          <5> QED BY <3>2, <5>1, <5>3, <5>4
        <4>4. ASSUME pc[q] = "trim"
              PROVE  /\ \A t \in Surplus(q) : t < nextTeam'
                     /\ \A s \in TeamSlots : team'[s].id # 0 => (team'[s].id \in Surplus(q) <=> s > job[q].size)
          <5>1. /\ \A t \in Surplus(q) : t < nextTeam /\ t \in Nat
                /\ \A s \in TeamSlots : team[s].id # 0 => (team[s].id \in Surplus(q) <=> s > job[q].size)
                /\ job[q].size = teamCount
            <6>1. PICK k \in Job : k = job[q]
              BY OneOf
            <6>2. k.list \in Seq(Nat) /\ k.size \in Nat
              BY DEF Job, TeamIds
            <6>3. \A i \in (k.size + 1)..Len(k.list) : k.list[i] \in Nat
              BY <6>2
            <6>4. \A t \in Surplus(q) : t \in Nat
              BY <6>1, <6>3 DEF Surplus
            <6> QED BY <4>0, <4>1, <4>4, <6>4 DEF Ensures, Ensuring
          <5>2. nextTeam \notin Surplus(q)
            BY <1>4, <5>1
          <5>3. ~(j.slot > job[q].size)
            BY <1>3, <3>1, <4>0, <5>1
          <5>4. \A t \in Surplus(q) : t < nextTeam'
            BY <1>4, <1>6, <5>1
          <5>5. ASSUME NEW s \in TeamSlots, team'[s].id # 0 PROVE team'[s].id \in Surplus(q) <=> s > job[q].size
            <6>1. CASE s = j.slot
              BY <2>5, <5>2, <5>3, <6>1
            <6>2. CASE s # j.slot
              BY <2>5, <5>1, <5>5, <6>2
            <6> QED BY <6>1, <6>2
          <5> QED BY <5>4, <5>5
        <4>5. pc[q] \in Ensuring => job[q].size = teamCount
          BY <4>0, <4>1 DEF Ensures
        <4> QED BY <1>1, <4>1, <4>2, <4>3, <4>4, <4>5 DEF Ensures
      <3> QED BY <3>3, <3>4, <3>5
    <2> QED BY <1>1, <2>7, <2>8 DEF TeamInv, Steady
  <1> QED BY <1>2, <1>5, <1>6 DEF CreateTeam, Listed

LEMMA TeamStep == BaseInv /\ TeamInv /\ [Next]_vars => TeamInv'
  <1> SUFFICES ASSUME TypeInv, TeamInv, [Next]_vars PROVE TeamInv'
    BY DEF BaseInv
  <1>1. ASSUME NEW r \in Handlers, Receive(r) \/ Step(r) PROVE TeamInv'
    BY <1>1, TeamReceive, TeamReads, TeamTrims, TeamCreates, TeamLeft
  <1>2. CASE Resize
    <2>1. team' = team /\ nextTeam' = nextTeam /\ pc' = pc /\ job' = job
          /\ resized' = (resized \/ \E r \in Handlers : pc[r] \in Ensuring)
      BY <1>2 DEF Resize
    <2>2. TeamsKeyed'
      BY <2>1 DEF TeamInv, TeamsKeyed
    <2>3. ASSUME Steady' PROVE NoGaps' /\ \A r \in Handlers : Ensures(r)'
      <3>1. Steady /\ \A r \in Handlers : pc[r] \notin Ensuring \/ OneAtATime
        BY <2>1, <2>3 DEF Steady
      <3>2. NoGaps' /\ \A r \in Handlers : Ensures(r) /\ Surplus(r)' = Surplus(r)
        BY <2>1, <3>1, Zenon DEF TeamInv, NoGaps, Surplus
      <3> QED BY <2>1, <3>1, <3>2 DEF Ensures, Ensuring
    <2> QED BY <2>2, <2>3 DEF TeamInv
  <1>3. CASE (\E a \in rows : Expire(a)) \/ UNCHANGED vars
    <2>1. team' = team /\ nextTeam' = nextTeam /\ teamCount' = teamCount /\ resized' = resized /\ pc' = pc /\ job' = job
      BY <1>3 DEF Expire, vars, history
    <2> QED BY <2>1, TeamQuiet
  <1> QED BY <1>1, <1>2, <1>3 DEF Next

\* The slots that have a team are 1 to n at every moment, however many joins create the
\* missing teams together, unless the team count changed under one of them.
THEOREM SlotsCorrect == Spec => []SlotsContiguous
  <1>1. Init => TeamInv
    <2> SUFFICES ASSUME Init PROVE TeamInv
      OBVIOUS
    <2>1. \A s \in TeamSlots : team[s].id = 0
      BY DEF Init, NoTeam
    <2>2. \A s \in 2..MaxTeams : s \in TeamSlots
      BY Limits DEF TeamSlots
    <2>3. nextTeam = 1 /\ \A r \in Handlers : pc[r] = "idle"
      BY DEF Init
    <2> QED BY <2>1, <2>2, <2>3 DEF TeamInv, TeamsKeyed, NoGaps, Ensures, Ensuring
  <1>2. TeamInv => SlotsContiguous
    BY DEF TeamInv, NoGaps, Steady, SlotsContiguous
  <1> QED BY <1>1, <1>2, BaseAlways, TeamStep, PTL DEF Spec

-----------------------------------------------------------------------------
(* One request at a time: the status of the teams.                         *)

Awake(t) == t \in contested \/ \A s \in SlotsOf(t) : team[s].active

\* The row that a handler has just put on a team and not yet made active.
Exempt(r, a) == pc[r] \in {"release", "activate"} /\ a.id = job[r].row /\ a.team = job[r].team

\* What a handler that is alone knows of the session it serves.
Knows(r) ==
  /\ pc[r] \in {"rotate", "touch"} => \A a \in RowById(job[r].row) : Awake(a.team)
  /\ pc[r] \in {"touch", "rivals"} => \A a \in RowById(job[r].row) : a.team = job[r].team
  /\ pc[r] = "rivals" => \A a \in RowById(job[r].row) : a.live
  /\ pc[r] \in {"oust", "move"} /\ job[r].kind = "select" =>
       job[r].team # job[r].old /\ \A a \in RowById(job[r].row) : a.team = job[r].old /\ a.live
  /\ pc[r] = "release" =>
       /\ job[r].team # job[r].old /\ SlotsOf(job[r].old) # {}
       /\ job[r].old \in contested \/ LiveOn(job[r].old) = {}
  /\ pc[r] = "zero" => rows = {}

ActiveInv ==
  /\ \A a \in rows : a.live => Awake(a.team) \/ \E r \in Handlers : Exempt(r, a)
  /\ \A r \in Handlers : Knows(r)

LEMMA AwakeStays ==
  ASSUME contested \subseteq contested', NEW t, Awake(t),
         \A s \in TeamSlots : team'[s].id = t => team[s].id = t /\ (team[s].active => team'[s].active)
  PROVE  Awake(t)'
  BY DEF Awake, SlotsOf

LEMMA KnowsNothing ==
  ASSUME NEW r, pc'[r] \notin {"rotate", "touch", "rivals", "move", "release", "zero"},
         pc'[r] = "oust" => job'[r].kind = "join"
  PROVE  Knows(r)'
  BY DEF Knows

LEMMA ActiveBy ==
  ASSUME OneAtATime, NEW r \in Handlers,
         \A a \in rows' : a.live => Awake(a.team)' \/ Exempt(r, a)', Knows(r)'
  PROVE  ActiveInv'
  BY DEF OneAtATime, ActiveInv

LEMMA Waking ==
  ASSUME OneAtATime, ActiveInv, NEW r \in Handlers, pc[r] \notin {"release", "activate"},
         NEW a \in rows, a.live
  PROVE  Awake(a.team)
  BY DEF OneAtATime, ActiveInv, Exempt

\* Steps that seat no device and make no team inactive that someone plays for.
LEMMA ActiveLeft ==
  ASSUME OneAtATime, ActiveInv, NEW r \in Handlers, pc[r] \notin {"release", "activate"},
         rows' \subseteq rows, contested \subseteq contested',
         \A a \in rows', s \in TeamSlots :
           team'[s].id = a.team => team[s].id = a.team /\ (team[s].active => team'[s].active),
         Knows(r)'
  PROVE  ActiveInv'
  <1>1. ASSUME NEW a \in rows', a.live PROVE Awake(a.team)'
    BY <1>1, Waking, AwakeStays
  <1> QED BY <1>1, ActiveBy

LEMMA ActiveStill ==
  ASSUME TypeInv, KeyInv, TeamsKeyed, OneAtATime, ActiveInv, NEW r \in Handlers,
         \/ ReadTeams(r) \/ Trim(r) \/ CreateTeam(r) \/ Place(r) \/ Probe(r) \/ JoinRivals(r) \/ Clear(r)
         \/ Answer(r) \/ Drop(r) \/ WriteProfile(r) \/ Wipe(r) \/ ZeroTeams(r)
  PROVE  ActiveInv'
  <1>1. pc[r] \notin {"release", "activate"}
    BY DEF ReadTeams, Trim, CreateTeam, Place, Probe, JoinRivals, Clear, Answer, Drop, WriteProfile, Wipe, ZeroTeams
  <1>2. rows' \subseteq rows
    BY DEF ReadTeams, Trim, CreateTeam, Place, Probe, JoinRivals, Clear, Answer, Drop, WriteProfile, Wipe, ZeroTeams, Tables
  <1>3. contested \subseteq contested'
    BY DEF ReadTeams, Trim, CreateTeam, Place, Probe, JoinRivals, Clear, Answer, Drop, WriteProfile, Wipe, ZeroTeams, history
  <1>4. team \in [TeamSlots -> [id : TeamIds, active : BOOLEAN]] /\ nextTeam \in Nat \ {0}
    BY DEF TypeInv, Typing, Tabled
  <1>5. ASSUME NEW a \in rows', NEW s \in TeamSlots, team'[s].id = a.team
        PROVE  team[s].id = a.team /\ (team[s].active => team'[s].active)
    <2>1. CASE ReadTeams(r) \/ Place(r) \/ Probe(r) \/ JoinRivals(r) \/ Clear(r) \/ Answer(r) \/ Drop(r) \/ Wipe(r)
      <3>1. team' = team
        BY <2>1 DEF ReadTeams, Place, Probe, JoinRivals, Clear, Answer, Drop, Wipe, Tables
      <3> QED BY <1>5, <3>1
    <2>2. CASE Trim(r)
      <3>1. a.team # 0
        BY <1>2 DEF KeyInv, TeamsExist, SlotsOf
      <3> QED BY <1>5, <2>2, <3>1 DEF Trim, NoTeam
    <2>3. CASE CreateTeam(r)
      <3>1. a.team < nextTeam
        BY <1>2 DEF KeyInv, TeamsExist, SlotsOf, TeamsKeyed
      <3> QED BY <1>4, <1>5, <2>3, <3>1 DEF CreateTeam
    <2>4. CASE WriteProfile(r)
      <3>1. team'[s] = IF s \in SlotsOf(job[r].team) THEN [team[s] EXCEPT !.active = TRUE] ELSE team[s]
        BY <2>4 DEF WriteProfile, WithStatus
      <3>2. team[s] \in [id : TeamIds, active : BOOLEAN]
        BY <1>4
      <3> QED BY <1>5, <3>1, <3>2
    <2>5. CASE ZeroTeams(r)
      BY <1>2, <2>5 DEF ZeroTeams, ActiveInv, Knows
    <2> QED BY <2>1, <2>2, <2>3, <2>4, <2>5
  <1>6. Knows(r)'
    <2>1. ASSUME NEW p, NEW j, Goto(r, p, j), p \notin {"rotate", "touch", "rivals", "oust", "move", "release", "zero"}
          PROVE  Knows(r)'
      BY <2>1, Elsewhere, KnowsNothing
    <2>2. CASE ReadTeams(r) \/ Trim(r)
      BY <2>1, <2>2 DEF ReadTeams, Trim, AfterTeams
    <2>3. CASE CreateTeam(r)
      BY <2>1, <2>3 DEF CreateTeam, AfterTeams, End
    <2>4. CASE Place(r) \/ Probe(r)
      BY <2>1, <2>4 DEF Place, Probe, End
    <2>5. CASE JoinRivals(r)
      <3>1. PICK j \in Job : j = job[r] /\ Fits(pc[r], j)
        BY OneOf
      <3> DEFINE others == {a.id : a \in {b \in LiveOn(j.team) : b.device # j.device}}
                 jj == [j EXCEPT !.found = others]
      <3>2. jj.kind = "join"
        BY <2>5, <3>1 DEF JoinRivals, Fits, Job
      <3>3. Goto(r, IF others # {} THEN "oust" ELSE "clear", jj)
        BY <2>5, <3>1 DEF JoinRivals
      <3> HIDE DEF others, jj
      <3> QED BY <3>2, <3>3, Elsewhere, KnowsNothing
    <2>6. CASE Clear(r) \/ Answer(r) \/ Drop(r) \/ WriteProfile(r) \/ ZeroTeams(r)
      BY <2>1, <2>6 DEF Clear, Answer, Drop, WriteProfile, ZeroTeams, End
    <2>7. CASE Wipe(r)
      BY <2>7, Elsewhere DEF Wipe, Knows
    <2> QED BY <2>2, <2>3, <2>4, <2>5, <2>6, <2>7
  <1> QED BY <1>1, <1>2, <1>3, <1>5, <1>6, ActiveLeft

LEMMA ActiveFinds ==
  ASSUME TypeInv, KeyInv, OneAtATime, ActiveInv, NEW r \in Handlers, FindRow(r)
  PROVE  ActiveInv'
  <1>1. PICK j \in Job : j = job[r]
    BY OneOf
  <1>2. rows' = rows /\ contested' = contested /\ team' = team /\ pc[r] = "find"
    BY DEF FindRow, Tables, history
  <1>3. Knows(r)'
    <2>1. CASE RowsOf(j.device) = {}
      <3>1. pc'[r] = "place"
        BY <1>1, <2>1, Elsewhere DEF FindRow
      <3> QED BY <3>1, KnowsNothing
    <2>2. CASE RowsOf(j.device) # {}
      <3>0. Tabled /\ \A a \in rows : a.id < nextId
        BY DEF TypeInv, Typing, KeyInv, RowsKeyed
      <3>1. PICK a \in RowsOf(j.device) : a = Newest(j.device)
        BY <2>2, <3>0, NewestIs
      <3> DEFINE jj == [j EXCEPT !.list = <<>>, !.slot = 0, !.row = a.id, !.team = a.team]
      <3>2. jj.row = a.id
        BY DEF Job
      <3>3. Goto(r, IF a.live THEN "rotate" ELSE "place", jj)
        BY <1>1, <2>2, <3>1 DEF FindRow
      <3> HIDE DEF jj
      <3>4. pc'[r] = (IF a.live THEN "rotate" ELSE "place") /\ job'[r].row = a.id
        BY <3>2, <3>3, Elsewhere
      <3>5. CASE a.live
        <4>1. a \in rows /\ Awake(a.team)
          BY <1>2, <3>5, Waking DEF RowsOf
        <4>2. \A b \in rows : b.id = a.id => b = a
          BY <4>1 DEF KeyInv, RowsKeyed
        <4>3. pc'[r] = "rotate" /\ \A b \in rows : Awake(b.team) <=> Awake(b.team)'
          BY <1>2, <3>4, <3>5 DEF Awake, SlotsOf
        <4> QED BY <1>2, <3>4, <4>1, <4>2, <4>3 DEF Knows, RowById
      <3>6. CASE ~a.live
        BY <3>4, <3>6, KnowsNothing
      <3> QED BY <3>5, <3>6
    <2> QED BY <2>1, <2>2
  <1> QED BY <1>2, <1>3, ActiveLeft

LEMMA ActiveRenews ==
  ASSUME TypeInv, KeyInv, OneAtATime, ActiveInv, NEW r \in Handlers, Rotate(r) \/ Touch(r)
  PROVE  ActiveInv'
  <1>1. pc[r] \in {"rotate", "touch"} /\ team' = team
    BY DEF Rotate, Touch
  <1>2. nextId \in Ids /\ 0 \in Ids /\ Typing /\ RowsKeyed
    BY DEF Ids, TypeInv, Typing, Tabled, KeyInv
  <1>3. PICK token \in Ids : Renew(r, token)
    BY <1>2 DEF Rotate, Touch
  <1>4. contested \subseteq contested'
    BY <1>3 DEF Renew
  <1>5. \A t : Awake(t) => Awake(t)'
    BY <1>1, <1>4, AwakeStays
  <1>6. CASE rows' = rows /\ RowById(job[r].row) = {}
    <2>1. pc'[r] = "idle"
      BY <1>6, Elsewhere DEF Rotate, Touch, End
    <2>2. Knows(r)'
      BY <2>1, KnowsNothing
    <2> QED BY <1>1, <1>4, <1>6, <2>2, ActiveLeft
  <1>7. ASSUME NEW x \in rows, x.id = job[r].row, RowById(job[r].row) = {x}, rows' = (rows \ {x}) \cup {Fresh(x, token)}
        PROVE  ActiveInv'
    <2>1. x \in Row
      BY <1>2 DEF Typing, Tabled
    <2>2. PICK y : y = Fresh(x, token) /\ y.id = x.id /\ y.team = x.team /\ y.live
      BY <2>1, FreshIs
    <2>3. rows' = (rows \ {x}) \cup {y}
      BY <1>7, <2>2
    <2>4. Awake(x.team)
      BY <1>1, <1>7 DEF ActiveInv, Knows
    <2>5. ASSUME NEW a \in rows', a.live PROVE Awake(a.team)'
      <3>1. CASE a = y
        BY <1>5, <2>2, <2>4, <3>1
      <3>2. CASE a # y
        BY <1>1, <1>5, <2>3, <2>5, <3>2, Waking
      <3> QED BY <3>1, <3>2
    <2>6. Knows(r)'
      <3>1. CASE pc[r] = "rotate"
        <4>1. pc'[r] \in {"answer", "idle"}
          BY <3>1, Elsewhere DEF Rotate, Touch, End
        <4> QED BY <4>1, KnowsNothing
      <3>2. CASE pc[r] = "touch"
        <4>1. pc'[r] \in {"rivals", "profile", "idle"} /\ (pc'[r] = "rivals" => job'[r] = job[r])
          BY <3>2, Elsewhere DEF Rotate, Touch, End
        <4>2. pc'[r] = "rivals" => \A a \in rows' : a.id = job[r].row => a = y
          BY <1>2, <1>7, <2>2, <2>3 DEF RowsKeyed
        <4>3. x.team = job[r].team
          BY <1>7, <3>2 DEF ActiveInv, Knows
        <4>4. CASE pc'[r] = "rivals"
          BY <2>2, <4>1, <4>2, <4>3, <4>4 DEF Knows, RowById
        <4> QED BY <4>1, <4>4, KnowsNothing
      <3> QED BY <1>1, <3>1, <3>2
    <2> QED BY <2>5, <2>6, ActiveBy
  <1> QED BY <1>2, <1>3, <1>6, <1>7, RenewIs

LEMMA ActiveRivals ==
  ASSUME TypeInv, KeyInv, OneAtATime, ActiveInv, NEW r \in Handlers, SelectRivals(r) \/ Oust(r)
  PROVE  ActiveInv'
  <1>1. PICK j \in Job : j = job[r] /\ Fits(pc[r], j)
    BY OneOf
  <1>2. rows' \subseteq rows /\ contested' = contested /\ team' = team /\ pc[r] \in {"rivals", "oust"}
    BY DEF SelectRivals, Oust, Tables, history
  <1>3. Knows(r)'
    <2>1. CASE SelectRivals(r)
      <3> DEFINE t == team[j.slot].id
                 others == {a.id : a \in {b \in LiveOn(t) : b.id # j.row}}
                 jj == [j EXCEPT !.found = others, !.old = j.team, !.team = t]
                 p == IF others # {} THEN "oust" ELSE "move"
      <3>1. CASE End(r)
        <4>1. pc'[r] = "idle"
          BY <3>1, Elsewhere DEF End
        <4> QED BY <4>1, KnowsNothing
      <3>2. CASE t # j.team /\ Goto(r, p, jj)
        <4>1. jj.team = t /\ jj.old = j.team /\ jj.row = j.row
          BY DEF Job
        <4> HIDE DEF jj
        <4>2. pc'[r] = p /\ job'[r] = jj
          BY <3>2, Elsewhere
        <4>3. \A a \in RowById(j.row) : a.team = j.team /\ a.live
          BY <1>1, <2>1 DEF SelectRivals, ActiveInv, Knows
        <4>4. p \in {"oust", "move"} /\ RowById(j.row)' \subseteq RowById(j.row)
          BY <1>2 DEF RowById
        <4> HIDE DEF p, t
        <4> QED BY <3>2, <4>1, <4>2, <4>3, <4>4 DEF Knows
      <3> QED BY <1>1, <2>1, <3>1, <3>2 DEF SelectRivals
    <2>2. CASE Oust(r)
      <3> DEFINE jj == [j EXCEPT !.found = {}]
                 p == IF j.kind = "join" THEN "clear" ELSE "move"
      <3>1. Goto(r, p, jj)
        BY <1>1, <2>2 DEF Oust
      <3>2. jj.team = j.team /\ jj.old = j.old /\ jj.row = j.row /\ jj.kind = j.kind
        BY DEF Job
      <3> HIDE DEF jj
      <3>3. pc'[r] = p /\ job'[r] = jj
        BY <3>1, Elsewhere
      <3>4. CASE j.kind = "join"
        BY <3>3, <3>4, KnowsNothing
      <3>5. CASE j.kind # "join"
        <4>1. j.kind = "select"
          BY <1>1, <2>2, <3>5 DEF Oust, Fits
        <4>2. j.team # j.old /\ \A a \in RowById(j.row) : a.team = j.old /\ a.live
          BY <1>1, <2>2, <4>1 DEF Oust, ActiveInv, Knows
        <4>3. RowById(j.row)' \subseteq RowById(j.row)
          BY <1>2 DEF RowById
        <4> QED BY <3>2, <3>3, <3>5, <4>2, <4>3 DEF Knows
      <3> QED BY <3>4, <3>5
    <2> QED BY <2>1, <2>2
  <1> QED BY <1>2, <1>3, ActiveLeft

LEMMA ActiveCreates ==
  ASSUME TypeInv, OneAtATime, ActiveInv, NEW r \in Handlers, CreateRow(r)
  PROVE  ActiveInv'
  <1>1. team' = team /\ pc[r] = "create"
    BY DEF CreateRow
  <1>2. CASE rows' = rows /\ contested' = contested /\ End(r)
    <2>1. pc'[r] = "idle"
      BY <1>2, Elsewhere DEF End
    <2>2. Knows(r)'
      BY <2>1, KnowsNothing
    <2> QED BY <1>1, <1>2, <2>2, ActiveLeft
  <1>3. ASSUME NEW y \in Row, NEW j \in Job, y.id = nextId, y.team = job[r].team, rows' = rows \cup {y},
               contested' = IF Contest(r, job[r].team) THEN contested \cup {job[r].team} ELSE contested,
               Goto(r, "activate", j), j.row = nextId, j.team = job[r].team
        PROVE  ActiveInv'
    <2>1. pc'[r] = "activate" /\ job'[r] = j
      BY <1>3, Elsewhere
    <2>2. Knows(r)'
      BY <2>1, KnowsNothing
    <2>3. contested \subseteq contested'
      BY <1>3
    <2>4. ASSUME NEW a \in rows', a.live PROVE Awake(a.team)' \/ Exempt(r, a)'
      <3>1. CASE a = y
        BY <1>3, <2>1, <3>1 DEF Exempt
      <3>2. CASE a \in rows
        BY <1>1, <2>3, <2>4, <3>2, Waking, AwakeStays
      <3> QED BY <1>3, <3>1, <3>2
    <2> QED BY <2>2, <2>4, ActiveBy
  <1> QED BY <1>2, <1>3, CreateIs

LEMMA ActiveMoves ==
  ASSUME TypeInv, KeyInv, SeatInv, OneAtATime, ActiveInv, NEW r \in Handlers, Move(r)
  PROVE  ActiveInv'
  <1>0. RowsKeyed
    BY DEF KeyInv
  <1>1. team' = team /\ pc[r] = "move"
    BY DEF Move
  <1>2. CASE rows' = rows /\ contested' = contested /\ End(r)
    <2>1. pc'[r] = "idle"
      BY <1>2, Elsewhere DEF End
    <2>2. Knows(r)'
      BY <2>1, KnowsNothing
    <2> QED BY <1>1, <1>2, <2>2, ActiveLeft
  <1>3. ASSUME NEW x \in rows, NEW y \in Row, x.id = job[r].row, y.id = x.id, y.team = job[r].team,
               rows' = (rows \ {x}) \cup {y}, Goto(r, "release", job[r]),
               contested' = IF Contest(r, job[r].team) THEN contested \cup {job[r].team} ELSE contested
        PROVE  ActiveInv'
    <2>1. pc'[r] = "release" /\ job'[r] = job[r]
      BY <1>3, Elsewhere
    <2>2. job[r].kind = "select"
      BY <1>1, OneOf DEF Fits
    <2>3. job[r].team # job[r].old /\ x.team = job[r].old /\ x.live
      BY <1>1, <1>3, <2>2 DEF ActiveInv, Knows, RowById
    <2>4. contested \subseteq contested'
      BY <1>3
    <2>5. SlotsOf(job[r].old)' # {}
      <3>1. SlotsOf(x.team) # {}
        BY DEF KeyInv, TeamsExist
      <3>2. SlotsOf(job[r].old)' = {s \in TeamSlots : job'[r].old # 0 /\ team'[s].id = job'[r].old}
        BY DEF SlotsOf
      <3>3. SlotsOf(x.team) = {s \in TeamSlots : job[r].old # 0 /\ team[s].id = job[r].old}
        BY <2>3 DEF SlotsOf
      <3> QED BY <1>1, <2>1, <3>1, <3>2, <3>3
    <2>6. job[r].old \in contested' \/ LiveOn(job[r].old)' = {}
      <3>1. \A a \in rows : a.live /\ a.team = job[r].old => a = x \/ job[r].old \in contested
        BY <2>3 DEF SeatInv, Alone
      <3>2. job[r].old \in contested \/ \A a \in rows' : ~(a.live /\ a.team = job[r].old)
        BY <1>3, <2>3, <3>1
      <3> QED BY <2>1, <2>4, <3>2 DEF LiveOn
    <2>7. Knows(r)'
      BY <2>1, <2>3, <2>5, <2>6 DEF Knows
    <2>8. ASSUME NEW a \in rows', a.live PROVE Awake(a.team)' \/ Exempt(r, a)'
      <3>1. CASE a = y
        BY <1>3, <2>1, <3>1 DEF Exempt
      <3>2. CASE a \in rows
        BY <1>1, <2>4, <2>8, <3>2, Waking, AwakeStays
      <3> QED BY <1>3, <3>1, <3>2
    <2> QED BY <2>7, <2>8, ActiveBy
  <1> QED BY <1>0, <1>2, <1>3, MoveIs

\* The team that was left first, then the team that was taken: the order of the statements.
LEMMA ActiveWrites ==
  ASSUME TypeInv, KeyInv, OneAtATime, ActiveInv, NEW r \in Handlers, Release(r) \/ Activate(r)
  PROVE  ActiveInv'
  <1>0. team \in [TeamSlots -> [id : TeamIds, active : BOOLEAN]]
    BY DEF TypeInv, Typing, Tabled
  <1>1. rows' = rows /\ contested' = contested
    BY DEF Release, Activate, history
  <1>2. \A a \in rows : a.live => Awake(a.team) \/ Exempt(r, a)
    BY DEF OneAtATime, ActiveInv
  <1>3. CASE Release(r)
    <2>1. /\ job[r].team # job[r].old /\ SlotsOf(job[r].old) # {}
          /\ job[r].old \in contested \/ LiveOn(job[r].old) = {}
      BY <1>3 DEF Release, ActiveInv, Knows
    <2>2. pc'[r] = "activate" /\ job'[r] = job[r]
      BY <1>3, <2>1, Elsewhere DEF Release
    <2>3. Knows(r)'
      BY <2>2, KnowsNothing
    <2>4. \A s \in TeamSlots : team'[s] = IF s \in SlotsOf(job[r].old) THEN [team[s] EXCEPT !.active = FALSE] ELSE team[s]
      BY <1>3 DEF Release, WithStatus
    <2>5. ASSUME NEW a \in rows, a.live PROVE Awake(a.team)' \/ Exempt(r, a)'
      <3>1. CASE Exempt(r, a)
        BY <1>3, <2>2, <3>1 DEF Exempt
      <3>2. CASE Awake(a.team) /\ a.team # job[r].old
        <4>1. \A s \in TeamSlots : team'[s].id = a.team => team'[s] = team[s]
          BY <1>0, <2>4, <3>2 DEF SlotsOf
        <4> QED BY <1>1, <3>2, <4>1, AwakeStays
      <3>3. CASE a.team = job[r].old
        BY <1>1, <2>1, <2>5, <3>3 DEF Awake, LiveOn
      <3> QED BY <1>2, <2>5, <3>1, <3>2, <3>3
    <2> QED BY <1>1, <2>3, <2>5, ActiveBy
  <1>4. CASE Activate(r)
    <2>1. pc'[r] \in {"answer", "idle"}
      BY <1>4, Elsewhere DEF Activate, End
    <2>2. Knows(r)'
      BY <2>1, KnowsNothing
    <2>3. \A s \in TeamSlots : team'[s] = IF s \in SlotsOf(job[r].team) THEN [team[s] EXCEPT !.active = TRUE] ELSE team[s]
      BY <1>4 DEF Activate, WithStatus
    <2>4. \A s \in TeamSlots : team'[s].id = team[s].id /\ (team[s].active => team'[s].active)
      BY <1>0, <2>3
    <2>5. \A s \in TeamSlots : s \in SlotsOf(job[r].team) => team'[s].active
      BY <1>0, <2>3
    <2>6. ASSUME NEW a \in rows, a.live PROVE Awake(a.team)'
      <3>1. CASE Exempt(r, a)
        BY <2>4, <2>5, <3>1 DEF Exempt, Awake, SlotsOf
      <3>2. CASE Awake(a.team)
        BY <1>1, <2>4, <3>2, AwakeStays
      <3> QED BY <1>2, <2>6, <3>1, <3>2
    <2> QED BY <1>1, <2>2, <2>6, ActiveBy
  <1> QED BY <1>3, <1>4

LEMMA ActiveReceives ==
  ASSUME TypeInv, KeyInv, OneAtATime, ActiveInv, NEW r \in Handlers, Receive(r)
  PROVE  ActiveInv'
  <1>1. rows' = rows /\ contested' = contested /\ team' = team
    BY DEF Receive, ReceiveJoin, ReceiveReset, ReceiveSession, Tables, history
  <1>2. pc[r] = "idle"
    <2>1. Free(r)
      BY DEF Receive, ReceiveJoin, ReceiveReset, ReceiveSession
    <2> QED BY <2>1, FreeIsIdle
  <1>3. Knows(r)'
    <2>1. ASSUME NEW j, Goto(r, "teams", j) PROVE Knows(r)'
      BY <2>1, Elsewhere, KnowsNothing
    <2>2. CASE ReceiveReset(r) \/ \E d \in Devices : ReceiveJoin(r, d)
      BY <2>1, <2>2 DEF ReceiveReset, ReceiveJoin
    <2>3. ASSUME NEW d, NEW k, NEW s, ReceiveSession(r, d, k, s) PROVE Knows(r)'
      <3>1. PICK a \in rows :
              Goto(r, IF a.live THEN "touch" ELSE "drop",
                   [NoJob EXCEPT !.kind = k, !.device = d, !.slot = s, !.row = a.id, !.token = a.token, !.team = a.team])
        BY <2>3 DEF ReceiveSession
      <3> DEFINE j == [NoJob EXCEPT !.kind = k, !.device = d, !.slot = s, !.row = a.id, !.token = a.token, !.team = a.team]
      <3>2. j.row = a.id /\ j.team = a.team
        BY DEF NoJob
      <3>3. Goto(r, IF a.live THEN "touch" ELSE "drop", j)
        BY <3>1
      <3> HIDE DEF j
      <3>4. pc'[r] = (IF a.live THEN "touch" ELSE "drop") /\ job'[r] = j
        BY <3>3, Elsewhere
      <3>5. CASE a.live
        <4>1. Awake(a.team)' /\ pc'[r] = "touch"
          BY <1>1, <1>2, <3>4, <3>5, Waking, AwakeStays
        <4>2. \A b \in rows' : b.id = a.id => b = a
          BY <1>1 DEF KeyInv, RowsKeyed
        <4> QED BY <3>2, <3>4, <4>1, <4>2 DEF Knows, RowById
      <3>6. CASE ~a.live
        BY <3>4, <3>6, KnowsNothing
      <3> QED BY <3>5, <3>6
    <2> QED BY <2>2, <2>3 DEF Receive
  <1> QED BY <1>1, <1>2, <1>3, ActiveLeft

LEMMA ActiveOutside ==
  ASSUME TypeInv, ActiveInv, Resize \/ (\E a \in rows : Expire(a)) \/ UNCHANGED vars
  PROVE  ActiveInv'
  <1>1. contested' = contested /\ team' = team /\ pc' = pc /\ job' = job
    BY DEF Resize, Expire, vars, history
  <1>2. ASSUME NEW a \in rows'
        PROVE  \E b \in rows : /\ b.id = a.id /\ b.team = a.team /\ (a.live => b.live)
                               /\ \A r \in Handlers : pc[r] \in Renewed /\ job[r].row = b.id => (b.live => a.live)
    <2>1. CASE rows' = rows
      BY <1>2, <2>1
    <2>2. ASSUME NEW x \in rows, Expire(x)
          PROVE  \E b \in rows : /\ b.id = a.id /\ b.team = a.team /\ (a.live => b.live)
                                 /\ \A r \in Handlers : pc[r] \in Renewed /\ job[r].row = b.id => (b.live => a.live)
      <3>1. PICK y \in Row : y.id = x.id /\ y.team = x.team /\ ~y.live /\ rows' = (rows \ {x}) \cup {y}
        BY <2>2, ExpireIs
      <3>2. \A r \in Handlers : ~(pc[r] \in Renewed /\ job[r].row = x.id)
        BY <2>2 DEF Expire
      <3> QED BY <1>2, <3>1, <3>2
    <2> QED BY <2>1, <2>2 DEF Resize, vars
  <1>3. \A t : Awake(t) => Awake(t)'
    BY <1>1, AwakeStays
  <1>4. ASSUME NEW a \in rows', a.live PROVE Awake(a.team)' \/ \E r \in Handlers : Exempt(r, a)'
    <2>1. PICK b \in rows : b.id = a.id /\ b.team = a.team /\ b.live
      BY <1>2, <1>4
    <2>2. Awake(b.team) \/ \E r \in Handlers : Exempt(r, b)
      BY <2>1 DEF ActiveInv
    <2> QED BY <1>1, <1>3, <2>1, <2>2 DEF Exempt
  <1>5. ASSUME NEW r \in Handlers PROVE Knows(r)'
    <2>1. Knows(r)
      BY DEF ActiveInv
    <2>2. ASSUME NEW a \in RowById(job[r].row)'
          PROVE  \E b \in RowById(job[r].row) : b.team = a.team /\ (pc[r] \in Renewed => (b.live => a.live))
      BY <1>1, <1>2, <2>2 DEF RowById
    <2>3. pc[r] \in {"rivals", "oust", "move"} => pc[r] \in Renewed
      BY DEF Renewed
    <2>4. SlotsOf(job[r].old)' = SlotsOf(job[r].old)
      BY <1>1 DEF SlotsOf
    <2>5. LiveOn(job[r].old) = {} => LiveOn(job[r].old)' = {}
      BY <1>1, <1>2 DEF LiveOn
    <2>6. rows = {} => rows' = {}
      BY <1>2
    <2>7. pc[r] \in {"rotate", "touch"} => \A a \in RowById(job[r].row)' : Awake(a.team)'
      BY <1>3, <2>1, <2>2 DEF Knows
    <2>8. /\ pc[r] \in {"touch", "rivals"} => \A a \in RowById(job[r].row)' : a.team = job[r].team
          /\ pc[r] = "rivals" => \A a \in RowById(job[r].row)' : a.live
          /\ pc[r] \in {"oust", "move"} /\ job[r].kind = "select" =>
               job[r].team # job[r].old /\ \A a \in RowById(job[r].row)' : a.team = job[r].old /\ a.live
      BY <2>1, <2>2, <2>3 DEF Knows
    <2>9. /\ pc[r] = "release" => job[r].team # job[r].old /\ SlotsOf(job[r].old)' # {}
                                  /\ (job[r].old \in contested \/ LiveOn(job[r].old)' = {})
          /\ pc[r] = "zero" => rows' = {}
      BY <2>1, <2>4, <2>5, <2>6 DEF Knows
    <2> QED BY <1>1, <2>7, <2>8, <2>9 DEF Knows
  <1> QED BY <1>4, <1>5 DEF ActiveInv

LEMMA ActiveStep ==
  ASSUME OneAtATime
  PROVE  BaseInv /\ SeatInv /\ TeamInv /\ ActiveInv /\ [Next]_vars => ActiveInv'
  <1> SUFFICES ASSUME TypeInv, KeyInv, SeatInv, TeamsKeyed, ActiveInv, [Next]_vars PROVE ActiveInv'
    BY DEF BaseInv, TeamInv
  <1>1. ASSUME NEW r \in Handlers, Receive(r) PROVE ActiveInv'
    BY <1>1, ActiveReceives
  <1>2. ASSUME NEW r \in Handlers, Step(r) PROVE ActiveInv'
    BY <1>2, ActiveStill, ActiveFinds, ActiveRenews, ActiveRivals, ActiveCreates, ActiveMoves, ActiveWrites DEF Step
  <1> QED BY <1>1, <1>2, ActiveOutside DEF Next

LEMMA SeatsInit == Init => SeatInv /\ TeamInv
  <1> SUFFICES ASSUME Init PROVE SeatInv /\ TeamInv
    OBVIOUS
  <1>1. rows = {} /\ nextTeam = 1 /\ \A r \in Handlers : pc[r] = "idle"
    BY DEF Init
  <1>2. \A s \in TeamSlots : team[s].id = 0
    BY DEF Init, NoTeam
  <1>3. \A s \in 2..MaxTeams : s \in TeamSlots
    BY Limits DEF TeamSlots
  <1>4. SeatInv
    BY <1>1 DEF SeatInv, Alone, Seated
  <1>5. TeamInv
    BY <1>1, <1>2, <1>3 DEF TeamInv, TeamsKeyed, NoGaps, Ensures, Ensuring
  <1> QED BY <1>4, <1>5

LEMMA ActiveInit == Init => ActiveInv
  <1> SUFFICES ASSUME Init PROVE ActiveInv
    OBVIOUS
  <1>1. rows = {} /\ \A r \in Handlers : pc[r] = "idle"
    BY DEF Init
  <1> QED BY <1>1 DEF ActiveInv, Knows

\* When requests are served one after another, a team that a device plays for is ACTIVE
\* between them: no request leaves it released, also when it was selected and left again.
THEOREM ActiveCorrect == ASSUME OneAtATime PROVE Spec => []ActiveWhenPlayed
  <1>1. Init => ActiveInv
    BY ActiveInit
  <1>2. ActiveInv => ActiveWhenPlayed
    <2> SUFFICES ASSUME ActiveInv, Idle, NEW a \in rows, a.live, a.team \notin contested
                 PROVE  \A s \in SlotsOf(a.team) : team[s].active
      BY DEF ActiveWhenPlayed
    <2>1. Awake(a.team)
      BY DEF ActiveInv, Idle, Exempt
    <2> QED BY <2>1 DEF Awake
  <1>3. Init => SeatInv /\ TeamInv
    BY SeatsInit
  <1>4. BaseInv /\ BaseInv' /\ SeatInv /\ TeamInv /\ ActiveInv /\ [Next]_vars => ActiveInv'
    BY ActiveStep
  <1> QED BY <1>1, <1>2, <1>3, <1>4, BaseAlways, SeatStep, TeamStep, PTL DEF Spec

-----------------------------------------------------------------------------
(* One request at a time: who sits where, and what a handler knows of the  *)
(* team it is about to give to its device.                                 *)

Full == \A s \in TeamSlots : team[s].id # 0 => LiveOn(team[s].id) # {}

Takes(r) ==
  /\ pc[r] \in {"rotate", "touch"} => \A a \in RowById(job[r].row) : a.live
  /\ pc[r] = "probe" =>
       /\ \A s \in TeamSlots : team[s].id # 0 <=> s <= Len(job[r].list)
       /\ \A i \in 1..Len(job[r].list) : job[r].list[i] = team[i].id
       /\ \A i \in 1..(job[r].slot - 1) : LiveOn(job[r].list[i]) # {}
  /\ pc[r] = "create" => LiveOn(job[r].team) = {} \/ (job[r].team = team[1].id /\ Full)
  /\ pc[r] \in {"oust", "clear", "move"} => \A a \in LiveOn(job[r].team) : Sits(pc[r], job[r], a)
TakesInv == doubled = {} /\ \A r \in Handlers : Takes(r)

Careful == {"rotate", "touch", "probe", "create", "oust", "clear", "move"}

LEMMA TakesNothing == ASSUME NEW r, pc'[r] \notin Careful PROVE Takes(r)'
  BY DEF Takes, Careful

LEMMA TakesBy ==
  ASSUME OneAtATime, NEW r \in Handlers, doubled' = {}, Takes(r)'
  PROVE  TakesInv'
  BY DEF OneAtATime, TakesInv

LEMMA TakesQuits ==
  ASSUME TypeInv, NEW r \in Handlers,
         \/ ReadTeams(r) \/ Trim(r) \/ CreateTeam(r) \/ Rotate(r) \/ CreateRow(r) \/ Activate(r) \/ Answer(r)
         \/ Drop(r) \/ Touch(r) \/ WriteProfile(r) \/ Move(r) \/ Release(r) \/ Wipe(r) \/ ZeroTeams(r)
  PROVE  Takes(r)'
  <1>0. \A p \in {"idle", "trim", "createTeam", "wipe", "find", "joinRivals", "answer", "activate", "rivals",
                  "profile", "release", "zero"} : p \notin Careful
    BY DEF Careful
  <1>1. ASSUME NEW p, NEW j, Goto(r, p, j), p \notin Careful PROVE Takes(r)'
    BY <1>1, Elsewhere, TakesNothing
  <1>2. CASE ReadTeams(r) \/ Trim(r)
    BY <1>0, <1>1, <1>2 DEF ReadTeams, Trim, AfterTeams
  <1>3. CASE CreateTeam(r)
    BY <1>0, <1>1, <1>3 DEF CreateTeam, AfterTeams, End
  <1>4. CASE Rotate(r) \/ CreateRow(r)
    BY <1>0, <1>1, <1>4 DEF Rotate, CreateRow, End
  <1>5. CASE Activate(r) \/ Answer(r) \/ Drop(r)
    BY <1>0, <1>1, <1>5 DEF Activate, Answer, Drop, End
  <1>6. CASE Touch(r) \/ WriteProfile(r)
    BY <1>0, <1>1, <1>6 DEF Touch, WriteProfile, End
  <1>7. CASE Move(r) \/ Release(r) \/ Wipe(r) \/ ZeroTeams(r)
    BY <1>0, <1>1, <1>7 DEF Move, Release, Wipe, ZeroTeams, End
  <1> QED BY <1>2, <1>3, <1>4, <1>5, <1>6, <1>7

LEMMA TakesFinds ==
  ASSUME TypeInv, KeyInv, SessionInv, TakesInv, NEW r \in Handlers, FindRow(r)
  PROVE  Takes(r)'
  <1>1. PICK j \in Job : j = job[r] /\ Fits(pc[r], j)
    BY OneOf
  <1>2. j.device \in Devices \ doubled /\ rows' = rows /\ pc[r] = "find"
    BY <1>1 DEF FindRow, Fits, TakesInv, Tables
  <1>3. CASE RowsOf(j.device) = {}
    <2>1. \E k : Goto(r, "place", k)
      BY <1>1, <1>3 DEF FindRow
    <2> QED BY <2>1, Elsewhere, TakesNothing DEF Careful
  <1>4. CASE RowsOf(j.device) # {}
    <2>1. PICK x \in rows : x = Newest(j.device)
      BY <1>4, NewestIs DEF TypeInv, Typing, KeyInv, RowsKeyed, RowsOf
    <2> DEFINE jj == [j EXCEPT !.list = <<>>, !.slot = 0, !.row = x.id, !.team = x.team]
    <2>2. Goto(r, IF x.live THEN "rotate" ELSE "place", jj)
      BY <1>1, <1>4, <2>1 DEF FindRow
    <2>3. jj.row = x.id
      BY DEF Job
    <2> HIDE DEF jj
    <2>4. pc'[r] = (IF x.live THEN "rotate" ELSE "place") /\ job'[r] = jj
      BY <2>2, Elsewhere
    <2>5. CASE x.live
      <3>1. \A a \in rows : a.id = x.id => a = x
        BY DEF KeyInv, RowsKeyed
      <3> QED BY <1>2, <2>3, <2>4, <2>5, <3>1 DEF Takes, RowById
    <2>6. CASE ~x.live
      BY <2>4, <2>6, TakesNothing DEF Careful
    <2> QED BY <2>5, <2>6
  <1> QED BY <1>3, <1>4

LEMMA TakesPlaces ==
  ASSUME OneAtATime, TypeInv, TeamInv, NEW r \in Handlers, Place(r)
  PROVE  Takes(r)'
  <1>1. PICK j \in Job : j = job[r] /\ Fits(pc[r], j)
    BY OneOf
  <1>2. NoGaps /\ UNCHANGED <<team, rows>>
    BY DEF TeamInv, Steady, Place, Tables
  <1>3. PICK there \in Seq(Nat) :
          /\ there = TeamsBySlot
          /\ \A s \in TeamSlots : team[s].id # 0 <=> s <= Len(there)
          /\ \A i \in 1..Len(there) : there[i] = team[i].id
    BY <1>2, TeamsBySlotIs DEF NoGaps, TypeInv
  <1> DEFINE jj == Listed(j, there, 1)
  <1>4. \/ End(r) \/ \E k : Goto(r, "joinRivals", k)
        \/ Goto(r, "probe", jj)
    BY <1>1, <1>3 DEF Place, Listed
  <1>5. jj.list = there /\ jj.slot = 1
    BY DEF Listed, Job
  <1> HIDE DEF jj
  <1>6. CASE End(r) \/ \E k : Goto(r, "joinRivals", k)
    BY <1>6, Elsewhere, TakesNothing DEF Careful, End
  <1>7. CASE Goto(r, "probe", jj)
    <2>1. pc'[r] = "probe" /\ job'[r] = jj
      BY <1>7, Elsewhere
    <2>2. 1..(jj.slot - 1) = {}
      BY <1>5
    <2> QED BY <1>2, <1>3, <1>5, <2>1, <2>2 DEF Takes
  <1> QED BY <1>4, <1>6, <1>7

LEMMA TakesProbes ==
  ASSUME TypeInv, TakesInv, NEW r \in Handlers, Probe(r)
  PROVE  Takes(r)'
  <1>1. PICK j \in Job : j = job[r] /\ Fits(pc[r], j)
    BY OneOf
  <1>2. UNCHANGED <<team, rows>> /\ pc[r] = "probe"
    BY DEF Probe, Tables
  <1>3. PICK list \in Seq(Nat), slot \in Nat : list = j.list /\ slot = j.slot /\ slot \in 1..Len(list)
    BY <1>1, <1>2 DEF Fits, Job, TeamIds
  <1>4. /\ \A s \in TeamSlots : team[s].id # 0 <=> s <= Len(list)
        /\ \A i \in 1..Len(list) : list[i] = team[i].id
        /\ \A i \in 1..(slot - 1) : LiveOn(list[i]) # {}
    BY <1>1, <1>2, <1>3 DEF TakesInv, Takes
  <1> DEFINE free == LiveOn(list[slot]) = {}
             last == slot = Len(list)
             chosen == IF free THEN list[slot] ELSE list[1]
  <1>5. CASE free \/ last
    <2> DEFINE jj == [j EXCEPT !.team = chosen, !.list = <<>>, !.slot = 0]
    <2>1. Goto(r, "create", jj)
      BY <1>1, <1>3, <1>5 DEF Probe
    <2>2. jj.team = chosen
      BY DEF Job
    <2> HIDE DEF jj
    <2>3. pc'[r] = "create" /\ job'[r] = jj
      BY <2>1, Elsewhere
    <2>4. CASE free
      <3>1. LiveOn(chosen) = {}
        BY <2>4
      <3>2. PICK u : u = chosen
        OBVIOUS
      <3>3. jj.team = u /\ LiveOn(u) = {}
        BY <2>2, <3>1, <3>2
      <3> HIDE DEF chosen, free, last
      <3>4. LiveOn(u)' = LiveOn(u)
        BY <1>2 DEF LiveOn
      <3>5. job'[r].team = u /\ {a \in rows' : a.team = u /\ a.live} = {}
        BY <2>3, <3>3, <3>4 DEF LiveOn
      <3> QED BY <2>3, <3>5 DEF Takes, LiveOn
    <2>5. CASE ~free
      <3>1. chosen = team[1].id /\ slot = Len(list)
        BY <1>3, <1>4, <1>5, <2>5
      <3>2. ASSUME NEW s \in TeamSlots, team[s].id # 0 PROVE LiveOn(team[s].id) # {}
        <4>1. s \in 1..Len(list)
          BY <1>3, <1>4, <3>2 DEF TeamSlots
        <4>2. list[s] = team[s].id
          BY <1>4, <4>1
        <4>3. s = slot \/ s \in 1..(slot - 1)
          BY <1>3, <3>1, <4>1
        <4> QED BY <1>4, <2>5, <4>2, <4>3
      <3> HIDE DEF chosen
      <3>3. Full'
        BY <1>2, <3>2 DEF Full, LiveOn
      <3> QED BY <1>2, <2>2, <2>3, <3>1, <3>3 DEF Takes
    <2> HIDE DEF free
    <2> QED BY <2>4, <2>5
  <1>6. CASE ~(free \/ last)
    <2> DEFINE jj == [j EXCEPT !.slot = slot + 1]
    <2>1. Goto(r, "probe", jj)
      BY <1>1, <1>3, <1>6 DEF Probe
    <2>2. jj.slot = slot + 1 /\ jj.list = list
      BY <1>3 DEF Job
    <2> HIDE DEF jj
    <2>3. pc'[r] = "probe" /\ job'[r] = jj
      BY <2>1, Elsewhere
    <2>4. ASSUME NEW i \in 1..(jj.slot - 1) PROVE LiveOn(list[i]) # {}
      <3>1. i = slot \/ i \in 1..(slot - 1)
        BY <1>3, <2>2, <2>4
      <3> QED BY <1>4, <1>6, <3>1
    <2> QED BY <1>2, <1>4, <2>2, <2>3, <2>4 DEF Takes, LiveOn
  <1> QED BY <1>5, <1>6

LEMMA TakesRivals ==
  ASSUME TypeInv, NEW r \in Handlers, JoinRivals(r) \/ SelectRivals(r)
  PROVE  Takes(r)'
  <1>1. PICK j \in Job : j = job[r] /\ Fits(pc[r], j)
    BY OneOf
  <1>2. rows' = rows
    BY DEF JoinRivals, SelectRivals, Tables
  <1>3. CASE JoinRivals(r)
    <2> DEFINE others == {a.id : a \in {b \in LiveOn(j.team) : b.device # j.device}}
               jj == [j EXCEPT !.found = others]
               p == IF others # {} THEN "oust" ELSE "clear"
    <2>1. Goto(r, p, jj)
      BY <1>1, <1>3 DEF JoinRivals
    <2>2. jj.team = j.team /\ jj.found = others /\ jj.kind = j.kind /\ jj.device = j.device /\ j.kind = "join"
      BY <1>1, <1>3 DEF JoinRivals, Fits, Job
    <2> HIDE DEF jj
    <2>3. pc'[r] = p /\ job'[r] = jj
      BY <2>1, Elsewhere
    <2>4. p \in {"oust", "clear"}
      OBVIOUS
    <2>5. ASSUME NEW a \in LiveOn(j.team) PROVE Sits(p, jj, a)
      <3>1. a.device # j.device => a.id \in others
        OBVIOUS
      <3>2. p = IF others # {} THEN "oust" ELSE "clear"
        OBVIOUS
      <3> HIDE DEF others, p
      <3> QED BY <2>2, <3>1, <3>2 DEF Sits
    <2> HIDE DEF p, others
    <2> QED BY <1>2, <2>2, <2>3, <2>4, <2>5 DEF Takes, LiveOn
  <1>4. CASE SelectRivals(r)
    <2> DEFINE t == team[j.slot].id
               others == {a.id : a \in {b \in LiveOn(t) : b.id # j.row}}
               jj == [j EXCEPT !.found = others, !.old = j.team, !.team = t]
               p == IF others # {} THEN "oust" ELSE "move"
    <2>1. CASE End(r)
      BY <2>1, Elsewhere, TakesNothing DEF End, Careful
    <2>2. CASE Goto(r, p, jj)
      <3>1. jj.team = t /\ jj.found = others /\ jj.kind = j.kind /\ jj.row = j.row /\ j.kind = "select"
        BY <1>1, <1>4 DEF SelectRivals, Fits, Job
      <3> HIDE DEF jj
      <3>2. pc'[r] = p /\ job'[r] = jj
        BY <2>2, Elsewhere
      <3>3. p \in {"oust", "move"}
        OBVIOUS
      <3>4. ASSUME NEW a \in LiveOn(t) PROVE Sits(p, jj, a)
        <4>1. a.id # j.row => a.id \in others
          OBVIOUS
        <4>2. p = IF others # {} THEN "oust" ELSE "move"
          OBVIOUS
        <4> HIDE DEF others, p
        <4> QED BY <3>1, <4>1, <4>2 DEF Sits
      <3> HIDE DEF p, others, t
      <3> QED BY <1>2, <3>1, <3>2, <3>3, <3>4 DEF Takes, LiveOn
    <2> QED BY <1>1, <1>4, <2>1, <2>2 DEF SelectRivals
  <1> QED BY <1>3, <1>4

LEMMA TakesClears ==
  ASSUME TypeInv, TakesInv, NEW r \in Handlers, Oust(r) \/ Clear(r)
  PROVE  Takes(r)'
  <1>1. PICK j \in Job : j = job[r] /\ Fits(pc[r], j)
    BY OneOf
  <1>2. \A a \in LiveOn(j.team) : Sits(pc[r], j, a)
    BY <1>1 DEF TakesInv, Takes, Oust, Clear
  <1>3. CASE Oust(r)
    <2> DEFINE jj == [j EXCEPT !.found = {}]
               p == IF j.kind = "join" THEN "clear" ELSE "move"
    <2>1. Goto(r, p, jj)
      BY <1>1, <1>3 DEF Oust
    <2>2. jj.team = j.team /\ jj.kind = j.kind /\ jj.device = j.device /\ jj.row = j.row
      BY DEF Job
    <2> HIDE DEF jj
    <2>3. pc'[r] = p /\ job'[r] = jj /\ p \in {"clear", "move"}
      BY <2>1, Elsewhere
    <2>4. ASSUME NEW a \in rows', a.live, a.team = j.team PROVE Sits(p, jj, a)
      <3>1. a \in LiveOn(j.team) /\ a.id \notin j.found /\ pc[r] = "oust"
        BY <1>1, <1>3, <2>4 DEF Oust, LiveOn
      <3>2. Sits("oust", j, a)
        BY <1>2, <3>1
      <3> QED BY <2>2, <3>1, <3>2 DEF Sits
    <2> HIDE DEF p
    <2> QED BY <2>2, <2>3, <2>4 DEF Takes, LiveOn
  <1>4. CASE Clear(r)
    <2>1. pc'[r] = "create" /\ job'[r] = j
      BY <1>1, <1>4, Elsewhere DEF Clear
    <2>2. ASSUME NEW a \in rows', a.live, a.team = j.team PROVE FALSE
      <3>1. a \in LiveOn(j.team) /\ a.device # j.device /\ pc[r] = "clear"
        BY <1>1, <1>4, <2>2 DEF Clear, RowsOf, LiveOn
      <3> QED BY <1>2, <3>1 DEF Sits
    <2>3. LiveOn(j.team)' = {}
      BY <2>2 DEF LiveOn
    <2> QED BY <2>1, <2>3 DEF Takes
  <1> QED BY <1>3, <1>4

LEMMA TakesReceives ==
  ASSUME OneAtATime, TypeInv, KeyInv, TakesInv, NEW r \in Handlers, Receive(r)
  PROVE  TakesInv'
  <1>1. pc[r] = "idle" /\ job[r] = NoJob
    BY FreeIsIdle DEF Receive, ReceiveJoin, ReceiveReset, ReceiveSession
  <1>2. doubled' = {}
    <2>1. \A q \in Handlers : job[q].kind # "join"
      BY <1>1 DEF OneAtATime, NoJob
    <2> QED BY <2>1 DEF TakesInv, Receive, ReceiveJoin, ReceiveReset, ReceiveSession, history
  <1>3. Takes(r)'
    <2>1. ASSUME NEW j, Goto(r, "teams", j) PROVE Takes(r)'
      BY <2>1, Elsewhere, TakesNothing DEF Careful
    <2>2. CASE ReceiveReset(r) \/ \E d \in Devices : ReceiveJoin(r, d)
      BY <2>1, <2>2 DEF ReceiveReset, ReceiveJoin
    <2>3. ASSUME NEW d, NEW k, NEW s, ReceiveSession(r, d, k, s) PROVE Takes(r)'
      <3>1. PICK a \in rows :
              Goto(r, IF a.live THEN "touch" ELSE "drop",
                   [NoJob EXCEPT !.kind = k, !.device = d, !.slot = s, !.row = a.id, !.token = a.token, !.team = a.team])
        BY <2>3 DEF ReceiveSession
      <3> DEFINE j == [NoJob EXCEPT !.kind = k, !.device = d, !.slot = s, !.row = a.id, !.token = a.token, !.team = a.team]
      <3>2. j.row = a.id
        BY DEF NoJob
      <3>3. Goto(r, IF a.live THEN "touch" ELSE "drop", j)
        BY <3>1
      <3> HIDE DEF j
      <3>4. pc'[r] = (IF a.live THEN "touch" ELSE "drop") /\ job'[r] = j
        BY <3>3, Elsewhere
      <3>5. CASE a.live
        <4>1. rows' = rows
          BY <2>3 DEF ReceiveSession, Tables
        <4>2. \A b \in rows' : b.id = a.id => b = a
          BY <4>1 DEF KeyInv, RowsKeyed
        <4> QED BY <3>2, <3>4, <3>5, <4>2 DEF Takes, RowById
      <3>6. CASE ~a.live
        BY <3>4, <3>6, TakesNothing DEF Careful
      <3> QED BY <3>5, <3>6
    <2> QED BY <2>2, <2>3 DEF Receive
  <1> QED BY <1>2, <1>3, TakesBy

LEMMA TakesOutside ==
  ASSUME ~ExpiresInFlight, TakesInv, Resize \/ (\E a \in rows : Expire(a)) \/ UNCHANGED vars
  PROVE  TakesInv'
  <1>1. doubled' = doubled /\ team' = team /\ pc' = pc /\ job' = job
    BY DEF Resize, Expire, vars, history
  <1>2. CASE rows' = rows
    <2>1. ASSUME NEW r \in Handlers PROVE Takes(r)'
      <3>1. Takes(r)
        BY DEF TakesInv
      <3> QED BY <1>1, <1>2, <3>1 DEF Takes, Full, LiveOn, RowById
    <2> QED BY <1>1, <2>1 DEF TakesInv
  <1>3. CASE \A r \in Handlers : pc[r] = "idle"
    BY <1>1, <1>3, TakesNothing DEF TakesInv, Careful
  <1> QED BY <1>2, <1>3 DEF Resize, Expire, Idle, vars

LEMMA TakesStep ==
  ASSUME OneAtATime, ~ExpiresInFlight
  PROVE  BaseInv /\ SessionInv /\ TeamInv /\ TakesInv /\ [Next]_vars => TakesInv'
  <1> SUFFICES ASSUME TypeInv, KeyInv, SessionInv, TeamInv, TakesInv, [Next]_vars PROVE TakesInv'
    BY DEF BaseInv
  <1>1. ASSUME NEW r \in Handlers, Step(r) PROVE TakesInv'
    <2>1. Takes(r)'
      BY <1>1, TakesQuits, TakesFinds, TakesPlaces, TakesProbes, TakesRivals, TakesClears DEF Step
    <2>2. doubled' = {}
      BY <1>1 DEF Step, ReadTeams, Trim, CreateTeam, FindRow, Rotate, Place, Probe, JoinRivals, Oust, Clear, CreateRow,
             Activate, Answer, Drop, Touch, WriteProfile, SelectRivals, Move, Release, Wipe, ZeroTeams, history, TakesInv
    <2> QED BY <2>1, <2>2, TakesBy
  <1> QED BY <1>1, TakesReceives, TakesOutside DEF Next

-----------------------------------------------------------------------------
(* The steps of Sessions as steps of Seats.                                *)

Open == {s \in TeamSlots : team[s].id # 0}

\* The seat of a device in the tables R of assignments and T of teams.
SeatIn(R, T, d) ==
  LET mine == {a \in R : a.device = d /\ a.live}
      t == (CHOOSE a \in mine : TRUE).team
  IN IF mine = {} THEN 0 ELSE CHOOSE s \in {s \in TeamSlots : t # 0 /\ T[s].id = t} : TRUE
SitsAt(R, T, d, s) == \E a \in R : a.device = d /\ a.live /\ a.team = T[s].id

\* A device has one row, a row one team, a team one slot, and the slots are the first ones.
Keyed(R, T) ==
  /\ \A a, b \in R : a.device = b.device => a = b
  /\ \A a \in R : a.team # 0 /\ \E s \in TeamSlots : T[s].id = a.team
  /\ \A s, u \in TeamSlots : T[s].id = T[u].id /\ T[s].id # 0 => s = u
Contiguous == \E n \in 0..MaxTeams : \A s \in TeamSlots : team[s].id # 0 <=> s <= n
BoardInv == Keyed(rows, team) /\ Contiguous

LEMMA BoardInvHolds ==
  ASSUME OneAtATime
  PROVE  BaseInv /\ SessionInv /\ TeamInv /\ TakesInv => BoardInv
  <1> SUFFICES ASSUME TypeInv, KeyInv, SessionInv, TeamInv, TakesInv PROVE BoardInv
    BY DEF BaseInv
  <1>1. ASSUME NEW a \in rows, NEW b \in rows, a.device = b.device PROVE a = b
    <2>1. a.device \in Devices \ doubled
      BY DEF TakesInv, TypeInv, Typing, Tabled, Row
    <2>2. OneRow(a.device)
      BY <2>1 DEF SessionInv, SessionOf
    <2> QED BY <1>1, <2>2 DEF OneRow, RowsOf
  <1>2. \A a \in rows : a.team # 0 /\ \E s \in TeamSlots : team[s].id = a.team
    BY DEF KeyInv, TeamsExist, SlotsOf
  <1>3. \A s, u \in TeamSlots : team[s].id = team[u].id /\ team[s].id # 0 => s = u
    BY DEF TeamInv, TeamsKeyed
  <1>4. Contiguous
    <2>1. NoGaps
      BY DEF TeamInv, Steady
    <2>2. /\ TeamsBySlot \in Seq(Nat) /\ Len(TeamsBySlot) <= MaxTeams
          /\ \A s \in TeamSlots : team[s].id # 0 <=> s <= Len(TeamsBySlot)
      BY <2>1, TeamsBySlotIs DEF NoGaps, TypeInv
    <2>3. Len(TeamsBySlot) \in 0..MaxTeams
      BY <2>2, Limits
    <2> QED BY <2>2, <2>3 DEF Contiguous
  <1> QED BY <1>1, <1>2, <1>3, <1>4 DEF BoardInv, Keyed

LEMMA SeatInIs ==
  ASSUME NEW R, NEW T, Keyed(R, T), NEW d
  PROVE  /\ SeatIn(R, T, d) \in TeamSlots \cup {0}
         /\ \A s \in TeamSlots : SeatIn(R, T, d) = s <=> SitsAt(R, T, d, s)
  <1> DEFINE mine == {a \in R : a.device = d /\ a.live}
  <1>0. 0 \notin TeamSlots
    BY Limits DEF TeamSlots
  <1>1. CASE mine = {}
    <2>1. SeatIn(R, T, d) = 0
      BY <1>1 DEF SeatIn
    <2>2. \A s \in TeamSlots : ~SitsAt(R, T, d, s)
      BY <1>1 DEF SitsAt
    <2> QED BY <1>0, <2>1, <2>2
  <1>2. CASE mine # {}
    <2>1. PICK a : mine = {a} /\ a \in R /\ a.device = d /\ a.live
      BY <1>2 DEF Keyed
    <2>2. PICK u \in TeamSlots : T[u].id = a.team /\ a.team # 0
      BY <2>1 DEF Keyed
    <2>3. (CHOOSE b \in mine : TRUE) = a
      <3>1. (CHOOSE b \in mine : TRUE) \in mine
        BY <1>2
      <3> QED BY <2>1, <3>1
    <2>4. {s \in TeamSlots : a.team # 0 /\ T[s].id = a.team} = {u}
      BY <2>2 DEF Keyed
    <2>5. SeatIn(R, T, d) = CHOOSE s \in {s \in TeamSlots : a.team # 0 /\ T[s].id = a.team} : TRUE
      BY <1>2, <2>3, Zenon DEF SeatIn
    <2>6. SeatIn(R, T, d) = u
      BY <2>4, <2>5
    <2>7. \A b \in R : b.device = d /\ b.live => b = a
      BY <2>1
    <2>8. \A s \in TeamSlots : SitsAt(R, T, d, s) <=> s = u
      BY <2>1, <2>2, <2>7 DEF SitsAt, Keyed
    <2> QED BY <2>2, <2>6, <2>8
  <1> QED BY <1>1, <1>2

LEMMA SeatIs ==
  /\ Seat = [d \in Devices |-> SeatIn(rows, team, d)]
  /\ Seat' = [d \in Devices |-> SeatIn(rows', team', d)]
  <1>1. \A d : {a \in RowsOf(d) : a.live} = {a \in rows : a.device = d /\ a.live}
    BY DEF RowsOf
  <1>2. \A d : {a \in RowsOf(d)' : a.live} = {a \in rows' : a.device = d /\ a.live}
    BY DEF RowsOf
  <1>3. ASSUME NEW d \in Devices
        PROVE  /\ Seat[d] = SeatIn(rows, team, d)
               /\ Seat'[d] = SeatIn(rows', team', d)
    <2>1. Seat[d] = SeatIn(rows, team, d)
      <3>1. PICK m : m = {a \in rows : a.device = d /\ a.live}
        OBVIOUS
      <3>2. PICK t : t = (CHOOSE a \in m : TRUE).team
        OBVIOUS
      <3>3. {a \in RowsOf(d) : a.live} = m
        BY <1>1, <3>1
      <3>4. PICK seats : seats = {s \in TeamSlots : t # 0 /\ team[s].id = t}
        OBVIOUS
      <3>5. Seat[d] = IF m = {} THEN 0 ELSE CHOOSE s \in seats : TRUE
        <4>1. Seat[d] = LET mine == {a \in RowsOf(d) : a.live}
                           IN IF mine = {} THEN 0 ELSE CHOOSE s \in SlotsOf((CHOOSE a \in mine : TRUE).team) : TRUE
          BY DEF Seat
        <4>2. Seat[d] = IF m = {} THEN 0 ELSE CHOOSE s \in SlotsOf((CHOOSE a \in m : TRUE).team) : TRUE
          BY <3>3, <4>1, Zenon
        <4>3. SlotsOf(t) = seats
          BY <3>4 DEF SlotsOf
        <4> QED BY <3>2, <4>2, <4>3, Zenon
      <3>6. SeatIn(rows, team, d) = IF m = {} THEN 0 ELSE CHOOSE s \in seats : TRUE
        BY <3>1, <3>2, <3>4 DEF SeatIn
      <3> QED BY <3>5, <3>6
    <2>2. Seat'[d] = SeatIn(rows', team', d)
      <3>1. PICK m : m = {a \in rows' : a.device = d /\ a.live}
        OBVIOUS
      <3>2. PICK t : t = (CHOOSE a \in m : TRUE).team
        OBVIOUS
      <3>3. {a \in RowsOf(d)' : a.live} = m
        BY <1>2, <3>1
      <3>4. PICK seats : seats = {s \in TeamSlots : t # 0 /\ team'[s].id = t}
        OBVIOUS
      <3>5. Seat'[d] = IF m = {} THEN 0 ELSE CHOOSE s \in seats : TRUE
        <4>1. Seat'[d] = LET mine == {a \in RowsOf(d)' : a.live}
                             u == (CHOOSE a \in mine : TRUE).team
                         IN IF mine = {} THEN 0 ELSE CHOOSE s \in {s \in TeamSlots : u # 0 /\ team'[s].id = u} : TRUE
          BY Zenon DEF Seat, SlotsOf
        <4>2. Seat'[d] = LET u == (CHOOSE a \in m : TRUE).team
                         IN IF m = {} THEN 0 ELSE CHOOSE s \in {s \in TeamSlots : u # 0 /\ team'[s].id = u} : TRUE
          BY <3>3, <4>1, Zenon
        <4>3. Seat'[d] = IF m = {} THEN 0 ELSE CHOOSE s \in {s \in TeamSlots : t # 0 /\ team'[s].id = t} : TRUE
          BY <3>2, <4>2, Zenon
        <4> QED BY <3>4, <4>3, Zenon
      <3>6. SeatIn(rows', team', d) = IF m = {} THEN 0 ELSE CHOOSE s \in seats : TRUE
        BY <3>1, <3>2, <3>4 DEF SeatIn
      <3> QED BY <3>5, <3>6
    <2> QED BY <2>1, <2>2
  <1>4. Seat = [d \in Devices |-> Seat[d]] /\ Seat' = [d \in Devices |-> Seat'[d]]
    BY DEF Seat
  <1> QED BY <1>3, <1>4

LEMMA Seating ==
  ASSUME Keyed(rows, team), Keyed(rows', team')
  PROVE  /\ Seat = [d \in Devices |-> Seat[d]] /\ Seat' = [d \in Devices |-> Seat'[d]]
         /\ \A d \in Devices : Seat[d] \in TeamSlots \cup {0} /\ Seat'[d] \in TeamSlots \cup {0}
         /\ \A d \in Devices, s \in TeamSlots : /\ Seat[d] = s <=> SitsAt(rows, team, d, s)
                                                /\ Seat'[d] = s <=> SitsAt(rows', team', d, s)
  <1>1. \A d \in Devices : Seat[d] = SeatIn(rows, team, d) /\ Seat'[d] = SeatIn(rows', team', d)
    BY SeatIs
  <1>2. Seat = [d \in Devices |-> Seat[d]] /\ Seat' = [d \in Devices |-> Seat'[d]]
    BY SeatIs
  <1> QED BY <1>1, <1>2, SeatInIs

BoardStep == Board!Next \/ (Open' = Open /\ Seat' = Seat)

\* Devices stand up.
LEMMA StandsUp ==
  ASSUME Keyed(rows, team), Keyed(rows', team'), \A s \in TeamSlots : team'[s].id = team[s].id,
         \A a \in rows' : a.live => \E b \in rows : b.device = a.device /\ b.team = a.team /\ b.live
  PROVE  BoardStep
  <1>0. Open' = Open
    BY DEF Open
  <1>1. PICK now, next : now = Seat /\ next = Seat'
    OBVIOUS
  <1>2. /\ now = [d \in Devices |-> now[d]] /\ next = [d \in Devices |-> next[d]]
        /\ \A d \in Devices : now[d] \in TeamSlots \cup {0} /\ next[d] \in TeamSlots \cup {0}
        /\ \A d \in Devices, s \in TeamSlots : next[d] = s => now[d] = s
    <2>1. \A d \in Devices, s \in TeamSlots : SitsAt(rows', team', d, s) => SitsAt(rows, team, d, s)
      BY DEF SitsAt
    <2> QED BY <1>1, <2>1, Seating, Zenon
  <1>3. \A d \in Devices : next[d] \in {0, now[d]}
    BY <1>2
  <1> DEFINE D == {d \in Devices : next[d] # now[d]}
  <1>4. CASE D = {}
    <2>1. \A d \in Devices : next[d] = now[d]
      BY <1>4
    <2>2. next = now
      BY <1>2, <2>1
    <2> QED BY <1>0, <1>1, <2>2 DEF BoardStep
  <1>5. CASE D # {}
    <2>1. \A d \in Devices : next[d] = IF d \in D THEN 0 ELSE now[d]
      BY <1>3
    <2>2. next = [d \in Devices |-> IF d \in D THEN 0 ELSE now[d]]
      BY <1>2, <2>1
    <2>3. D \in (SUBSET Devices) \ {{}}
      BY <1>5
    <2> HIDE DEF D
    <2>4. Board!Leave
      BY <1>0, <1>1, <2>2, <2>3, ZenonT(30) DEF Board!Leave, Open
    <2> QED BY <2>4 DEF BoardStep, Board!Next
  <1> QED BY <1>4, <1>5

\* The teams change, and with them who can sit.
LEMMA Reseated ==
  ASSUME Keyed(rows, team), Keyed(rows', team'), Contiguous',
         \A d \in Devices, s \in TeamSlots :
           SitsAt(rows', team', d, s) <=> SitsAt(rows, team, d, s) /\ team'[s].id # 0
  PROVE  BoardStep
  <1>1. PICK n \in 0..MaxTeams : \A s \in TeamSlots : team'[s].id # 0 <=> s <= n
    BY DEF Contiguous
  <1>2. Open' = 1..n
    BY <1>1, Limits DEF Open, TeamSlots
  <1>3. PICK now, next, opens : now = Seat /\ next = Seat' /\ opens = Open'
    OBVIOUS
  <1>4. /\ next = [d \in Devices |-> next[d]]
        /\ \A d \in Devices : now[d] \in TeamSlots \cup {0} /\ next[d] \in TeamSlots \cup {0}
        /\ \A d \in Devices, s \in TeamSlots : next[d] = s <=> now[d] = s /\ s \in opens
    <2>1. \A s \in TeamSlots : s \in opens <=> team'[s].id # 0
      BY <1>3 DEF Open
    <2> QED BY <1>3, <2>1, Seating, Zenon
  <1>5. \A d \in Devices : next[d] = IF now[d] \in opens THEN now[d] ELSE 0
    <2>1. 0 \notin opens /\ opens \subseteq TeamSlots
      BY <1>2, <1>3, Limits DEF TeamSlots
    <2> QED BY <1>4, <2>1
  <1>6. next = [d \in Devices |-> IF now[d] \in opens THEN now[d] ELSE 0]
    BY <1>4, <1>5
  <1>7. Board!Resize
    BY <1>2, <1>3, <1>6, Zenon DEF Board!Resize, Open
  <1> QED BY <1>7 DEF BoardStep, Board!Next

\* A device sits down.
LEMMA SitsDown ==
  ASSUME Keyed(rows, team), Keyed(rows', team'), \A u \in TeamSlots : team'[u].id = team[u].id,
         rows \subseteq Row, NEW d \in Devices, NEW s \in TeamSlots, team[s].id # 0, SitsAt(rows', team', d, s),
         \A a : a.device # d => (a \in rows' <=> a \in rows),
         \/ LiveOn(team[s].id) = {}
         \/ s = 1 /\ Full /\ \A a \in rows : a.device # d
  PROVE  BoardStep
  <1>0. Open' = Open /\ s \in Open
    BY DEF Open
  <1>1. PICK now, next, opens : now = Seat /\ next = Seat' /\ opens = Open
    OBVIOUS
  <1>2. /\ now = [e \in Devices |-> now[e]] /\ next = [e \in Devices |-> next[e]]
        /\ \A e \in Devices : now[e] \in TeamSlots \cup {0} /\ next[e] \in TeamSlots \cup {0}
        /\ \A e \in Devices, u \in TeamSlots : /\ now[e] = u <=> SitsAt(rows, team, e, u)
                                               /\ next[e] = u <=> SitsAt(rows', team', e, u)
    BY <1>1, Seating
  <1>3. \A e \in Devices \ {d}, u \in TeamSlots : SitsAt(rows', team', e, u) <=> SitsAt(rows, team, e, u)
    BY DEF SitsAt
  <1>4. \A e \in Devices : next[e] = IF e = d THEN s ELSE now[e]
    BY <1>2, <1>3
  <1>5. next = [now EXCEPT ![d] = s]
    BY <1>2, <1>4
  <1> DEFINE At(u) == {e \in Devices : now[e] = u}
  <1>6. At(s) = {} \/ (now[d] = 0 /\ s = 1 /\ \A u \in opens : At(u) # {})
    <2>1. CASE LiveOn(team[s].id) = {}
      <3>1. \A e \in Devices : ~SitsAt(rows, team, e, s)
        BY <2>1 DEF SitsAt, LiveOn
      <3> QED BY <1>2, <3>1
    <2>2. CASE s = 1 /\ Full /\ \A a \in rows : a.device # d
      <3>1. \A u \in TeamSlots : ~SitsAt(rows, team, d, u)
        BY <2>2 DEF SitsAt
      <3>2. now[d] = 0
        BY <1>2, <3>1
      <3>3. ASSUME NEW u \in opens PROVE At(u) # {}
        <4>1. u \in TeamSlots /\ team[u].id # 0
          BY <1>1, <3>3 DEF Open
        <4>2. PICK a \in rows : a.team = team[u].id /\ a.live
          BY <2>2, <4>1 DEF Full, LiveOn
        <4>3. a.device \in Devices
          BY DEF Row
        <4>4. SitsAt(rows, team, a.device, u)
          BY <4>2 DEF SitsAt
        <4> QED BY <1>2, <4>1, <4>3, <4>4
      <3> QED BY <2>2, <3>2, <3>3
    <2> QED BY <2>1, <2>2
  <1>7. Board!Sit(d, s)
    <2>1. /\ {e \in Devices : Seat[e] = s} = {}
             \/ (Seat[d] = 0 /\ s = 1 /\ \A u \in Open : {e \in Devices : Seat[e] = u} # {})
          /\ Seat' = [Seat EXCEPT ![d] = s]
          /\ Open' = Open
      BY <1>0, <1>1, <1>5, <1>6
    <2> HIDE DEF Seat
    <2> QED BY <2>1, SMT DEF Board!Sit, Board!Full, Board!At, Open
  <1> QED BY <1>0, <1>7 DEF BoardStep, Board!Next, Open

LEMMA BoardStays ==
  ASSUME TypeInv, KeyInv, BoardInv, BoardInv', NEW r \in Handlers,
         \/ Receive(r) \/ ReadTeams(r) \/ FindRow(r) \/ Place(r) \/ Probe(r) \/ JoinRivals(r) \/ SelectRivals(r)
         \/ Answer(r) \/ Oust(r) \/ Clear(r) \/ Drop(r) \/ Wipe(r)
         \/ Activate(r) \/ WriteProfile(r) \/ Release(r) \/ ZeroTeams(r)
  PROVE  BoardStep
  <1>1. rows' \subseteq rows
    BY DEF Receive, ReceiveJoin, ReceiveReset, ReceiveSession, ReadTeams, FindRow, Place, Probe, JoinRivals,
           SelectRivals, Answer, Oust, Clear, Drop, Wipe, Activate, WriteProfile, Release, ZeroTeams, Tables
  <1>2. \A s \in TeamSlots : team'[s].id = team[s].id
    <2>0. team \in [TeamSlots -> [id : TeamIds, active : BOOLEAN]]
      BY DEF TypeInv, Typing, Tabled
    <2>1. CASE Activate(r) \/ WriteProfile(r) \/ Release(r)
      BY <2>0, <2>1, StatusIds DEF TypeInv, Activate, WriteProfile, Release
    <2>2. CASE ZeroTeams(r)
      BY <2>0, <2>2 DEF ZeroTeams
    <2>3. CASE ~Activate(r) /\ ~WriteProfile(r) /\ ~Release(r) /\ ~ZeroTeams(r)
      <3>1. team' = team
        BY <2>3 DEF Receive, ReceiveJoin, ReceiveReset, ReceiveSession, ReadTeams, FindRow, Place, Probe, JoinRivals,
           SelectRivals, Answer, Oust, Clear, Drop, Wipe, Tables
      <3> QED BY <3>1
    <2> QED BY <2>1, <2>2, <2>3
  <1> QED BY <1>1, <1>2, StandsUp DEF BoardInv

\* A session that is renewed was alive.
LEMMA BoardRenews ==
  ASSUME TypeInv, KeyInv, TakesInv, BoardInv, BoardInv', NEW r \in Handlers, Rotate(r) \/ Touch(r)
  PROVE  BoardStep
  <1>1. team' = team /\ (Renew(r, nextId) \/ Renew(r, 0)) /\ nextId \in Ids /\ 0 \in Ids
    BY DEF Rotate, Touch, Ids, TypeInv, Typing, Tabled
  <1>2. \A a \in RowById(job[r].row) : a.live
    BY DEF TakesInv, Takes, Rotate, Touch
  <1>3. ASSUME NEW token \in Ids, Renew(r, token)
        PROVE  \A a \in rows' : a.live => \E b \in rows : b.device = a.device /\ b.team = a.team /\ b.live
    <2>1. CASE rows' = rows
      BY <2>1
    <2>2. ASSUME NEW x \in rows, RowById(job[r].row) = {x}, rows' = (rows \ {x}) \cup {Fresh(x, token)}
          PROVE  \A a \in rows' : a.live => \E b \in rows : b.device = a.device /\ b.team = a.team /\ b.live
      <3>1. x \in Row
        BY DEF TypeInv, Typing, Tabled
      <3>2. PICK y : y = Fresh(x, token) /\ y.device = x.device /\ y.team = x.team
        BY <3>1, FreshIs
      <3>3. x.live
        BY <1>2, <2>2
      <3> QED BY <2>2, <3>2, <3>3
    <2> QED BY <1>3, <2>1, <2>2, RenewIs DEF TypeInv, KeyInv
  <1> QED BY <1>1, <1>3, StandsUp DEF BoardInv

LEMMA BoardTrims ==
  ASSUME BoardInv, BoardInv', NEW r \in Handlers, Trim(r)
  PROVE  BoardStep
  <1>1. \A s \in TeamSlots : team'[s] = IF team[s].id \in Surplus(r) THEN NoTeam ELSE team[s]
    BY DEF Trim
  <1>2. rows' = {a \in rows : a.team \notin Surplus(r)}
    BY DEF Trim
  <1>3. NoTeam.id = 0 /\ \A a \in rows : a.team # 0
    BY DEF NoTeam, BoardInv, Keyed
  <1>4. ASSUME NEW d \in Devices, NEW s \in TeamSlots
        PROVE  SitsAt(rows', team', d, s) <=> SitsAt(rows, team, d, s) /\ team'[s].id # 0
    <2>1. ASSUME NEW a \in rows', a.device = d, a.live, a.team = team'[s].id
          PROVE  SitsAt(rows, team, d, s) /\ team'[s].id # 0
      BY <1>1, <1>2, <1>3, <2>1 DEF SitsAt
    <2>2. ASSUME NEW a \in rows, a.device = d, a.live, a.team = team[s].id, team'[s].id # 0
          PROVE  SitsAt(rows', team', d, s)
      BY <1>1, <1>2, <1>3, <2>2 DEF SitsAt
    <2> QED BY <2>1, <2>2 DEF SitsAt
  <1> QED BY <1>4, Reseated DEF BoardInv

LEMMA BoardOpens ==
  ASSUME TypeInv, BoardInv, BoardInv', NEW r \in Handlers, CreateTeam(r)
  PROVE  BoardStep
  <1>1. rows' = rows
    BY DEF CreateTeam
  <1>2. CASE team' = team
    BY <1>1, <1>2, StandsUp DEF BoardInv
  <1>3. CASE team' # team
    <2> DEFINE n == job[r].slot
    <2>1. team[n].id = 0 /\ team' = [team EXCEPT ![n] = [id |-> nextTeam, active |-> FALSE]]
      BY <1>3 DEF CreateTeam
    <2>2. \A s \in TeamSlots : s # n => team'[s] = team[s]
      BY <2>1 DEF TypeInv, Typing, Tabled
    <2>3. ASSUME NEW a \in rows, NEW s \in TeamSlots PROVE a.team = team'[s].id <=> a.team = team[s].id /\ team'[s].id # 0
      <3>1. a.team # 0
        BY DEF BoardInv, Keyed
      <3>2. PICK u \in TeamSlots : team[u].id = a.team
        BY DEF BoardInv, Keyed
      <3>3. u # n /\ team'[u] = team[u]
        BY <2>1, <2>2, <3>1, <3>2
      <3>4. a.team = team'[s].id => s = u
        BY <3>1, <3>2, <3>3 DEF BoardInv, Keyed
      <3>5. a.team = team[s].id => s = u
        BY <3>1, <3>2 DEF BoardInv, Keyed
      <3> QED BY <3>1, <3>2, <3>3, <3>4, <3>5
    <2>4. \A d \in Devices, s \in TeamSlots :
            SitsAt(rows', team', d, s) <=> SitsAt(rows, team, d, s) /\ team'[s].id # 0
      BY <1>1, <2>3 DEF SitsAt
    <2> QED BY <2>4, Reseated DEF BoardInv
  <1> QED BY <1>2, <1>3

LEMMA BoardSeats ==
  ASSUME TypeInv, KeyInv, SessionInv, TakesInv, BoardInv, BoardInv', NEW r \in Handlers, CreateRow(r)
  PROVE  BoardStep
  <1>1. team' = team /\ rows \subseteq Row /\ pc[r] = "create"
    BY DEF CreateRow, TypeInv, Typing, Tabled
  <1>2. CASE rows' = rows
    BY <1>1, <1>2, StandsUp DEF BoardInv
  <1>3. ASSUME NEW y \in Row, y.device = job[r].device, y.team = job[r].team, y.live, rows' = rows \cup {y},
               SlotsOf(job[r].team) # {}
        PROVE  BoardStep
    <2>1. PICK s \in TeamSlots : team[s].id = y.team /\ y.team # 0
      BY <1>3 DEF SlotsOf
    <2>2. PICK d \in Devices : d = y.device
      BY DEF Row
    <2>3. \A a \in rows : a.device # d
      <3>1. PICK j \in Job : j = job[r] /\ Fits(pc[r], j)
        BY OneOf
      <3>2. JoinOf(r, d) /\ d \in Devices \ doubled
        BY <1>1, <1>3, <2>2, <3>1 DEF JoinOf, Fits, TakesInv
      <3>3. Joins(r, d)
        BY <3>2 DEF SessionInv, SessionOf
      <3> QED BY <1>1, <3>3 DEF Joins, RowsOf
    <2>4. LiveOn(team[s].id) = {} \/ (s = 1 /\ Full)
      <3>1. LiveOn(y.team) = {} \/ (y.team = team[1].id /\ Full)
        BY <1>1, <1>3 DEF TakesInv, Takes
      <3>2. 1 \in TeamSlots
        BY Limits DEF TeamSlots
      <3>3. y.team = team[1].id => s = 1
        BY <2>1, <3>2 DEF BoardInv, Keyed
      <3> QED BY <2>1, <3>1, <3>3
    <2>5. SitsAt(rows', team', d, s)
      BY <1>1, <1>3, <2>1, <2>2 DEF SitsAt
    <2>6. \A a : a.device # d => (a \in rows' <=> a \in rows)
      BY <1>3, <2>2
    <2>7. \A u \in TeamSlots : team'[u].id = team[u].id
      BY <1>1
    <2>8. Keyed(rows, team) /\ Keyed(rows', team') /\ team[s].id # 0
      BY <2>1 DEF BoardInv
    <2> QED BY <1>1, <2>3, <2>4, <2>5, <2>6, <2>7, <2>8, SitsDown
  <1> QED BY <1>2, <1>3, CreateIs

LEMMA BoardMoves ==
  ASSUME TypeInv, KeyInv, ActiveInv, TakesInv, BoardInv, BoardInv', NEW r \in Handlers, Move(r)
  PROVE  BoardStep
  <1>1. team' = team /\ rows \subseteq Row /\ pc[r] = "move"
    BY DEF Move, TypeInv, Typing, Tabled
  <1>2. CASE rows' = rows
    BY <1>1, <1>2, StandsUp DEF BoardInv
  <1>3. ASSUME NEW x \in rows, NEW y \in Row, x.id = job[r].row, y.device = x.device, y.team = job[r].team, y.live,
               rows' = (rows \ {x}) \cup {y}, SlotsOf(job[r].team) # {}
        PROVE  BoardStep
    <2>1. PICK s \in TeamSlots : team[s].id = y.team /\ y.team # 0
      BY <1>3 DEF SlotsOf
    <2>2. PICK d \in Devices : d = y.device
      BY DEF Row
    <2>3. LiveOn(team[s].id) = {}
      <3>1. PICK j \in Job : j = job[r] /\ Fits(pc[r], j)
        BY OneOf
      <3>2. x.team # job[r].team
        BY <1>1, <1>3, <3>1 DEF Fits, ActiveInv, Knows, RowById
      <3>3. \A a \in LiveOn(job[r].team) : a.id = x.id
        BY <1>1, <1>3 DEF TakesInv, Takes, Sits
      <3>4. \A a \in LiveOn(job[r].team) : a = x
        BY <3>3 DEF KeyInv, RowsKeyed, LiveOn
      <3> QED BY <1>3, <2>1, <3>2, <3>4 DEF LiveOn
    <2>4. SitsAt(rows', team', d, s)
      BY <1>1, <1>3, <2>1, <2>2 DEF SitsAt
    <2>5. \A a : a.device # d => (a \in rows' <=> a \in rows)
      BY <1>3, <2>2
    <2>6. \A u \in TeamSlots : team'[u].id = team[u].id
      BY <1>1
    <2>7. Keyed(rows, team) /\ Keyed(rows', team') /\ team[s].id # 0
      BY <2>1 DEF BoardInv
    <2> QED BY <1>1, <2>3, <2>4, <2>5, <2>6, <2>7, SitsDown
  <1> QED BY <1>2, <1>3, MoveIs DEF KeyInv

LEMMA BoardOutside ==
  ASSUME TypeInv, BoardInv, BoardInv', Resize \/ (\E a \in rows : Expire(a)) \/ UNCHANGED vars
  PROVE  BoardStep
  <1>1. team' = team
    BY DEF Resize, Expire, vars
  <1>2. CASE rows' = rows
    BY <1>1, <1>2, StandsUp DEF BoardInv
  <1>3. ASSUME NEW x \in rows, Expire(x) PROVE BoardStep
    <2>1. PICK y \in Row : ~y.live /\ rows' = (rows \ {x}) \cup {y}
      BY <1>3, ExpireIs
    <2>2. \A a \in rows' : a.live => a \in rows
      BY <2>1
    <2> QED BY <1>1, <2>2, StandsUp DEF BoardInv
  <1> QED BY <1>2, <1>3 DEF Resize, vars

LEMMA BoardSteps ==
  /\ BaseInv /\ SessionInv /\ ActiveInv /\ TakesInv /\ BoardInv /\ BoardInv' /\ [Next]_vars
  => [Board!Next]_<<{s \in TeamSlots : team[s].id # 0}, Seat>>
  <1> SUFFICES ASSUME TypeInv, KeyInv, SessionInv, ActiveInv, TakesInv, BoardInv, BoardInv', [Next]_vars
               PROVE  [Board!Next]_<<{s \in TeamSlots : team[s].id # 0}, Seat>>
    BY DEF BaseInv
  <1>1. ASSUME NEW r \in Handlers, Receive(r) \/ Step(r) PROVE BoardStep
    BY <1>1, BoardStays, BoardRenews, BoardTrims, BoardOpens, BoardSeats, BoardMoves DEF Step
  <1>2. BoardStep
    BY <1>1, BoardOutside DEF Next
  <1> QED BY <1>2, Zenon DEF BoardStep, Open

LEMMA BoardInit == Init => Board!Init
  <1> SUFFICES ASSUME Init PROVE Board!Init
    OBVIOUS
  <1>1. rows = {} /\ \A s \in TeamSlots : team[s].id = 0
    BY DEF Init, NoTeam
  <1>2. {s \in TeamSlots : team[s].id # 0} = {}
    BY <1>1
  <1>3. \A d \in Devices : SeatIn(rows, team, d) = 0
    BY <1>1 DEF SeatIn
  <1>4. Seat = [d \in Devices |-> 0]
    BY <1>3, SeatIs
  <1> QED BY <1>2, <1>4 DEF Board!Init

\* Joins, moves, renewals, resets and expiries that come one after another are steps of
\* Seats: a device takes a team nobody sits at, and only a full game puts two at one team,
\* the first; nobody else's seat changes but by standing up.
THEOREM JoinsKeepSeats == ASSUME OneAtATime, ~ExpiresInFlight PROVE Spec => SeatsSpec
  <1>1. Init => BaseInv /\ SeatInv /\ SessionInv /\ TeamInv /\ ActiveInv /\ TakesInv
    <2> SUFFICES ASSUME Init PROVE TakesInv
      BY BaseInit, SeatsInit, SessionInit, ActiveInit
    <2>1. TakesInv
      BY TakesNothing DEF Init, TakesInv, Takes
    <2> QED BY <2>1
  <1>2. BaseInv /\ SessionInv /\ TeamInv /\ TakesInv => BoardInv
    BY BoardInvHolds
  <1>3. BaseInv /\ BaseInv' /\ SeatInv /\ TeamInv /\ ActiveInv /\ [Next]_vars => ActiveInv'
    BY ActiveStep
  <1>4. BaseInv /\ SessionInv /\ TeamInv /\ TakesInv /\ [Next]_vars => TakesInv'
    BY TakesStep
  <1>5. BaseInv /\ SessionInv /\ ActiveInv /\ TakesInv /\ BoardInv /\ BoardInv' /\ [Next]_vars
        => [Board!Next]_<<{s \in TeamSlots : team[s].id # 0}, Seat>>
    BY BoardSteps
  <1> QED BY <1>1, <1>2, <1>3, <1>4, <1>5, BaseAlways, BoardInit, SeatStep, SessionStep, TeamStep,
             PTL DEF Spec, SeatsSpec, Board!Spec
=============================================================================
