------------------------ MODULE TeamProfiles_proofs ------------------------
(***************************************************************************)
(* Proofs about TeamProfiles for any number of teams, phones, calls, names *)
(* and files: types and unique keys, one poll per phone, and the selfie    *)
(* that exists, the names, and the last accepted request.                  *)
(***************************************************************************)
EXTENDS TeamProfiles, FiniteSetTheorems, WellFoundedInduction, TLAPS

Puts == (Names \cup {Keep, None}) \X (Palette \cup {None}) \X (Badges \cup {NoBadge})
Call == [kind : Kinds \cup {"none"}, at : Stages \cup {"idle"}, team : Teams \cup {None},
         phone : Phones \cup {None}, ask : Request \cup {NoRequest}, id : Nat,
         back : Palette \cup {None}, put : Puts, file : Nat,
         ok : BOOLEAN, own : Palette \cup {None}, taken : SUBSET Palette]

\* Which calls are for a team, which a phone waits for, and what its screen needs.
Sound(r) ==
  /\ (r.at = "idle") = (r = NoCall)
  /\ r.at # "idle" => r.team \in Teams
  /\ r.at = "answered" => r.phone \in Phones
  /\ r.phone # None => r.kind # "selfie" /\ (r.kind = "customize" => r.back \in Palette)
  /\ r.at \in {"stored", "commit", "discard"} => r.kind = "selfie"
CallsSound == call \in [Calls -> Call] /\ \A c \in Calls : Sound(call[c])

Columns ==
  /\ name \in [Teams -> Names \cup {None}] /\ color \in [Teams -> Palette \cup {None}]
  /\ badge \in [Teams -> Badges \cup {NoBadge}]
  /\ selfie \in [Teams -> Nat] /\ photo \in [Teams -> Nat] /\ objects \subseteq Nat /\ files \in Nat
Keys ==
  /\ \A t, u \in Teams : t # u => \/ color[t] = None \/ color[t] # color[u]
  /\ \A t, u \in Teams : t # u => \/ badge[t] = NoBadge \/ badge[t] # badge[u]
Screens ==
  /\ shown \in [Phones -> Palette] /\ seen \in [Phones -> SUBSET Palette]
  /\ newest \in [Phones -> Nat] /\ requests \in Nat /\ requests <= MaxRequests
  /\ \A p \in Phones : newest[p] <= requests
  /\ polling \in [Phones -> {"due", "out", "off"}] /\ screen \in [Phones -> {"editing", "saving", "done"}]

\* A phone whose poll is out has exactly one, another phone none.
Polls(p) == {c \in Calls : call[c].kind = "poll" /\ call[c].phone = p}
OnePoll == \A p \in Phones : IF polling[p] = "out" THEN \E c \in Calls : Polls(p) = {c} ELSE Polls(p) = {}

TypeInv == CallsSound /\ Columns /\ Keys /\ Screens /\ OnePoll

-----------------------------------------------------------------------------
LEMMA TypeInvImplies == TypeInv => TypeOK
<1> SUFFICES ASSUME TypeInv PROVE TypeOK
  OBVIOUS
<1>1. \A c \in Calls : (call[c].at = "idle") = (call[c] = NoCall)
  BY DEF TypeInv, CallsSound, Sound
<1>2. \A c \in Calls : call[c].kind \in Kinds \cup {"none"} /\ call[c].at \in Stages \cup {"idle"}
  BY DEF TypeInv, CallsSound, Call
<1>3. ASSUME NEW p \in Phones, polling[p] = "out"
      PROVE Cardinality({c \in Calls : call[c].kind = "poll" /\ call[c].phone = p}) = 1
  <2>1. PICK c \in Calls : Polls(p) = {c}
    BY <1>3 DEF TypeInv, OnePoll
  <2> QED BY <2>1, FS_Singleton DEF Polls
<1>4. newest \in [Phones -> 0..MaxRequests]
  BY ProfilesAssumption DEF TypeInv, Screens
<1>5. Columns /\ Keys /\ Screens
  BY DEF TypeInv
<1> QED BY <1>1, <1>2, <1>3, <1>4, <1>5 DEF TypeOK, Columns, Keys, Screens

LEMMA TypeInit == Init => TypeInv
<1> SUFFICES ASSUME Init PROVE TypeInv
  OBVIOUS
<1>1. NoCall \in Call /\ Sound(NoCall)
  BY DEF NoCall, Call, Sound, Stages, Puts, Kinds
<1>2. CallsSound
  BY <1>1 DEF Init, CallsSound
<1>3. 1 \in DOMAIN Colors /\ Colors[1] \in Palette
  BY ProfilesAssumption DEF Palette, ToSet
<1>4. Columns /\ Keys
  BY DEF Init, Columns, Keys
<1>5. Screens
  BY <1>3, ProfilesAssumption DEF Init, Screens
<1>6. OnePoll
  BY DEF Init, OnePoll, Polls, NoCall
<1> QED BY <1>2, <1>4, <1>5, <1>6 DEF TypeInv

\* Only one call is rewritten.
LEMMA PutMoves ==
  ASSUME CallsSound, NEW c \in Calls, NEW r, Put(c, r), r \in Call, Sound(r)
  PROVE  /\ CallsSound' /\ call'[c] = r
         /\ \A d \in Calls \ {c} : call'[d] = call[d]
BY DEF CallsSound, Put

\* Two calls that are both a poll of one phone, or both none.
SamePoll(r, q) == \A p \in Phones : (r.kind = "poll" /\ r.phone = p) = (q.kind = "poll" /\ q.phone = p)

LEMMA PollsStay ==
  ASSUME CallsSound, OnePoll, NEW c \in Calls, NEW r, Put(c, r), r \in Call, Sound(r),
         UNCHANGED polling, SamePoll(r, call[c])
  PROVE  OnePoll'
<1>1. call'[c] = r /\ \A d \in Calls \ {c} : call'[d] = call[d]
  BY PutMoves
<1>2. \A p \in Phones : Polls(p)' = Polls(p)
  BY <1>1 DEF Polls, SamePoll
<1> QED BY <1>2 DEF OnePoll

LEMMA NoCallSound == NoCall \in Call /\ Sound(NoCall)
  BY DEF NoCall, Call, Sound, Stages, Puts, Kinds

\* A handler rewrites how far its call got, and what it will write or answer.
LEMMA SoundFrom ==
  ASSUME NEW r \in Call, Sound(r), r.at # "idle", NEW q \in Call, q.at \in Stages,
         q.kind = r.kind, q.phone = r.phone, q.team = r.team, q.back = r.back,
         q.at = "answered" => r.phone # None,
         q.at \in {"stored", "commit", "discard"} => r.kind = "selfie"
  PROVE  Sound(q) /\ SamePoll(q, r)
<1>1. q.at # "idle" /\ q # NoCall
  BY DEF Stages, NoCall
<1>2. r.phone \in Phones \cup {None}
  BY DEF Call
<1> QED BY <1>1, <1>2 DEF Sound, SamePoll

LEMMA AnsweredSound ==
  ASSUME NEW r \in Call, Sound(r), r.at # "idle", NEW ok \in BOOLEAN,
         NEW own \in Palette \cup {None}, NEW taken \in SUBSET Palette
  PROVE  LET q == Answered(r, ok, own, taken)
         IN q \in Call /\ Sound(q) /\ SamePoll(q, r) /\ q.at \in {"idle", "answered"}
<1> DEFINE q == [r EXCEPT !.at = "answered", !.ok = ok, !.own = own, !.taken = taken]
<1>1. CASE r.phone = None
  <2>1. Answered(r, ok, own, taken) = NoCall
    BY <1>1 DEF Answered
  <2> QED BY <1>1, <2>1, NoCallSound, InputsAssumption DEF SamePoll, NoCall
<1>2. CASE r.phone # None
  <2>1. q \in Call
    BY DEF Call, Stages
  <2>2. q.kind = r.kind /\ q.phone = r.phone /\ q.team = r.team /\ q.back = r.back /\ q.at = "answered"
    BY DEF Call
  <2>3. Answered(r, ok, own, taken) = q
    BY <1>2 DEF Answered
  <2> HIDE DEF q
  <2>4. Sound(q) /\ SamePoll(q, r)
    BY <1>2, <2>1, <2>2, SoundFrom DEF Stages
  <2> QED BY <2>1, <2>2, <2>3, <2>4
<1> QED BY <1>1, <1>2

LEMMA RefusedSound ==
  ASSUME NEW r \in Call, Sound(r), r.at # "idle"
  PROVE  Refused(r) \in Call /\ Sound(Refused(r)) /\ SamePoll(Refused(r), r) /\ Refused(r).at \in {"idle", "answered"}
<1>1. Refused(r) = Answered(r, FALSE, None, {})
  BY DEF Refused
<1> QED BY <1>1, AnsweredSound

\* Call c is rewritten by its handler, and nothing else that has a type changes.
LEMMA TypePut ==
  ASSUME TypeInv, NEW c \in Calls, NEW r \in Call, Put(c, r), Sound(r), SamePoll(r, call[c]),
         Columns', Keys', UNCHANGED <<display, requests>>
  PROVE  TypeInv'
<1>1. CallsSound'
  BY PutMoves DEF TypeInv
<1>2. OnePoll'
  BY PollsStay DEF TypeInv, display
<1>3. Screens'
  BY DEF TypeInv, Screens, display
<1> QED BY <1>1, <1>2, <1>3 DEF TypeInv

LEMMA FreeIsIdle ==
  ASSUME NEW c \in Calls, Free(c)
  PROVE  Idle(c)
<1>1. {d \in Calls : Idle(d)} # {} /\ c = CHOOSE d \in {d \in Calls : Idle(d)} : TRUE
  BY DEF Free
<1>2. c \in {d \in Calls : Idle(d)}
  BY <1>1
<1> QED BY <1>2

\* The palette has a first colour that no other team has, or a first colour.
LEMMA Least ==
  ASSUME NEW S, S \subseteq Nat, S # {}
  PROVE  \E n \in S : \A m \in S : n <= m
<1> DEFINE R == OpToRel(<, Nat)
<1>1. PICK n \in S : \A m \in S : ~(<<m, n>> \in R)
  BY WFMin, NatLessThanWellFounded
<1>2. \A m \in S : ~(m < n)
  BY <1>1 DEF OpToRel
<1> QED BY <1>2

LEMMA FirstFreeInPalette == \A t \in Teams : Colors[FirstFree(t)] \in Palette
<1> SUFFICES ASSUME NEW t \in Teams PROVE Colors[FirstFree(t)] \in Palette
  OBVIOUS
<1> DEFINE free == {i \in DOMAIN Colors : Colors[i] \notin TakenBy(t)}
<1>1. 1 \in DOMAIN Colors /\ DOMAIN Colors \subseteq Nat
  BY ProfilesAssumption
<1>2. CASE free = {}
  BY <1>1, <1>2 DEF FirstFree, Palette, ToSet
<1>3. CASE free # {}
  <2>1. \E i \in free : \A j \in free : i <= j
    BY <1>1, <1>3, Least
  <2>2. FirstFree(t) = CHOOSE i \in free : \A j \in free : i <= j
    BY <1>3 DEF FirstFree
  <2>3. FirstFree(t) \in free
    BY <2>1, <2>2
  <2> QED BY <2>3 DEF Palette, ToSet
<1> QED BY <1>2, <1>3

-----------------------------------------------------------------------------
(* What the handlers and the screens do to the types.                      *)

LEMMA TypeFail ==
  ASSUME TypeInv, NEW c \in Calls, Fail(c)
  PROVE  TypeInv'
<1>1. call[c] \in Call /\ Sound(call[c]) /\ call[c].at # "idle"
  BY DEF TypeInv, CallsSound, Fail, Idle
<1>2. Columns' /\ Keys'
  BY DEF Fail, TypeInv, Columns, Keys, profile, storage
<1> QED BY <1>1, <1>2, RefusedSound, TypePut DEF Fail

LEMMA TypeRead ==
  ASSUME TypeInv, NEW c \in Calls, ReadState(c) \/ ReadClaim(c) \/ ReadCustomize(c) \/ ReadRandomize(c)
  PROVE  TypeInv'
<1> DEFINE r == call[c]
<1>1. r \in Call /\ Sound(r) /\ r.at = "sent" /\ r.team \in Teams
  BY DEF TypeInv, CallsSound, ReadState, ReadClaim, ReadCustomize, ReadRandomize, Sound
<1>2. Columns' /\ Keys' /\ UNCHANGED <<display, requests>>
  <2>1. UNCHANGED <<profile, storage, display, counts>>
    BY DEF ReadState, ReadClaim, ReadCustomize, ReadRandomize
  <2> QED BY <2>1 DEF TypeInv, Columns, Keys, profile, storage, counts
<1>3. CASE Put(c, Refused(r))
  BY <1>1, <1>2, <1>3, RefusedSound, TypePut
<1>4. color[r.team] \in Palette \cup {None} /\ badge[r.team] \in Badges \cup {NoBadge}
  BY <1>1 DEF TypeInv, Columns
<1>5. TakenBy(r.team) \in SUBSET Palette
  BY DEF TypeInv, Columns, TakenBy, ColorsOf, Peers
<1>6. CASE Put(c, Answered(r, TRUE, color[r.team], TakenBy(r.team)))
  BY <1>1, <1>2, <1>4, <1>5, <1>6, AnsweredSound, TypePut
<1>7. ASSUME NEW n \in Names \cup {Keep}, NEW k \in Palette \cup {None}, NEW b \in Badges \cup {NoBadge},
             Put(c, [r EXCEPT !.at = "write", !.put = <<n, k, b>>])
      PROVE  TypeInv'
  <2> DEFINE q == [r EXCEPT !.at = "write", !.put = <<n, k, b>>]
  <2>1. q \in Call
    BY <1>1 DEF Call, Stages, Puts
  <2>2. q.kind = r.kind /\ q.phone = r.phone /\ q.team = r.team /\ q.back = r.back /\ q.at = "write"
    BY <1>1 DEF Call
  <2> HIDE DEF q
  <2>3. Sound(q) /\ SamePoll(q, r)
    BY <1>1, <2>1, <2>2, SoundFrom DEF Stages
  <2> QED BY <1>2, <1>7, <2>1, <2>3, TypePut DEF q
<1>8. CASE ReadState(c)
  BY <1>3, <1>6, <1>8 DEF ReadState
<1>9. \A b \in Badges \cup {NoBadge} : Normal(b) \in Badges \cup {NoBadge}
  <2>1. \A b \in Badges : Normal(b) \in Badges
    BY Zenon DEF Normal, Badges
  <2>2. Normal(NoBadge) = NoBadge
    <3>1. NoBadge \in [icon : {None}, key : {FALSE}]
      BY DEF NoBadge
    <3> QED BY Zenon, <3>1 DEF Normal
  <2> QED BY <2>1, <2>2
<1>10. r.ask \in Request \cup {NoRequest}
  BY <1>1 DEF Call
<1>11. /\ r.ask.name \in Names \cup {Keep} /\ r.ask.color \in Palette \cup {Keep}
       /\ r.ask.badge \in Badges \cup {[icon |-> Keep, key |-> FALSE]}
  BY <1>10 DEF Request, NoRequest
<1>12. r.ask.badge.icon # Keep => r.ask.badge \in Badges
  BY <1>11
<1>13. CASE ReadClaim(c)
  <2> DEFINE k == IF r.ask.color = Keep THEN color[r.team] ELSE r.ask.color
             b == IF r.ask.badge.icon = Keep THEN NoBadge ELSE Normal(r.ask.badge)
  <2>1. k \in Palette \cup {None}
    BY <1>4, <1>11
  <2>2. b \in Badges \cup {NoBadge}
    BY <1>9, <1>12
  <2>3. Put(c, [r EXCEPT !.at = "write", !.put = <<r.ask.name, k, b>>]) \/ Put(c, Refused(r))
    BY <1>13 DEF ReadClaim
  <2> HIDE DEF k, b
  <2> QED BY <1>3, <1>7, <1>11, <2>1, <2>2, <2>3
<1>14. CASE ReadCustomize(c)
  <2> DEFINE k == IF r.ask.color = Keep THEN color[r.team] ELSE r.ask.color
             b == IF r.ask.badge.icon = Keep THEN Normal(badge[r.team]) ELSE Normal(r.ask.badge)
  <2>1. k \in Palette \cup {None}
    BY <1>4, <1>11
  <2>2. b \in Badges \cup {NoBadge}
    BY <1>4, <1>9, <1>12
  <2>3. Put(c, [r EXCEPT !.at = "write", !.put = <<Keep, k, b>>]) \/ Put(c, Refused(r))
    BY <1>14 DEF ReadCustomize
  <2> HIDE DEF k, b
  <2> QED BY <1>3, <1>7, <2>1, <2>2, <2>3
<1>15. CASE ReadRandomize(c)
  <2> DEFINE k == IF color[r.team] # None THEN color[r.team] ELSE Colors[FirstFree(r.team)]
  <2>1. k \in Palette \cup {None}
    BY <1>1, <1>4, FirstFreeInPalette
  <2>2. \/ \E n \in Names, b \in Badges : Put(c, [r EXCEPT !.at = "write", !.put = <<n, k, b>>])
        \/ Put(c, Refused(r))
    BY <1>15 DEF ReadRandomize
  <2> HIDE DEF k
  <2> QED BY <1>3, <1>7, <2>1, <2>2
<1> QED BY <1>8, <1>13, <1>14, <1>15

LEMMA TypeWrite ==
  ASSUME TypeInv, NEW c \in Calls, WriteProfile(c)
  PROVE  TypeInv'
<1> DEFINE r == call[c]
           t == r.team
           k == r.put[2]
           b == r.put[3]
           n == IF r.put[1] = Keep THEN name[t] ELSE r.put[1]
           taken == \E u \in Peers(t) : (k # None /\ color[u] = k) \/ (b # NoBadge /\ badge[u] = b)
<1>1. r \in Call /\ Sound(r) /\ r.at = "write" /\ t \in Teams
  BY DEF TypeInv, CallsSound, WriteProfile, Sound
<1>2. UNCHANGED <<display, requests>> /\ UNCHANGED storage
  BY DEF WriteProfile, counts
<1>3. CASE taken
  <2>1. Put(c, Refused(r)) /\ UNCHANGED profile
    BY <1>3 DEF WriteProfile
  <2>2. Columns' /\ Keys'
    BY <1>2, <2>1 DEF TypeInv, Columns, Keys, profile, storage
  <2> QED BY <1>1, <1>2, <2>1, <2>2, RefusedSound, TypePut
<1>4. CASE ~taken
  <2>1. /\ name' = [name EXCEPT ![t] = n] /\ color' = [color EXCEPT ![t] = k]
        /\ badge' = [badge EXCEPT ![t] = b] /\ Put(c, Answered(r, TRUE, k, TakenBy(t)))
    BY <1>4 DEF WriteProfile
  <2>2. r.put \in Puts
    BY <1>1 DEF Call
  <2>3. k \in Palette \cup {None} /\ b \in Badges \cup {NoBadge} /\ r.put[1] \in Names \cup {Keep, None}
    BY <2>2 DEF Puts
  <2>4. n \in Names \cup {None}
    BY <1>1, <2>3 DEF TypeInv, Columns
  <2>5. \A u \in Peers(t) : (k = None \/ color[u] # k) /\ (b = NoBadge \/ badge[u] # b)
    BY <1>4
  <2> HIDE DEF k, b, n
  <2>6. Columns'
    BY <1>1, <1>2, <2>1, <2>3, <2>4 DEF TypeInv, Columns, storage
  <2>7. Keys'
    BY <1>1, <2>1, <2>5 DEF TypeInv, Columns, Keys, Peers
  <2>8. TakenBy(t) \in SUBSET Palette
    BY DEF TypeInv, Columns, TakenBy, ColorsOf, Peers
  <2> QED BY <1>1, <1>2, <2>1, <2>3, <2>6, <2>7, <2>8, AnsweredSound, TypePut
<1> QED BY <1>3, <1>4

LEMMA TypeSelfie ==
  ASSUME TypeInv, NEW c \in Calls, StoreSelfie(c) \/ FindPrevious(c) \/ CommitSelfie(c) \/ Discard(c)
  PROVE  TypeInv'
<1> DEFINE r == call[c]
<1>1. /\ r \in Call /\ Sound(r) /\ r.at \in {"sent", "stored", "commit", "discard"} /\ r.team \in Teams
      /\ r.kind = "selfie" /\ r.phone = None
  BY DEF TypeInv, CallsSound, StoreSelfie, FindPrevious, CommitSelfie, Discard, Sound
<1>2. UNCHANGED <<display, requests>> /\ Keys'
  BY DEF TypeInv, Keys, StoreSelfie, FindPrevious, CommitSelfie, Discard, profile, counts
<1>3. r.file \in Nat /\ r.id \in Nat
  BY <1>1 DEF Call
<1>4. Columns'
  <2>1. CASE StoreSelfie(c)
    BY <2>1 DEF StoreSelfie, TypeInv, Columns, profile
  <2>2. CASE FindPrevious(c)
    BY <2>2 DEF FindPrevious, TypeInv, Columns, profile, storage
  <2>3. CASE CommitSelfie(c)
    BY <1>1, <1>3, <2>3 DEF CommitSelfie, TypeInv, Columns, profile
  <2>4. CASE Discard(c)
    BY <2>4 DEF Discard, TypeInv, Columns, profile
  <2> QED BY <2>1, <2>2, <2>3, <2>4
<1>5. CASE Put(c, NoCall)
  <2>1. SamePoll(NoCall, r)
    BY <1>1 DEF SamePoll, NoCall
  <2> QED BY <1>2, <1>4, <1>5, <2>1, NoCallSound, TypePut
<1>6. ASSUME NEW q \in Call, Put(c, q), q.kind = "selfie", q.phone = None, q.team = r.team,
             q.at \in Stages \ {"answered"}
      PROVE  TypeInv'
  <2>1. Sound(q) /\ SamePoll(q, r)
    BY <1>1, <1>6 DEF Sound, SamePoll, Stages, NoCall
  <2> QED BY <1>2, <1>4, <1>6, <2>1, TypePut
<1>7. CASE StoreSelfie(c)
  <2> DEFINE q == [r EXCEPT !.at = "stored", !.file = files + 1]
  <2>1. q \in Call /\ q.kind = r.kind /\ q.phone = r.phone /\ q.team = r.team /\ q.at = "stored"
    <3>1. files + 1 \in Nat
      BY DEF TypeInv, Columns
    <3> QED BY <1>1, <3>1 DEF Call, Stages
  <2>2. Put(c, q) \/ Put(c, NoCall)
    BY <1>7 DEF StoreSelfie
  <2> HIDE DEF q
  <2> QED BY <1>1, <1>5, <1>6, <2>1, <2>2 DEF Stages
<1>8. CASE FindPrevious(c)
  <2> DEFINE q == [r EXCEPT !.at = "commit", !.id = photo[r.team]]
  <2>1. q \in Call /\ q.kind = r.kind /\ q.phone = r.phone /\ q.team = r.team /\ q.at = "commit"
    BY <1>1 DEF Call, Stages, TypeInv, Columns
  <2>2. Put(c, q)
    BY <1>8 DEF FindPrevious
  <2> HIDE DEF q
  <2> QED BY <1>1, <1>6, <2>1, <2>2 DEF Stages
<1>9. CASE CommitSelfie(c)
  <2> DEFINE q == [r EXCEPT !.at = "discard"]
  <2>1. q \in Call /\ q.kind = r.kind /\ q.phone = r.phone /\ q.team = r.team /\ q.at = "discard"
    BY <1>1 DEF Call, Stages
  <2>2. Put(c, q) \/ Put(c, NoCall)
    BY <1>9 DEF CommitSelfie
  <2> HIDE DEF q
  <2> QED BY <1>1, <1>5, <1>6, <2>1, <2>2 DEF Stages
<1> QED BY <1>1, <1>5, <1>7, <1>8, <1>9 DEF Discard

\* The answer of a call other than a poll, or a call of a free place: no phone's poll.
LEMMA TypeScreen ==
  ASSUME TypeInv, NEW c \in Calls, NEW r \in Call, Put(c, r), Sound(r),
         r.kind # "poll", call[c].kind # "poll", UNCHANGED <<profile, storage, polling>>,
         Screens'
  PROVE  TypeInv'
<1>1. CallsSound' /\ SamePoll(r, call[c])
  BY PutMoves DEF TypeInv, SamePoll
<1>2. OnePoll'
  BY <1>1, PollsStay DEF TypeInv
<1>3. Columns' /\ Keys'
  BY DEF TypeInv, Columns, Keys, profile, storage
<1> QED BY <1>1, <1>2, <1>3 DEF TypeInv

LEMMA SentSound ==
  ASSUME NEW p \in Phones, NEW kind \in {"claim", "poll", "refresh"}, NEW ask \in Request \cup {NoRequest}
  PROVE  /\ Send(0, p, kind, ask) \in Call /\ Sound(Send(0, p, kind, ask))
         /\ Send(0, p, kind, ask).kind = kind /\ Send(0, p, kind, ask).phone = p
<1> DEFINE q == Send(0, p, kind, ask)
<1>1. q = [NoCall EXCEPT !.kind = kind, !.at = "sent", !.team = TeamOf[p], !.phone = p, !.ask = ask]
  BY DEF Send
<1>2. TeamOf[p] \in Teams
  BY ProfilesAssumption
<1>3. q \in Call /\ q.kind = kind /\ q.phone = p /\ q.at = "sent" /\ q.team = TeamOf[p]
  BY <1>1, <1>2, NoCallSound, ZenonT(40) DEF Call, Stages, Kinds
<1> HIDE DEF q
<1>4. Sound(q)
  BY <1>2, <1>3 DEF Sound, NoCall
<1> QED BY <1>3, <1>4 DEF q

LEMMA TypePick ==
  ASSUME TypeInv, NEW p \in Phones, NEW c \in Calls, NEW k \in Palette, Pick(p, c, k)
  PROVE  TypeInv'
<1> DEFINE ask == [NoRequest EXCEPT !.kind = "customize", !.color = k]
           q == [Send(c, p, "customize", ask) EXCEPT !.id = newest[p] + 1, !.back = shown[p]]
<1>1. Idle(c) /\ call[c] = NoCall
  BY FreeIsIdle DEF Pick, Idle, TypeInv, CallsSound, Sound
<1>2. shown[p] \in Palette /\ newest[p] + 1 \in Nat
  BY DEF TypeInv, Screens
<1>3. ask \in Request
  BY DEF Request, NoRequest
<1>4. TeamOf[p] \in Teams
  BY ProfilesAssumption
<1>5. q = [NoCall EXCEPT !.kind = "customize", !.at = "sent", !.team = TeamOf[p], !.phone = p,
                         !.ask = ask, !.id = newest[p] + 1, !.back = shown[p]]
  BY DEF Send, NoCall
<1>6. Put(c, q)
  BY DEF Pick
<1> HIDE DEF ask
<1>7. q \in Call /\ q.kind = "customize" /\ q.phone = p /\ q.at = "sent" /\ q.team = TeamOf[p] /\ q.back = shown[p]
  BY <1>2, <1>3, <1>4, <1>5, NoCallSound, ZenonT(40) DEF Call, Stages, Kinds
<1> HIDE DEF q
<1>8. Sound(q)
  BY <1>2, <1>4, <1>7 DEF Sound, NoCall
<1>9. Screens'
  BY ProfilesAssumption DEF Pick, TypeInv, Screens
<1>10. UNCHANGED <<profile, storage, polling>> /\ call[c].kind # "poll"
  BY <1>1 DEF Pick, NoCall
<1> QED BY <1>6, <1>7, <1>8, <1>9, <1>10, TypeScreen

LEMMA TypeSave ==
  ASSUME TypeInv, NEW p \in Phones, NEW c \in Calls, NEW n \in Names, Save(p, c, n)
  PROVE  TypeInv'
<1> DEFINE ask == [NoRequest EXCEPT !.kind = "claim", !.name = n, !.color = shown[p]]
           q == Send(0, p, "claim", ask)
<1>1. Idle(c) /\ call[c] = NoCall
  BY FreeIsIdle DEF Save, Idle, TypeInv, CallsSound, Sound
<1>2. shown[p] \in Palette
  BY DEF TypeInv, Screens
<1>3. ask \in Request
  BY <1>2 DEF Request, NoRequest
<1>4. Put(c, q)
  BY DEF Save, Send
<1> HIDE DEF ask
<1>5. q \in Call /\ Sound(q) /\ q.kind = "claim"
  BY <1>3, SentSound
<1> HIDE DEF q
<1>6. Screens'
  BY ProfilesAssumption DEF Save, TypeInv, Screens
<1>7. UNCHANGED <<profile, storage, polling>> /\ call[c].kind # "poll"
  BY <1>1 DEF Save, NoCall
<1> QED BY <1>4, <1>5, <1>6, <1>7, TypeScreen

LEMMA TypePoll ==
  ASSUME TypeInv, NEW p \in Phones, NEW c \in Calls, Poll(p, c)
  PROVE  TypeInv'
<1> DEFINE q == Send(0, p, "poll", NoRequest)
<1>1. Idle(c) /\ call[c] = NoCall
  BY FreeIsIdle DEF Poll, Idle, TypeInv, CallsSound, Sound
<1>2. Put(c, q) /\ q \in Call /\ Sound(q) /\ q.kind = "poll" /\ q.phone = p
  BY SentSound DEF Poll, Send
<1> HIDE DEF q
<1>3. CallsSound' /\ call'[c] = q /\ \A d \in Calls \ {c} : call'[d] = call[d]
  BY <1>2, PutMoves DEF TypeInv
<1>4. polling[p] = "due" /\ polling' = [polling EXCEPT ![p] = "out"]
  BY DEF Poll
<1>5. OnePoll'
  <2>1. Polls(p) = {}
    BY <1>4 DEF TypeInv, OnePoll
  <2>2. Polls(p)' = {c}
    BY <1>2, <1>3, <2>1 DEF Polls
  <2>3. \A x \in Phones \ {p} : Polls(x)' = Polls(x)
    BY <1>1, <1>2, <1>3 DEF Polls, NoCall
  <2>4. polling'[p] = "out" /\ \A x \in Phones \ {p} : polling'[x] = polling[x]
    BY <1>4 DEF TypeInv, Screens
  <2> QED BY <2>2, <2>3, <2>4 DEF TypeInv, OnePoll
<1>6. Columns' /\ Keys'
  BY DEF Poll, TypeInv, Columns, Keys, profile, storage
<1>7. Screens'
  BY DEF Poll, TypeInv, Screens, counts
<1> QED BY <1>3, <1>5, <1>6, <1>7 DEF TypeInv

LEMMA TypeOther ==
  ASSUME TypeInv, NEW t \in Teams, NEW c \in Calls, NEW kind \in {"claim", "customize", "randomize", "selfie"},
         NEW ask \in Request \cup {NoRequest}, Other(t, c, kind, ask)
  PROVE  TypeInv'
<1> DEFINE q == [NoCall EXCEPT !.kind = kind, !.at = "sent", !.team = t, !.ask = ask]
<1>1. Idle(c) /\ call[c] = NoCall
  BY FreeIsIdle DEF Other, Idle, TypeInv, CallsSound, Sound
<1>2. q \in Call /\ q.kind = kind /\ q.at = "sent" /\ q.team = t /\ q.phone = None
  BY NoCallSound DEF Call, Stages, Kinds, NoCall
<1>3. Put(c, q)
  BY DEF Other
<1> HIDE DEF q
<1>4. Sound(q)
  BY <1>2 DEF Sound, NoCall
<1>5. Screens'
  BY ProfilesAssumption DEF Other, TypeInv, Screens, display
<1>6. UNCHANGED <<profile, storage, polling>> /\ call[c].kind # "poll"
  BY <1>1 DEF Other, display, NoCall
<1> QED BY <1>2, <1>3, <1>4, <1>5, <1>6, TypeScreen

LEMMA TypeHear ==
  ASSUME TypeInv, NEW c \in Calls, Hear(c)
  PROVE  TypeInv'
<1> DEFINE r == call[c]
           p == r.phone
<1>1. r \in Call /\ Sound(r) /\ r.at = "answered" /\ p \in Phones
  BY DEF TypeInv, CallsSound, Hear, HearPoll, HearLive, HearClaim, Sound
<1>2. r.own \in Palette \cup {None} /\ r.taken \in SUBSET Palette /\ (r.kind = "customize" => r.back \in Palette)
  BY <1>1, InputsAssumption DEF Call, Sound
<1>3. CASE HearPoll(c)
  <2>1. Put(c, NoCall) /\ UNCHANGED <<profile, storage, newest, screen, requests>>
    BY <1>3 DEF HearPoll, counts
  <2>2. CallsSound' /\ call'[c] = NoCall /\ \A d \in Calls \ {c} : call'[d] = call[d]
    BY <2>1, PutMoves, NoCallSound DEF TypeInv
  <2>3. /\ shown' \in [Phones -> Palette] /\ seen' \in [Phones -> SUBSET Palette]
    BY <1>1, <1>2, <1>3 DEF HearPoll, Shows, TypeInv, Screens
  <2>4. CASE r.kind = "poll"
    <3>1. polling' = [polling EXCEPT ![p] = "due"]
      BY <1>3, <2>4 DEF HearPoll
    <3>2. PICK x \in Phones : x = p
      BY <1>1
    <3>3. Polls(x) = {c} /\ call'[c].kind # "poll"
      BY <1>1, <2>2, <2>4, <3>2 DEF TypeInv, OnePoll, Polls, NoCall
    <3>4. Polls(x)' = {}
      BY <2>2, <3>3 DEF Polls
    <3>5. ASSUME NEW y \in Phones, y # x PROVE Polls(y)' = Polls(y)
      <4>1. c \notin Polls(y) /\ c \notin Polls(y)'
        BY <3>2, <3>3, <3>5 DEF Polls
      <4>2. \A d \in Calls \ {c} : (d \in Polls(y)') = (d \in Polls(y))
        BY <2>2 DEF Polls
      <4> QED BY <4>1, <4>2 DEF Polls
    <3>6. OnePoll'
      <4>1. polling'[x] = "due" /\ \A y \in Phones \ {x} : polling'[y] = polling[y]
        BY <3>1, <3>2 DEF TypeInv, Screens
      <4> QED BY <3>4, <3>5, <4>1 DEF TypeInv, OnePoll
    <3>7. Screens'
      BY <1>1, <2>1, <2>3, <3>1 DEF TypeInv, Screens
    <3> QED BY <2>1, <2>2, <3>6, <3>7 DEF TypeInv, Columns, Keys, profile, storage
  <2>5. CASE r.kind # "poll"
    <3>1. UNCHANGED polling /\ NoCall.kind # "poll"
      BY <1>3, <2>5 DEF HearPoll, NoCall
    <3>2. Screens'
      BY <2>1, <2>3, <3>1 DEF TypeInv, Screens
    <3> QED BY <2>1, <2>5, <3>1, <3>2, NoCallSound, TypeScreen
  <2> QED BY <2>4, <2>5
<1>4. CASE HearLive(c)
  <2>1. r.kind = "customize" /\ UNCHANGED <<profile, storage, newest, polling, screen, requests>>
    BY <1>4 DEF HearLive, counts
  <2>2. Screens'
    BY <1>1, <1>2, <1>4, <2>1 DEF HearLive, TypeInv, Screens
  <2>3. Put(c, Send(0, p, "refresh", NoRequest)) \/ Put(c, NoCall)
    BY <1>4 DEF HearLive, Send
  <2>4. NoCall.kind # "poll"
    BY DEF NoCall
  <2>5. Send(0, p, "refresh", NoRequest) \in Call /\ Sound(Send(0, p, "refresh", NoRequest))
        /\ Send(0, p, "refresh", NoRequest).kind = "refresh"
    BY <1>1, SentSound
  <2>6. CASE Put(c, NoCall)
    BY <2>1, <2>2, <2>4, <2>6, NoCallSound, TypeScreen
  <2>7. CASE Put(c, Send(0, p, "refresh", NoRequest))
    BY <2>1, <2>2, <2>5, <2>7, TypeScreen
  <2> QED BY <2>3, <2>6, <2>7
<1>5. CASE HearClaim(c)
  <2>1. /\ r.kind = "claim" /\ UNCHANGED <<profile, storage, shown, newest, polling, requests>>
        /\ Put(c, NoCall) /\ NoCall.kind # "poll"
    BY <1>5 DEF HearClaim, counts, NoCall
  <2>2. Screens'
    BY <1>1, <1>2, <1>5, <2>1 DEF HearClaim, TypeInv, Screens
  <2> QED BY <2>1, <2>2, NoCallSound, TypeScreen
<1> QED BY <1>3, <1>4, <1>5 DEF Hear

LEMMA TypeReset ==
  ASSUME TypeInv, Reset
  PROVE  TypeInv'
<1>1. Columns' /\ Keys'
  BY DEF Reset, TypeInv, Columns, Keys
<1>2. Screens'
  BY ProfilesAssumption DEF Reset, TypeInv, Screens, display
<1>3. CallsSound' /\ OnePoll'
  BY DEF Reset, TypeInv, CallsSound, OnePoll, Polls, display
<1> QED BY <1>1, <1>2, <1>3 DEF TypeInv

LEMMA TypeStutter ==
  ASSUME TypeInv, UNCHANGED vars
  PROVE  TypeInv'
BY DEF TypeInv, CallsSound, Columns, Keys, Screens, OnePoll, Polls, vars, profile, storage, display, counts

LEMMA TypeStep == TypeInv /\ [Next]_vars => TypeInv'
<1> SUFFICES ASSUME TypeInv, [Next]_vars PROVE TypeInv'
  OBVIOUS
<1>1. ASSUME NEW c \in Calls, Handle(c) \/ Hear(c) \/ Fail(c) PROVE TypeInv'
  BY <1>1, TypeRead, TypeWrite, TypeSelfie, TypeHear, TypeFail DEF Handle
<1>2. ASSUME NEW c \in Calls, NEW p \in Phones,
             Poll(p, c) \/ (\E k \in Palette : Pick(p, c, k)) \/ (\E n \in Names : Save(p, c, n))
      PROVE  TypeInv'
  BY <1>2, TypePoll, TypePick, TypeSave
<1>3. ASSUME NEW c \in Calls, NEW t \in Teams,
             \/ \E i \in Inputs : Other(t, c, i.kind, i)
             \/ Other(t, c, "randomize", NoRequest)
             \/ Other(t, c, "selfie", NoRequest)
      PROVE  TypeInv'
  <2>1. \A i \in Inputs : i \in Request /\ i.kind \in {"claim", "customize"}
    BY InputsAssumption DEF Request
  <2> QED BY <1>3, <2>1, TypeOther
<1> QED BY <1>1, <1>2, <1>3, TypeReset, TypeStutter DEF Next

\* Every reachable state is well typed, the unique keys of Team are never violated,
\* and a phone has at most one poll out: the screen schedules the next one only when
\* it heard of the last.
THEOREM TypeCorrect == Spec => []TypeOK
<1> QED BY TypeInit, TypeStep, TypeInvImplies, PTL DEF Spec
-----------------------------------------------------------------------------
(* The selfie. A file is new when it is stored, becomes the photo of one   *)
(* team when its row is committed, and is deleted only by an upload that   *)
(* found it as the photo before and has committed another since.           *)

\* Uploads that have stored a file and not committed it; those that found a photo.
Pending(c) == call[c].at \in {"stored", "commit"}
Found(c) == call[c].at \in {"commit", "discard"}

Stored == \A t \in Teams : (photo[t] = 0 \/ photo[t] \in objects) /\ selfie[t] \in {0, photo[t]}
Numbered ==
  /\ \A n \in objects : n <= files
  /\ \A t \in Teams : photo[t] <= files
PhotosApart == \A t, u \in Teams : photo[t] = photo[u] /\ photo[t] # 0 => t = u
FilesFresh ==
  \A c \in Calls : Pending(c) =>
    /\ call[c].file \in objects /\ call[c].file # 0
    /\ \A t \in Teams : photo[t] # call[c].file
    /\ \A d \in Calls : Pending(d) /\ call[d].file = call[c].file => d = c
FoundOld ==
  \A c \in Calls : Found(c) /\ call[c].id # 0 =>
    /\ call[c].id <= files
    /\ \A d \in Calls : Pending(d) => call[d].file # call[c].id
    /\ \A t \in Teams : photo[t] = call[c].id => call[c].at = "commit" /\ t = call[c].team
DiscardsOne == \A c \in Calls : call[c].at = "discard" => call[c].id # 0

SelfieInv == TypeInv /\ Stored /\ Numbered /\ PhotosApart /\ FilesFresh /\ FoundOld /\ DiscardsOne

\* Calls that are not uploads come and go, uploads may break off.
LEMMA SelfieFrame ==
  ASSUME SelfieInv, TypeInv', UNCHANGED <<photo, objects, files>>,
         \A t \in Teams : selfie'[t] \in {0, selfie[t]},
         \A c \in Calls : call'[c] = call[c] \/ call'[c].at \notin {"stored", "commit", "discard"}
  PROVE  SelfieInv'
<1>1. \A c \in Calls : Pending(c)' => Pending(c) /\ call'[c] = call[c]
  BY DEF Pending
<1>2. \A c \in Calls : Found(c)' => Found(c) /\ call'[c] = call[c]
  BY DEF Found
<1>3. Stored' /\ Numbered' /\ PhotosApart'
  BY DEF SelfieInv, Stored, Numbered, PhotosApart
<1>4. FilesFresh'
  BY <1>1 DEF SelfieInv, FilesFresh
<1>5. FoundOld'
  BY <1>1, <1>2 DEF SelfieInv, FoundOld
<1>6. DiscardsOne'
  BY DEF SelfieInv, DiscardsOne
<1> QED BY <1>3, <1>4, <1>5, <1>6 DEF SelfieInv

\* One call is rewritten, to a call that is no upload under way.
LEMMA SelfiePut ==
  ASSUME SelfieInv, TypeInv', NEW c \in Calls, NEW r, Put(c, r), UNCHANGED storage,
         r.at \notin {"stored", "commit", "discard"}
  PROVE  SelfieInv'
<1>1. \A d \in Calls : call'[d] = IF d = c THEN r ELSE call[d]
  BY DEF Put, SelfieInv, TypeInv, CallsSound
<1> QED BY <1>1, SelfieFrame DEF storage

LEMMA SelfieStore ==
  ASSUME SelfieInv, TypeInv', NEW c \in Calls, StoreSelfie(c)
  PROVE  SelfieInv'
<1> DEFINE q == [call[c] EXCEPT !.at = "stored", !.file = files + 1]
<1>1. CASE ~session
  <2>1. NoCall.at \notin {"stored", "commit", "discard"}
    BY DEF NoCall
  <2> QED BY <1>1, <2>1, SelfiePut DEF StoreSelfie, storage
<1>2. CASE session
  <2>1. /\ files' = files + 1 /\ objects' = objects \cup {files + 1} /\ UNCHANGED <<selfie, photo>>
        /\ Put(c, q) /\ call[c] \in Call /\ files \in Nat /\ call[c].at = "sent"
    BY <1>2 DEF StoreSelfie, SelfieInv, TypeInv, CallsSound, Columns
  <2>2. q.at = "stored" /\ q.file = files + 1 /\ q.id = call[c].id
    BY <2>1 DEF Call
  <2> HIDE DEF q
  <2>3. call'[c] = q /\ \A d \in Calls \ {c} : call'[d] = call[d]
    BY <2>1 DEF Put, SelfieInv, TypeInv, CallsSound
  <2>4. /\ Pending(c)' /\ ~Found(c)' /\ ~Pending(c) /\ ~Found(c)
        /\ \A d \in Calls \ {c} : Pending(d)' = Pending(d) /\ Found(d)' = Found(d)
    BY <2>1, <2>2, <2>3 DEF Pending, Found
  <2>5. /\ objects \subseteq Nat /\ photo \in [Teams -> Nat]
        /\ \A n \in objects : n <= files
        /\ \A t \in Teams : photo[t] <= files
    BY DEF SelfieInv, TypeInv, Columns, Numbered
  <2>6. Stored' /\ PhotosApart'
    BY <2>1 DEF SelfieInv, Stored, PhotosApart
  <2>7. Numbered'
    BY <2>1, <2>5 DEF Numbered
  <2>8. FilesFresh'
    <3>1. \A d \in Calls : Pending(d) => call[d].file \in objects /\ call[d].file # files + 1
      BY <2>1, <2>5 DEF SelfieInv, FilesFresh
    <3>2. call'[c].file = files + 1 /\ files + 1 # 0 /\ \A t \in Teams : photo[t] # files + 1
      BY <2>1, <2>2, <2>3, <2>5
    <3>3. ASSUME NEW d \in Calls \ {c}, Pending(d)
          PROVE  /\ call'[d].file \in objects' /\ call'[d].file # 0
                 /\ \A t \in Teams : photo'[t] # call'[d].file
                 /\ \A e \in Calls : Pending(e)' /\ call'[e].file = call'[d].file => e = d
      BY <2>1, <2>3, <2>4, <3>1, <3>2, <3>3 DEF SelfieInv, FilesFresh
    <3>4. \A e \in Calls : Pending(e)' /\ call'[e].file = call'[c].file => e = c
      BY <2>3, <2>4, <3>1, <3>2
    <3> QED BY <2>1, <2>4, <3>2, <3>3, <3>4 DEF FilesFresh
  <2>9. FoundOld'
    <3>1. \A d \in Calls : call[d].id \in Nat
      BY DEF SelfieInv, TypeInv, CallsSound, Call
    <3>2. ASSUME NEW d \in Calls \ {c}, Found(d), call[d].id # 0
          PROVE  /\ call[d].id <= files + 1 /\ call[d].id # files + 1
                 /\ \A e \in Calls : Pending(e) => call[e].file # call[d].id
                 /\ \A t \in Teams : photo[t] = call[d].id => call[d].at = "commit" /\ t = call[d].team
      BY <2>1, <3>1, <3>2 DEF SelfieInv, FoundOld
    <3>3. \A e \in Calls : Pending(e)' => (call'[e].file = call[e].file /\ Pending(e)) \/ call'[e].file = files + 1
      BY <2>2, <2>3, <2>4
    <3> QED BY <2>1, <2>3, <2>4, <3>2, <3>3 DEF FoundOld
  <2>10. DiscardsOne'
    BY <2>2, <2>3 DEF SelfieInv, DiscardsOne
  <2> QED BY <2>6, <2>7, <2>8, <2>9, <2>10 DEF SelfieInv
<1> QED BY <1>1, <1>2

LEMMA SelfieFind ==
  ASSUME SelfieInv, TypeInv', NEW c \in Calls, FindPrevious(c)
  PROVE  SelfieInv'
<1> DEFINE q == [call[c] EXCEPT !.at = "commit", !.id = photo[call[c].team]]
<1>1. /\ UNCHANGED storage /\ Put(c, q) /\ call[c] \in Call /\ call[c].at = "stored" /\ call[c].team \in Teams
  BY DEF FindPrevious, SelfieInv, TypeInv, CallsSound, Sound
<1>2. UNCHANGED <<selfie, photo, objects, files>>
  BY <1>1 DEF storage
<1>3. q.at = "commit" /\ q.file = call[c].file /\ q.id = photo[call[c].team] /\ q.team = call[c].team
  BY <1>1 DEF Call
<1> HIDE DEF q
<1>4. call'[c] = q /\ \A d \in Calls \ {c} : call'[d] = call[d]
  BY <1>1 DEF Put, SelfieInv, TypeInv, CallsSound
<1>5. \A d \in Calls : Pending(d)' = Pending(d) /\ call'[d].file = call[d].file
  BY <1>1, <1>3, <1>4 DEF Pending
<1>6. Pending(c) /\ ~Found(c) /\ \A d \in Calls \ {c} : Found(d)' = Found(d)
  BY <1>1, <1>4 DEF Pending, Found
<1>7. Stored' /\ Numbered' /\ PhotosApart'
  BY <1>2 DEF SelfieInv, Stored, Numbered, PhotosApart
<1>8. FilesFresh'
  BY <1>2, <1>5 DEF SelfieInv, FilesFresh
<1>9. FoundOld'
  <2>1. \A d \in Calls : Pending(d) => call[d].file # photo[call[c].team]
    BY <1>1 DEF SelfieInv, FilesFresh
  <2>2. photo[call[c].team] <= files
    BY <1>1 DEF SelfieInv, Numbered
  <2>3. \A t \in Teams : photo[t] = photo[call[c].team] /\ photo[t] # 0 => t = call[c].team
    BY <1>1 DEF SelfieInv, PhotosApart
  <2>4. ASSUME NEW d \in Calls \ {c}, Found(d), call[d].id # 0
        PROVE  /\ call[d].id <= files
               /\ \A e \in Calls : Pending(e) => call[e].file # call[d].id
               /\ \A t \in Teams : photo[t] = call[d].id => call[d].at = "commit" /\ t = call[d].team
    BY <2>4 DEF SelfieInv, FoundOld
  <2> QED BY <1>2, <1>3, <1>4, <1>5, <1>6, <2>1, <2>2, <2>3, <2>4 DEF FoundOld
<1>10. DiscardsOne'
  BY <1>3, <1>4 DEF SelfieInv, DiscardsOne
<1> QED BY <1>7, <1>8, <1>9, <1>10 DEF SelfieInv

LEMMA SelfieCommit ==
  ASSUME SelfieInv, TypeInv', NEW c \in Calls, CommitSelfie(c)
  PROVE  SelfieInv'
<1> DEFINE q == IF call[c].id = 0 THEN NoCall ELSE [call[c] EXCEPT !.at = "discard"]
<1>1. /\ UNCHANGED <<objects, files>> /\ call[c] \in Call /\ call[c].at = "commit" /\ call[c].team \in Teams
      /\ photo \in [Teams -> Nat] /\ selfie \in [Teams -> Nat]
      /\ photo' = [photo EXCEPT ![call[c].team] = call[c].file]
      /\ selfie' = [selfie EXCEPT ![call[c].team] = call[c].file]
      /\ Put(c, q)
  BY DEF CommitSelfie, SelfieInv, TypeInv, CallsSound, Sound, Columns
<1>2. PICK t \in Teams, f \in Nat : t = call[c].team /\ f = call[c].file
  BY <1>1 DEF Call
<1>3. photo'[t] = f /\ selfie'[t] = f /\ \A u \in Teams \ {t} : photo'[u] = photo[u] /\ selfie'[u] = selfie[u]
  BY <1>1, <1>2
<1>4. q.at \in {"idle", "discard"} /\ (q.at = "discard" => q.id = call[c].id /\ call[c].id # 0)
  BY <1>1 DEF Call, NoCall
<1> HIDE DEF q
<1>5. call'[c] = q /\ \A d \in Calls \ {c} : call'[d] = call[d]
  BY <1>1 DEF Put, SelfieInv, TypeInv, CallsSound
<1>6. Pending(c) /\ Found(c) /\ ~Pending(c)' /\ \A d \in Calls \ {c} : Pending(d)' = Pending(d) /\ Found(d)' = Found(d)
  BY <1>1, <1>4, <1>5 DEF Pending, Found
<1>7. /\ f \in objects /\ f # 0 /\ \A u \in Teams : photo[u] # f
      /\ \A d \in Calls \ {c} : Pending(d) => call[d].file # f
  BY <1>2, <1>6 DEF SelfieInv, FilesFresh
<1>8. \A d \in Calls : Found(d) /\ call[d].id # 0 => call[d].id # f
  BY <1>2, <1>6 DEF SelfieInv, FoundOld
<1>9. Stored'
  BY <1>1, <1>3, <1>7 DEF SelfieInv, Stored
<1>10. Numbered'
  BY <1>1, <1>3, <1>7 DEF SelfieInv, Numbered
<1>11. PhotosApart'
  BY <1>3, <1>7 DEF SelfieInv, PhotosApart
<1>12. FilesFresh'
  <2>1. ASSUME NEW d \in Calls \ {c}, Pending(d)
        PROVE  /\ call[d].file \in objects /\ call[d].file # 0
               /\ \A u \in Teams : photo'[u] # call[d].file
               /\ \A e \in Calls : Pending(e) /\ call[e].file = call[d].file => e = d
    BY <1>3, <1>7, <2>1 DEF SelfieInv, FilesFresh
  <2> QED BY <1>1, <1>5, <1>6, <2>1 DEF FilesFresh
<1>13. FoundOld'
  <2>1. ASSUME NEW d \in Calls, Found(d), call[d].id # 0
        PROVE  /\ call[d].id <= files
               /\ \A e \in Calls : Pending(e) => call[e].file # call[d].id
               /\ \A u \in Teams : photo[u] = call[d].id => call[d].at = "commit" /\ u = call[d].team
               /\ \A u \in Teams : photo'[u] = call[d].id => u # t /\ photo[u] = call[d].id
    BY <1>3, <1>8, <2>1 DEF SelfieInv, FoundOld
  <2>2. ASSUME NEW d \in Calls \ {c}, Found(d)', call'[d].id # 0
        PROVE  /\ call'[d].id <= files
               /\ \A e \in Calls : Pending(e)' => call'[e].file # call'[d].id
               /\ \A u \in Teams : photo'[u] = call'[d].id => call'[d].at = "commit" /\ u = call'[d].team
    BY <1>5, <1>6, <2>1, <2>2
  <2>3. ASSUME Found(c)'
        PROVE  /\ call'[c].id <= files
               /\ \A e \in Calls : Pending(e)' => call'[e].file # call'[c].id
               /\ \A u \in Teams : photo'[u] # call'[c].id
    <3>1. call'[c].id = call[c].id /\ call[c].id # 0
      BY <1>4, <1>5, <2>3 DEF Found
    <3> QED BY <1>2, <1>5, <1>6, <2>1, <3>1
  <2> QED BY <1>1, <2>2, <2>3 DEF FoundOld
<1>14. DiscardsOne'
  BY <1>4, <1>5 DEF SelfieInv, DiscardsOne
<1> QED BY <1>9, <1>10, <1>11, <1>12, <1>13, <1>14 DEF SelfieInv

LEMMA SelfieDiscard ==
  ASSUME SelfieInv, TypeInv', NEW c \in Calls, Discard(c)
  PROVE  SelfieInv'
<1>1. /\ objects' = objects \ {call[c].id} /\ UNCHANGED <<selfie, photo, files>> /\ call[c].at = "discard"
      /\ Put(c, NoCall)
  BY DEF Discard
<1>2. call'[c] = NoCall /\ \A d \in Calls \ {c} : call'[d] = call[d]
  BY <1>1 DEF Put, SelfieInv, TypeInv, CallsSound
<1>3. Found(c) /\ call[c].id # 0
  BY <1>1 DEF Found, SelfieInv, DiscardsOne
<1>4. /\ \A t \in Teams : photo[t] # call[c].id
      /\ \A d \in Calls : Pending(d) => call[d].file # call[c].id
  BY <1>1, <1>3 DEF SelfieInv, FoundOld
<1>5. \A d \in Calls : (Pending(d)' => Pending(d) /\ call'[d] = call[d]) /\ (Found(d)' => Found(d) /\ call'[d] = call[d])
  BY <1>2 DEF Pending, Found, NoCall
<1>6. Stored' /\ Numbered' /\ PhotosApart'
  BY <1>1, <1>4 DEF SelfieInv, Stored, Numbered, PhotosApart
<1>7. FilesFresh'
  BY <1>1, <1>4, <1>5 DEF SelfieInv, FilesFresh
<1>8. FoundOld'
  BY <1>1, <1>5 DEF SelfieInv, FoundOld
<1>9. DiscardsOne'
  BY <1>2 DEF SelfieInv, DiscardsOne, NoCall
<1> QED BY <1>6, <1>7, <1>8, <1>9 DEF SelfieInv

LEMMA AnsweredAt ==
  ASSUME NEW r \in Call, NEW ok, NEW own, NEW taken
  PROVE  /\ Answered(r, ok, own, taken).at \in {"idle", "answered"}
         /\ Refused(r).at \in {"idle", "answered"}
<1>1. \A x, y, z : [r EXCEPT !.at = "answered", !.ok = x, !.own = y, !.taken = z].at = "answered"
  BY DEF Call
<1>2. NoCall.at = "idle"
  BY DEF NoCall
<1> QED BY <1>1, <1>2 DEF Answered, Refused

\* Polls and refreshes, lost calls, answers, and what screens and clients send.
Plain(c) ==
  \/ Fail(c) \/ Hear(c) \/ ReadState(c)
  \/ \E p \in Phones : Poll(p, c) \/ (\E k \in Palette : Pick(p, c, k)) \/ (\E n \in Names : Save(p, c, n))
  \/ \E kind, ask : \E t \in Teams : Other(t, c, kind, ask)

\* They write no team and no file, and send or end a call.
LEMMA PlainPut ==
  ASSUME TypeInv, NEW c \in Calls, Plain(c)
  PROVE  /\ UNCHANGED <<profile, storage, history>>
         /\ call'[c].at \in {"idle", "answered", "sent"}
         /\ \A d \in Calls \ {c} : call'[d] = call[d]
<1> DEFINE Goal == /\ UNCHANGED <<profile, storage, history>>
                   /\ call'[c].at \in {"idle", "answered", "sent"}
                   /\ \A d \in Calls \ {c} : call'[d] = call[d]
<1> SUFFICES Goal
  OBVIOUS
<1>1. call[c] \in Call /\ call \in [Calls -> Call]
  BY DEF TypeInv, CallsSound
<1>2. ASSUME UNCHANGED <<profile, storage, history>>, NEW r, Put(c, r), r.at \in {"idle", "answered", "sent"}
      PROVE  Goal
  BY <1>1, <1>2 DEF Put
<1> HIDE DEF Goal
<1>3. NoCall.at = "idle"
  BY DEF NoCall
<1>4. CASE Fail(c)
  <2>1. UNCHANGED <<profile, storage, history>> /\ Put(c, Refused(call[c]))
    BY <1>4 DEF Fail
  <2>2. Refused(call[c]).at \in {"idle", "answered", "sent"}
    BY <1>1, AnsweredAt
  <2> QED BY <1>2, <2>1, <2>2
<1>5. \A p, kind, ask : Send(c, p, kind, ask).at = "sent"
  BY DEF Send, NoCall
<1>6. CASE Hear(c)
  <2>1. UNCHANGED <<profile, storage, history>>
    BY <1>6 DEF Hear, HearPoll, HearLive, HearClaim
  <2>2. Put(c, NoCall) \/ Put(c, Send(c, call[c].phone, "refresh", NoRequest))
    BY <1>6 DEF Hear, HearPoll, HearLive, HearClaim
  <2>3. Send(c, call[c].phone, "refresh", NoRequest).at = "sent"
    BY <1>5
  <2>4. CASE Put(c, NoCall)
    BY <1>2, <1>3, <2>1, <2>4
  <2>5. CASE Put(c, Send(c, call[c].phone, "refresh", NoRequest))
    BY <1>2, <2>1, <2>3, <2>5
  <2> QED BY <2>2, <2>4, <2>5
<1>7. CASE ReadState(c)
  <2>1. UNCHANGED <<profile, storage, history>>
    BY <1>7 DEF ReadState
  <2>2. Put(c, Refused(call[c])) \/ Put(c, Answered(call[c], TRUE, color[call[c].team], TakenBy(call[c].team)))
    BY <1>7 DEF ReadState
  <2>3. CASE Put(c, Refused(call[c]))
    <3>1. Refused(call[c]).at \in {"idle", "answered", "sent"}
      BY <1>1, AnsweredAt
    <3> QED BY <1>2, <2>1, <2>3, <3>1
  <2>4. CASE Put(c, Answered(call[c], TRUE, color[call[c].team], TakenBy(call[c].team)))
    <3>1. Answered(call[c], TRUE, color[call[c].team], TakenBy(call[c].team)).at \in {"idle", "answered", "sent"}
      BY <1>1, AnsweredAt
    <3> QED BY <1>2, <2>1, <2>4, <3>1
  <2> QED BY <2>2, <2>3, <2>4
<1>8. ASSUME NEW p, NEW k, Pick(p, c, k) PROVE Goal
  <2> DEFINE q == [Send(c, p, "customize", [NoRequest EXCEPT !.kind = "customize", !.color = k])
                   EXCEPT !.id = newest[p] + 1, !.back = shown[p]]
  <2>1. q.at = "sent"
    BY DEF Send, NoCall
  <2>2. Put(c, q) /\ UNCHANGED <<profile, storage, history>>
    BY <1>8 DEF Pick
  <2> HIDE DEF q
  <2> QED BY <1>2, <2>1, <2>2
<1>9. ASSUME NEW p, NEW n, Poll(p, c) \/ Save(p, c, n) PROVE Goal
  <2>1. CASE Poll(p, c)
    <3>1. Put(c, Send(c, p, "poll", NoRequest)) /\ UNCHANGED <<profile, storage, history>>
      BY <2>1 DEF Poll
    <3>2. Send(c, p, "poll", NoRequest).at = "sent"
      BY <1>5
    <3> QED BY <1>2, <3>1, <3>2
  <2>2. CASE Save(p, c, n)
    <3> DEFINE ask == [NoRequest EXCEPT !.kind = "claim", !.name = n, !.color = shown[p]]
    <3>1. Put(c, Send(c, p, "claim", ask)) /\ UNCHANGED <<profile, storage, history>>
      BY <2>2 DEF Save
    <3> HIDE DEF ask
    <3>2. Send(c, p, "claim", ask).at = "sent"
      BY <1>5
    <3> QED BY <1>2, <3>1, <3>2
  <2> QED BY <1>9, <2>1, <2>2
<1>10. ASSUME NEW t, NEW kind, NEW ask, Other(t, c, kind, ask) PROVE Goal
  <2>1. [NoCall EXCEPT !.kind = kind, !.at = "sent", !.team = t, !.ask = ask].at = "sent"
    BY DEF NoCall
  <2> QED BY <1>2, <1>10, <2>1 DEF Other
<1>11. CASE Fail(c) \/ Hear(c) \/ ReadState(c)
  BY <1>4, <1>6, <1>7, <1>11
<1>12. CASE \E p \in Phones : Poll(p, c) \/ (\E k \in Palette : Pick(p, c, k)) \/ (\E n \in Names : Save(p, c, n))
  <2>1. PICK p \in Phones : Poll(p, c) \/ (\E k \in Palette : Pick(p, c, k)) \/ (\E n \in Names : Save(p, c, n))
    BY <1>12
  <2> QED BY <1>8, <1>9, <2>1
<1>13. CASE \E kind, ask : \E t \in Teams : Other(t, c, kind, ask)
  BY <1>10, <1>13
<1> QED BY <1>11, <1>12, <1>13 DEF Plain

LEMMA SelfiePlain ==
  ASSUME SelfieInv, TypeInv', NEW c \in Calls, Plain(c)
  PROVE  SelfieInv'
<1>1. UNCHANGED storage /\ \A d \in Calls : call'[d] = call[d] \/ call'[d].at \notin {"stored", "commit", "discard"}
  BY PlainPut DEF SelfieInv
<1> QED BY <1>1, SelfieFrame DEF storage

\* Requests for the name and look.
LEMMA SelfieProfile ==
  ASSUME SelfieInv, TypeInv', NEW c \in Calls,
         ReadClaim(c) \/ ReadCustomize(c) \/ ReadRandomize(c) \/ WriteProfile(c)
  PROVE  SelfieInv'
<1>1. call[c] \in Call
  BY DEF SelfieInv, TypeInv, CallsSound
<1>2. \A x : [call[c] EXCEPT !.at = "write", !.put = x].at = "write"
  BY <1>1 DEF Call
<1>3. UNCHANGED storage
  BY DEF ReadClaim, ReadCustomize, ReadRandomize, WriteProfile
<1>4. \/ Put(c, Refused(call[c]))
      \/ \E ok, own, taken : Put(c, Answered(call[c], ok, own, taken))
      \/ \E x : Put(c, [call[c] EXCEPT !.at = "write", !.put = x])
  BY DEF ReadClaim, ReadCustomize, ReadRandomize, WriteProfile
<1>5. CASE Put(c, Refused(call[c]))
  BY <1>1, <1>3, <1>5, AnsweredAt, SelfiePut
<1>6. ASSUME NEW ok, NEW own, NEW taken, Put(c, Answered(call[c], ok, own, taken)) PROVE SelfieInv'
  BY <1>1, <1>3, <1>6, AnsweredAt, SelfiePut
<1>7. ASSUME NEW x, Put(c, [call[c] EXCEPT !.at = "write", !.put = x]) PROVE SelfieInv'
  BY <1>2, <1>3, <1>7, SelfiePut
<1> QED BY <1>4, <1>5, <1>6, <1>7

LEMMA SelfieInit == Init => SelfieInv
<1> SUFFICES ASSUME Init PROVE SelfieInv
  OBVIOUS
<1>1. \A c \in Calls : call[c].at = "idle"
  BY DEF Init, NoCall
<1>2. Stored /\ Numbered /\ PhotosApart
  BY DEF Init, Stored, Numbered, PhotosApart
<1>3. FilesFresh /\ FoundOld /\ DiscardsOne
  BY <1>1 DEF FilesFresh, FoundOld, DiscardsOne, Pending, Found
<1> QED BY <1>2, <1>3, TypeInit DEF SelfieInv

LEMMA SelfieStep == SelfieInv /\ [Next]_vars => SelfieInv'
<1> SUFFICES ASSUME SelfieInv, [Next]_vars PROVE SelfieInv'
  OBVIOUS
<1>1. TypeInv'
  BY TypeStep DEF SelfieInv
<1>2. ASSUME NEW c \in Calls, Handle(c) PROVE SelfieInv'
  BY <1>1, <1>2, SelfiePlain, SelfieProfile, SelfieStore, SelfieFind, SelfieCommit, SelfieDiscard DEF Handle, Plain
<1>3. ASSUME NEW c \in Calls, Plain(c) PROVE SelfieInv'
  BY <1>1, <1>3, SelfiePlain
<1>4. CASE Reset \/ UNCHANGED vars
  <2>1. UNCHANGED <<photo, objects, files, call>> /\ \A t \in Teams : selfie'[t] \in {0, selfie[t]}
    BY <1>4 DEF Reset, vars, storage
  <2> QED BY <1>1, <2>1, SelfieFrame
<1> QED BY <1>2, <1>3, <1>4 DEF Next, Plain

\* The selfie of a team is a file that exists: an upload deletes only a file that no
\* row shows and no other upload has stored, however uploads of one team or of several
\* overlap or break off, and whatever resets come between.
THEOREM SelfieKept == Spec => []SelfieStored
<1>1. SelfieInv => SelfieStored
  BY DEF SelfieInv, Stored, SelfieStored
<1> QED BY <1>1, SelfieInit, SelfieStep, PTL DEF Spec
-----------------------------------------------------------------------------
(* Name and look. What a handler will write fits the teams as they are, or *)
(* somebody else is writing too.                                           *)

\* What the handler of call r has read is still so.
Compared(r) ==
  r.put[1] \in {Keep, None} \/ \A u \in Peers(r.team) : name[u] = r.put[1] => r.put[1] \in raced
Current(r) ==
  LET t == r.team
  IN t \notin disturbed =>
       /\ r.kind # "randomize" /\ r.ask.color = Keep => r.put[2] = color[t]
       /\ r.kind = "randomize" /\ color[t] # None => r.put[2] = color[t]
       /\ r.kind = "customize" /\ r.ask.badge.icon = Keep => r.put[3].icon = badge[t].icon

ProfileInv ==
  /\ TypeInv /\ NamesDistinct /\ LastAcceptedStands /\ wanted = [t \in Teams |-> wanted[t]]
  /\ \A c \in Calls : call[c].at = "write" => Compared(call[c]) /\ Current(call[c])

LEMMA ProfileFrame ==
  ASSUME ProfileInv, TypeInv', UNCHANGED <<profile, history>>,
         \A c \in Calls : call'[c].at = "write" => call'[c] = call[c] \/ (Compared(call[c]) /\ Current(call[c]))'
  PROVE  ProfileInv'
<1>1. UNCHANGED <<name, color, badge, wanted, raced, disturbed>>
  BY DEF profile, history
<1>2. NamesDistinct' /\ LastAcceptedStands' /\ (wanted = [t \in Teams |-> wanted[t]])'
  BY <1>1 DEF ProfileInv, NamesDistinct, LastAcceptedStands
<1>3. ASSUME NEW c \in Calls, call'[c].at = "write" PROVE (Compared(call[c]) /\ Current(call[c]))'
  <2>1. CASE call'[c] = call[c]
    BY <1>1, <1>3, <2>1 DEF ProfileInv, Compared, Current
  <2> QED BY <1>3, <2>1
<1> QED BY <1>2, <1>3 DEF ProfileInv

LEMMA ProfilePlain ==
  ASSUME ProfileInv, TypeInv', NEW c \in Calls, Plain(c)
  PROVE  ProfileInv'
<1>1. UNCHANGED <<profile, history>> /\ \A d \in Calls : call'[d].at = "write" => call'[d] = call[d]
  BY PlainPut DEF ProfileInv
<1> QED BY <1>1, ProfileFrame

LEMMA ProfileSelfie ==
  ASSUME ProfileInv, TypeInv', NEW c \in Calls, StoreSelfie(c) \/ FindPrevious(c) \/ CommitSelfie(c) \/ Discard(c)
  PROVE  ProfileInv'
<1>1. call \in [Calls -> Call] /\ call[c] \in Call
  BY DEF ProfileInv, TypeInv, CallsSound
<1>2. UNCHANGED <<profile, history>>
  BY DEF StoreSelfie, FindPrevious, CommitSelfie, Discard
<1>3. PICK r : Put(c, r) /\ r.at # "write"
  <2>1. /\ NoCall.at # "write"
        /\ [call[c] EXCEPT !.at = "stored", !.file = files + 1].at # "write"
        /\ [call[c] EXCEPT !.at = "commit", !.id = photo[call[c].team]].at # "write"
        /\ [call[c] EXCEPT !.at = "discard"].at # "write"
    BY <1>1 DEF NoCall, Call
  <2>2. CASE StoreSelfie(c)
    BY <2>1, <2>2 DEF StoreSelfie
  <2>3. CASE FindPrevious(c)
    BY <2>1, <2>3 DEF FindPrevious
  <2>4. CASE CommitSelfie(c)
    BY <2>1, <2>4 DEF CommitSelfie
  <2>5. CASE Discard(c)
    BY <2>1, <2>5 DEF Discard
  <2> QED BY <2>2, <2>3, <2>4, <2>5
<1>4. \A d \in Calls : call'[d].at = "write" => call'[d] = call[d]
  BY <1>1, <1>3 DEF Put
<1> QED BY <1>2, <1>4, ProfileFrame

\* A handler goes on to write what it read.
LEMMA ProfileGo ==
  ASSUME ProfileInv, TypeInv', NEW c \in Calls, UNCHANGED <<profile, history>>, NEW r, Put(c, r),
         r.at = "write" => Compared(r) /\ Current(r)
  PROVE  ProfileInv'
<1>1. call'[c] = r /\ \A d \in Calls \ {c} : call'[d] = call[d]
  BY DEF Put, ProfileInv, TypeInv, CallsSound
<1>2. UNCHANGED <<name, color, badge, wanted, raced, disturbed>>
  BY DEF profile, history
<1>3. call'[c].at = "write" => (Compared(call[c]) /\ Current(call[c]))'
  BY <1>1, <1>2 DEF Compared, Current
<1>4. \A d \in Calls : call'[d].at = "write" => call'[d] = call[d] \/ (Compared(call[d]) /\ Current(call[d]))'
  BY <1>1, <1>3
<1> QED BY <1>4, ProfileFrame

LEMMA ProfileRefused ==
  ASSUME ProfileInv, TypeInv', NEW c \in Calls, UNCHANGED <<profile, history>>, Put(c, Refused(call[c]))
  PROVE  ProfileInv'
<1>1. call[c] \in Call
  BY DEF ProfileInv, TypeInv, CallsSound
<1>2. Refused(call[c]).at # "write"
  BY <1>1, AnsweredAt
<1> QED BY <1>2, ProfileGo

LEMMA NormalKeepsIcon == \A b \in Badges \cup {NoBadge} : Normal(b).icon = b.icon
<1>1. \A b \in Badges : [b EXCEPT !.key = FALSE].icon = b.icon
  BY DEF Badges
<1>2. [NoBadge EXCEPT !.key = FALSE].icon = NoBadge.icon
  BY DEF NoBadge
<1> QED BY <1>1, <1>2 DEF Normal

LEMMA ProfileRead ==
  ASSUME ProfileInv, TypeInv', NEW c \in Calls, ReadClaim(c) \/ ReadCustomize(c) \/ ReadRandomize(c)
  PROVE  ProfileInv'
<1> DEFINE r == call[c]
           t == r.team
<1>1. r \in Call /\ r.at = "sent" /\ t \in Teams
  BY DEF ProfileInv, TypeInv, CallsSound, Sound, ReadClaim, ReadCustomize, ReadRandomize
<1>2. UNCHANGED <<profile, history>>
  BY DEF ReadClaim, ReadCustomize, ReadRandomize
<1>3. ASSUME NEW n, NEW k, NEW b, Put(c, [r EXCEPT !.at = "write", !.put = <<n, k, b>>]),
             n = Keep \/ \A u \in Peers(t) : name[u] # n,
             r.kind # "randomize" /\ r.ask.color = Keep => k = color[t],
             r.kind = "randomize" /\ color[t] # None => k = color[t],
             r.kind = "customize" /\ r.ask.badge.icon = Keep => b.icon = badge[t].icon
      PROVE  ProfileInv'
  <2> DEFINE q == [r EXCEPT !.at = "write", !.put = <<n, k, b>>]
  <2>1. q.kind = r.kind /\ q.team = r.team /\ q.ask = r.ask /\ q.put = <<n, k, b>>
    BY <1>1 DEF Call
  <2> HIDE DEF q
  <2>2. q.put[1] = n /\ q.put[2] = k /\ q.put[3] = b
    BY <2>1
  <2>3. Compared(q)
    BY <1>3, <2>1, <2>2 DEF Compared
  <2>4. Current(q)
    BY <1>3, <2>1, <2>2 DEF Current
  <2> QED BY <1>2, <1>3, <2>3, <2>4, ProfileGo DEF q
<1>4. CASE Put(c, Refused(r))
  BY <1>2, <1>4, ProfileRefused
<1>5. CASE ReadClaim(c)
  <2> DEFINE k == IF r.ask.color = Keep THEN color[t] ELSE r.ask.color
             b == IF r.ask.badge.icon = Keep THEN NoBadge ELSE Normal(r.ask.badge)
             n == r.ask.name
  <2>1. r.kind = "claim" /\ (r.ask.color = Keep => k = color[t])
    BY <1>5 DEF ReadClaim
  <2>2. \/ /\ Put(c, [r EXCEPT !.at = "write", !.put = <<n, k, b>>])
           /\ \A u \in Peers(t) : name[u] # n
        \/ Put(c, Refused(r))
    BY <1>5 DEF ReadClaim
  <2> HIDE DEF k, b, n
  <2> QED BY <1>3, <1>4, <2>1, <2>2
<1>6. CASE ReadCustomize(c)
  <2> DEFINE k == IF r.ask.color = Keep THEN color[t] ELSE r.ask.color
             b == IF r.ask.badge.icon = Keep THEN Normal(badge[t]) ELSE Normal(r.ask.badge)
  <2>1. badge[t] \in Badges \cup {NoBadge}
    BY <1>1 DEF ProfileInv, TypeInv, Columns
  <2>2. /\ r.kind = "customize" /\ (r.ask.color = Keep => k = color[t])
        /\ r.ask.badge.icon = Keep => b.icon = badge[t].icon
    BY <1>6, <2>1, NormalKeepsIcon DEF ReadCustomize
  <2>3. Put(c, [r EXCEPT !.at = "write", !.put = <<Keep, k, b>>]) \/ Put(c, Refused(r))
    BY <1>6 DEF ReadCustomize
  <2> HIDE DEF k, b
  <2> QED BY <1>3, <1>4, <2>2, <2>3
<1>7. CASE ReadRandomize(c)
  <2> DEFINE k == IF color[t] # None THEN color[t] ELSE Colors[FirstFree(t)]
  <2>1. r.kind = "randomize" /\ (color[t] # None => k = color[t])
    BY <1>7 DEF ReadRandomize
  <2>2. \/ \E n \in Names \ {name[u] : u \in Peers(t)}, b \in Badges :
              Put(c, [r EXCEPT !.at = "write", !.put = <<n, k, b>>])
        \/ Put(c, Refused(r))
    BY <1>7 DEF ReadRandomize
  <2> HIDE DEF k
  <2>3. ASSUME NEW n \in Names \ {name[u] : u \in Peers(t)}, NEW b \in Badges,
               Put(c, [r EXCEPT !.at = "write", !.put = <<n, k, b>>])
        PROVE  ProfileInv'
    <3>1. \A u \in Peers(t) : name[u] # n
      OBVIOUS
    <3> QED BY <1>3, <2>1, <2>3, <3>1
  <2> QED BY <1>4, <2>2, <2>3
<1> QED BY <1>5, <1>6, <1>7

\* The team is written. Another handler of the team that has read it is stale from
\* then on, but the team is disturbed; one of another team that compared the same name
\* is, but the name is raced.
LEMMA ProfileWrite ==
  ASSUME ProfileInv, TypeInv', NEW c \in Calls, WriteProfile(c)
  PROVE  ProfileInv'
<1>1. PICK r \in Call, t \in Teams : r = call[c] /\ t = r.team
  BY DEF ProfileInv, TypeInv, CallsSound, Sound, WriteProfile
<1> DEFINE k == r.put[2]
           b == r.put[3]
           n == IF r.put[1] = Keep THEN name[t] ELSE r.put[1]
           taken == \E u \in Peers(t) : (k # None /\ color[u] = k) \/ (b # NoBadge /\ badge[u] = b)
           others == {call[d].put[1] : d \in UNION {Writers(u) : u \in Peers(t)}}
<1>2. CASE taken
  <2>1. Put(c, Refused(call[c])) /\ UNCHANGED <<profile, history>>
    BY <1>1, <1>2 DEF WriteProfile
  <2> QED BY <2>1, ProfileRefused
<1>3. CASE ~taken
  <2>1. /\ r.at = "write"
        /\ name' = [name EXCEPT ![t] = n] /\ color' = [color EXCEPT ![t] = k] /\ badge' = [badge EXCEPT ![t] = b]
        /\ wanted' = [wanted EXCEPT ![t] = Wants(r)]
        /\ raced' = raced \cup ({n} \cap others)
        /\ disturbed' = IF Writers(t) = {c} THEN disturbed ELSE disturbed \cup {t}
        /\ Put(c, Answered(r, TRUE, k, TakenBy(t)))
    BY <1>1, <1>3 DEF WriteProfile
  <2>2. Compared(r) /\ Current(r) /\ wanted = [u \in Teams |-> wanted[u]]
    BY <1>1, <2>1 DEF ProfileInv
  <2> HIDE DEF n, k, b, taken
  <2>3. /\ name'[t] = n /\ color'[t] = k /\ badge'[t] = b /\ wanted'[t] = Wants(r)
        /\ \A u \in Teams \ {t} : /\ name'[u] = name[u] /\ color'[u] = color[u] /\ badge'[u] = badge[u]
                                  /\ wanted'[u] = wanted[u]
        /\ wanted' = [u \in Teams |-> wanted'[u]]
    BY <2>1, <2>2 DEF ProfileInv, TypeInv, Columns
  <2>4. Answered(r, TRUE, k, TakenBy(t)).at # "write"
    BY AnsweredAt
  <2>5. call'[c].at # "write" /\ \A d \in Calls \ {c} : call'[d] = call[d]
    BY <2>1, <2>4 DEF Put, ProfileInv, TypeInv, CallsSound
  <2>6. n = None \/ \A u \in Teams \ {t} : name[u] = n => n \in raced
    BY <1>1, <2>2 DEF n, Compared, Peers, ProfileInv, NamesDistinct
  <2>7. NamesDistinct'
    BY <2>1, <2>3, <2>6 DEF ProfileInv, NamesDistinct
  <2>8. t \notin disturbed' => k = Wants(r)[1] /\ b.icon = Wants(r)[2] /\ Writers(t) = {c} /\ t \notin disturbed
    <3> SUFFICES ASSUME t \notin disturbed'
                 PROVE  k = Wants(r)[1] /\ b.icon = Wants(r)[2] /\ Writers(t) = {c} /\ t \notin disturbed
      OBVIOUS
    <3>1. Writers(t) = {c} /\ t \notin disturbed
      BY <2>1
    <3>2. color[t] = wanted[t][1] /\ badge[t].icon = wanted[t][2]
      BY <3>1 DEF ProfileInv, LastAcceptedStands
    <3>3. /\ r.kind # "randomize" /\ r.ask.color = Keep => k = color[t]
          /\ r.kind = "randomize" /\ color[t] # None => k = color[t]
          /\ r.kind = "customize" /\ r.ask.badge.icon = Keep => b.icon = badge[t].icon
      BY <1>1, <2>2, <3>1 DEF Current, k, b
    <3>4. /\ Wants(r)[1] = CASE r.kind = "randomize" /\ wanted[t][1] # None -> wanted[t][1]
                             [] r.kind # "randomize" /\ r.ask.color = Keep -> wanted[t][1]
                             [] OTHER -> k
          /\ Wants(r)[2] = IF r.kind = "customize" /\ r.ask.badge.icon = Keep THEN wanted[t][2] ELSE b.icon
      BY <1>1 DEF Wants, k, b
    <3>5. k = Wants(r)[1]
      <4>1. CASE r.kind = "randomize" /\ wanted[t][1] # None
        BY <3>2, <3>3, <3>4, <4>1
      <4>2. CASE r.kind # "randomize" /\ r.ask.color = Keep
        BY <3>2, <3>3, <3>4, <4>2
      <4>3. CASE ~(r.kind = "randomize" /\ wanted[t][1] # None) /\ ~(r.kind # "randomize" /\ r.ask.color = Keep)
        BY <3>4, <4>3
      <4> QED BY <4>1, <4>2, <4>3
    <3>6. b.icon = Wants(r)[2]
      BY <3>2, <3>3, <3>4
    <3> QED BY <3>1, <3>5, <3>6
  <2>9. LastAcceptedStands'
    <3>1. \A u \in Teams \ {t} : u \notin disturbed' => color'[u] = wanted'[u][1] /\ badge'[u].icon = wanted'[u][2]
      BY <2>1, <2>3 DEF ProfileInv, LastAcceptedStands
    <3>2. t \notin disturbed' => color'[t] = wanted'[t][1] /\ badge'[t].icon = wanted'[t][2]
      BY <2>3, <2>8
    <3> QED BY <3>1, <3>2 DEF LastAcceptedStands
  <2>10. ASSUME NEW d \in Calls, call'[d].at = "write" PROVE (Compared(call[d]) /\ Current(call[d]))'
    <3>1. PICK q \in Call, u \in Teams : q = call[d] /\ u = q.team
      BY <2>5, <2>10 DEF ProfileInv, TypeInv, CallsSound, Sound
    <3>2. d # c /\ call'[d] = q /\ q.at = "write"
      BY <2>5, <2>10, <3>1
    <3>3. Compared(q) /\ Current(q)
      BY <3>1, <3>2 DEF ProfileInv
    <3>4. d \in Writers(u)
      BY <3>1, <3>2 DEF Writers
    <3>5. u # t /\ q.put[1] = n => n \in raced'
      <4>1. SUFFICES ASSUME u # t, q.put[1] = n PROVE n \in others
        BY <2>1
      <4>2. d \in UNION {Writers(x) : x \in Peers(t)}
        BY <3>4, <4>1 DEF Peers
      <4> QED BY <3>1, <4>1, <4>2
    <3>6. Compared(call[d])'
      <4>1. q.put[1] \in {Keep, None} \/ \A x \in Peers(u) : name'[x] = q.put[1] => q.put[1] \in raced'
        BY <2>1, <2>3, <3>1, <3>3, <3>5 DEF Compared, Peers
      <4> QED BY <3>1, <3>2, <4>1 DEF Compared, Peers
    <3>7. u = t => t \in disturbed'
      BY <2>8, <3>2, <3>4
    <3>8. Current(call[d])'
      <4>1. u \notin disturbed' => u # t /\ u \notin disturbed /\ color'[u] = color[u] /\ badge'[u] = badge[u]
        BY <2>1, <2>3, <3>7
      <4> QED BY <3>1, <3>2, <3>3, <4>1 DEF Current
    <3> QED BY <3>6, <3>8
  <2> QED BY <2>3, <2>7, <2>9, <2>10 DEF ProfileInv
<1> QED BY <1>2, <1>3

LEMMA ProfileReset ==
  ASSUME ProfileInv, TypeInv', Reset
  PROVE  ProfileInv'
<1>1. /\ \A t \in Teams : name'[t] = None /\ color'[t] = None /\ badge'[t] = NoBadge /\ wanted'[t] = <<None, None>>
      /\ UNCHANGED <<call, raced>> /\ wanted' = [t \in Teams |-> wanted'[t]]
      /\ \A t \in Teams : t \notin disturbed' => t \notin disturbed /\ Writers(t) = {}
  BY DEF Reset
<1>2. NamesDistinct'
  BY <1>1 DEF NamesDistinct
<1>3. LastAcceptedStands'
  BY <1>1 DEF LastAcceptedStands, NoBadge
<1>4. ASSUME NEW c \in Calls, call'[c].at = "write" PROVE (Compared(call[c]) /\ Current(call[c]))'
  <2>1. call'[c] = call[c] /\ call[c].team \in Teams
    BY <1>1, <1>4 DEF ProfileInv, TypeInv, CallsSound, Sound
  <2>2. c \in Writers(call[c].team)
    BY <1>4, <2>1 DEF Writers
  <2>3. call[c].team \in disturbed'
    BY <1>1, <2>1, <2>2
  <2>4. Current(call[c])'
    BY <2>1, <2>3 DEF Current
  <2>5. Compared(call[c])'
    BY <1>1, <2>1 DEF Compared, Peers
  <2> QED BY <2>4, <2>5
<1> QED BY <1>1, <1>2, <1>3, <1>4 DEF ProfileInv

LEMMA ProfileInit == Init => ProfileInv
<1> SUFFICES ASSUME Init PROVE ProfileInv
  OBVIOUS
<1>1. \A c \in Calls : call[c].at = "idle"
  BY DEF Init, NoCall
<1>2. NamesDistinct /\ LastAcceptedStands
  BY DEF Init, NamesDistinct, LastAcceptedStands, NoBadge
<1>3. wanted = [t \in Teams |-> wanted[t]]
  BY DEF Init
<1> QED BY <1>1, <1>2, <1>3, TypeInit DEF ProfileInv

LEMMA ProfileStep == ProfileInv /\ [Next]_vars => ProfileInv'
<1> SUFFICES ASSUME ProfileInv, [Next]_vars PROVE ProfileInv'
  OBVIOUS
<1>1. TypeInv'
  BY TypeStep DEF ProfileInv
<1>2. ASSUME NEW c \in Calls, Handle(c) PROVE ProfileInv'
  BY <1>1, <1>2, ProfilePlain, ProfileRead, ProfileWrite, ProfileSelfie DEF Handle, Plain
<1>3. ASSUME NEW c \in Calls, Plain(c) PROVE ProfileInv'
  BY <1>1, <1>3, ProfilePlain
<1>4. CASE UNCHANGED vars
  <2>1. UNCHANGED <<profile, history, call>>
    BY <1>4 DEF vars
  <2> QED BY <1>1, <2>1, ProfileFrame
<1> QED BY <1>1, <1>2, <1>3, <1>4, ProfileReset DEF Next, Plain

\* Two teams have one name only if both were writing it at the same time: no claim, no
\* draw and no reset makes two names equal that some handler could have compared.
THEOREM NamesApart == Spec => []NamesDistinct
<1>1. ProfileInv => NamesDistinct
  BY DEF ProfileInv
<1> QED BY <1>1, ProfileInit, ProfileStep, PTL DEF Spec

\* The look of a team is what the last accepted request for each field asked for: the
\* update that writes both columns puts back what it read, and that is still there
\* unless requests for this very team, or a reset, overlapped.
THEOREM AcceptedStands == Spec => []LastAcceptedStands
<1>1. ProfileInv => LastAcceptedStands
  BY DEF ProfileInv
<1> QED BY <1>1, ProfileInit, ProfileStep, PTL DEF Spec
=============================================================================
