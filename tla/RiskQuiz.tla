------------------------------ MODULE RiskQuiz ------------------------------
(***************************************************************************)
(* The risk quiz: teams scan physical cards, each of which draws a station *)
(* they have not tried yet from a pool, and bet on solving it.             *)
(* risk-quiz.service.ts (drawing, answering, streaks and points; pools,    *)
(* decks and the generation of cards) with the screen of the phones that   *)
(* play (risk-quiz-screen.tsx).                                            *)
(*                                                                         *)
(* A call is a request with its handler and its answer; a handler takes    *)
(* one step per awaited statement that another call can tell apart.        *)
(***************************************************************************)
EXTENDS Integers, Sequences, FiniteSetsExt

CONSTANTS
  Teams, Phones, TeamOf,
  Categories, Slugs,         \* the slugs a category's name may have
  Difficulties, Correct, Wrong,  \* the points of a difficulty, gained and lost
  PerPool,                   \* RISK_CARDS_PER_POOL
  Stations, FirstPools,      \* what is in the pools at first
  Window,                    \* how many attempts getCurrentStreak looks at
  MaxCalls, MaxRequests, MaxFaults   \* bounds

ASSUME RiskAssumption ==
  /\ TeamOf \in [Phones -> Teams]
  /\ Correct \in [Difficulties -> Nat] /\ Wrong \in [Difficulties -> Nat]
  /\ PerPool \in Nat \ {0} /\ Window \in Nat /\ Window >= 5
  /\ FirstPools \subseteq Categories \X Difficulties \X Stations
  /\ {MaxCalls, MaxRequests, MaxFaults} \subseteq Nat

VARIABLES
  slug,         \* what the name of a category is in a code
  categories,   \* the categories that exist
  deck,         \* the categories in the scheme of the realization
  pools,        \* RiskPoolStation
  cards,        \* RiskCard
  attempts,     \* RiskAttempt of each team, oldest first
  points,       \* Team.points
  draw, result, \* activeDraw and answerResult of a phone's screen
  closing,      \* the card slides out; it is cleared at the end
  session, call, requests, faults,
  cut,          \* history: teams whose answer broke off, or whose total was overwritten
  raced,        \* history: teams that had two answers in their handlers at once
  left          \* history: phones whose card was replaced while its answer was in flight

setup   == <<slug, categories, deck, pools>>
screens == <<draw, result, closing, left>>
bounds  == <<requests, faults>>
vars == <<setup, cards, attempts, points, screens, session, call, bounds, cut, raced>>

-----------------------------------------------------------------------------
Calls == 1..MaxCalls
Code == [cat : Categories, diff : Difficulties, slug : Slugs, n : 1..PerPool]
Attempt == [card : Code, station : Stations, ok : BOOLEAN, delta : Int]
\* What a card shows: nothing, or the station that was drawn.
NoCard == [cat |-> "none", diff |-> "none", slug |-> "none", n |-> 0]
NoDraw == [card |-> NoCard, station |-> "none"]
Drawn == [card : Code, station : Stations]
SameSticker(a, b) == a.slug = b.slug /\ a.diff = b.diff /\ a.n = b.n
\* The codes a generation wants for the deck as it is named now.
Wanted(D) == {c \in Code : c.cat \in D /\ c.slug = slug[c.cat]}

NoCall == [kind |-> "none", at |-> "idle", team |-> "none", phone |-> "none", card |-> NoCard,
           station |-> "none", claim |-> "none", streak |-> 0, delta |-> 0, todo |-> {}, done |-> FALSE]
Kinds == {"scan", "answer", "generate"}
Stages == {"sent", "look", "streak", "create", "pay", "answered", "exhausted"}

TypeOK ==
  /\ slug \in [Categories -> Slugs] /\ categories \subseteq Categories /\ deck \subseteq categories
  /\ \A x \in pools : x[1] \in categories
  /\ cards \subseteq Code /\ \A c \in cards : c.cat \in categories
  /\ \A c, d \in cards : SameSticker(c, d) => c = d       \* the unique key
  /\ \A t \in Teams : \A i \in DOMAIN attempts[t] :
       attempts[t][i] \in Attempt /\ attempts[t][i].card \in cards   \* the foreign key
  /\ points \in [Teams -> Int]
  /\ \A p \in Phones : draw[p] \in Drawn \cup {NoDraw} /\ result[p] \in Drawn \cup {NoDraw}
  /\ closing \in [Phones -> BOOLEAN] /\ session \in [Phones -> BOOLEAN]
  /\ \A c \in Calls : call[c] = NoCall \/ (call[c].kind \in Kinds /\ call[c].at \in Stages)
  /\ {cut, raced} \subseteq SUBSET Teams /\ left \subseteq Phones

\* The realization has been played or not yet prepared: there are no cards, or all.
Init ==
  /\ slug \in [Categories -> Slugs] /\ categories = Categories /\ deck = Categories
  /\ pools = FirstPools /\ cards \in {{}, Wanted(Categories)}
  /\ \A c, d \in cards : SameSticker(c, d) => c = d
  /\ attempts = [t \in Teams |-> <<>>] /\ points = [t \in Teams |-> 0]
  /\ draw = [p \in Phones |-> NoDraw] /\ result = [p \in Phones |-> NoDraw]
  /\ closing = [p \in Phones |-> FALSE] /\ session = [p \in Phones |-> TRUE]
  /\ call = [c \in Calls |-> NoCall] /\ requests = 0 /\ faults = 0
  /\ cut = {} /\ raced = {} /\ left = {}

-----------------------------------------------------------------------------
Put(c, r) == call' = [call EXCEPT ![c] = r]
Idle(c) == call[c] = NoCall
Free(c) ==
  LET idle == {d \in Calls : Idle(d)}
  IN idle # {} /\ c = CHOOSE d \in idle : TRUE
Ask == requests < MaxRequests /\ requests' = requests + 1
Of(p, kind) == {c \in Calls : call[c].phone = p /\ call[c].kind = kind}
Refused(r) == IF r.phone = "none" THEN NoCall ELSE [r EXCEPT !.at = "answered", !.done = FALSE]

Answering(t) == {c \in Calls : call[c].team = t /\ call[c].kind = "answer" /\ call[c].at \in Stages \ {"sent", "answered"}}
Tried(t) == {attempts[t][i].station : i \in DOMAIN attempts[t]}
InPool(card) == {x \in pools : x[1] = card.cat /\ x[2] = card.diff}

\* getCurrentStreak: the unbroken run of correct attempts, latest first.
Streak(s) == LET broken == {i \in DOMAIN s : ~s[i].ok}
                 run == IF broken = {} THEN Len(s) ELSE Len(s) - Max(broken)
             IN Min({run, Window})
\* Math.round(correct * min(1 + 0.25 * max(0, streak - 1), 2)), in quarters.
Paid(correct, streak) ==
  LET quarters == Min({4 + Max({0, streak - 1}), 8})
  IN (2 * correct * quarters + 4) \div 8

-----------------------------------------------------------------------------
\* scanCard: from the scanner, or from the test menu of the screen, which also opens
\* while a card is shown; finds the card, its pool and what the team has tried, and draws one of
\* the others.
Scan(p, c, code) ==
  /\ Free(c) /\ Ask
  /\ Put(c, [NoCall EXCEPT !.kind = "scan", !.at = "sent", !.team = TeamOf[p], !.phone = p, !.card = code])
  /\ UNCHANGED <<setup, cards, attempts, points, screens, session, faults, cut, raced>>

FindCard(c) ==
  LET r == call[c]
      found == {k \in cards : SameSticker(k, r.card)}
  IN /\ r.kind = "scan" /\ r.at = "sent"
     /\ Put(c, IF session[r.phone] /\ found # {}
               THEN [r EXCEPT !.at = "look", !.card = CHOOSE k \in found : TRUE,
                              !.todo = {x[3] : x \in InPool(CHOOSE k \in found : TRUE)}]
               ELSE Refused(r))
     /\ UNCHANGED <<setup, cards, attempts, points, screens, session, bounds, cut, raced>>

Draw(c) ==
  LET r == call[c]
      available == r.todo \ Tried(r.team)
  IN /\ r.kind = "scan" /\ r.at = "look"
     /\ IF available = {} THEN Put(c, [r EXCEPT !.at = "exhausted"])
        ELSE \E s \in available : Put(c, [r EXCEPT !.at = "answered", !.done = TRUE, !.station = s])
     /\ UNCHANGED <<setup, cards, attempts, points, screens, session, bounds, cut, raced>>

-----------------------------------------------------------------------------
\* submitOutcome: the phone sends the outcome of the card it shows, once at a time.
Submit(p, c, claim) ==
  /\ Free(c) /\ Ask
  /\ draw[p] # NoDraw /\ result[p] = NoDraw /\ Of(p, "answer") = {}
  /\ Put(c, [NoCall EXCEPT !.kind = "answer", !.at = "sent", !.team = TeamOf[p], !.phone = p,
                           !.card = draw[p].card, !.station = draw[p].station, !.claim = claim])
  /\ UNCHANGED <<setup, cards, attempts, points, screens, session, faults, cut, raced>>

\* submitAnswer checks that the station belongs to the card's pool, ...
CheckPool(c) ==
  LET r == call[c]
      good == session[r.phone] /\ r.card \in cards /\ <<r.card.cat, r.card.diff, r.station>> \in pools
  IN /\ r.kind = "answer" /\ r.at = "sent"
     /\ Put(c, IF good THEN [r EXCEPT !.at = "look"] ELSE Refused(r))
     /\ raced' = IF good /\ Answering(r.team) # {} THEN raced \cup {r.team} ELSE raced
     /\ UNCHANGED <<setup, cards, attempts, points, screens, session, bounds, cut>>

\* ... that the team has not tried it, and that the outcome can be told, ...
CheckTried(c) ==
  LET r == call[c]
  IN /\ r.kind = "answer" /\ r.at = "look"
     /\ Put(c, IF r.station \in Tried(r.team) \/ r.claim = "bad" THEN Refused(r) ELSE [r EXCEPT !.at = "streak"])
     /\ UNCHANGED <<setup, cards, attempts, points, screens, session, bounds, cut, raced>>

\* Mutant of ReadStreak: the multiplier is that of the streak before this answer.
ReadStreakBefore(c) ==
  LET r == call[c]
      right == r.claim = "right"
  IN /\ r.kind = "answer" /\ r.at = "streak"
     /\ Put(c, [r EXCEPT !.at = "create", !.streak = IF right THEN Streak(attempts[r.team]) + 1 ELSE 0,
                         !.delta = IF right THEN Paid(Correct[r.card.diff], Streak(attempts[r.team]))
                                   ELSE -Wrong[r.card.diff]])
     /\ UNCHANGED <<setup, cards, attempts, points, screens, session, bounds, cut, raced>>
\* ... reads the streak and works out the points, ...
ReadStreak(c) ==
  LET r == call[c]
      right == r.claim = "right"
      streak == IF right THEN Streak(attempts[r.team]) + 1 ELSE 0
  IN /\ r.kind = "answer" /\ r.at = "streak"
     /\ Put(c, [r EXCEPT !.at = "create", !.streak = streak,
                         !.delta = IF right THEN Paid(Correct[r.card.diff], streak) ELSE -Wrong[r.card.diff]])
     /\ UNCHANGED <<setup, cards, attempts, points, screens, session, bounds, cut, raced>>

\* Mutant of CreateAttempt: goes on when the attempt cannot be stored.
CreateAttemptAnyway(c) ==
  LET r == call[c]
      row == [card |-> r.card, station |-> r.station, ok |-> r.claim = "right", delta |-> r.delta]
  IN /\ r.kind = "answer" /\ r.at = "create"
     /\ attempts' = IF r.card \in cards THEN [attempts EXCEPT ![r.team] = Append(@, row)] ELSE attempts
     /\ Put(c, [r EXCEPT !.at = "pay"])
     /\ UNCHANGED <<setup, cards, points, screens, session, bounds, cut, raced>>
\* ... stores the attempt (unless its card is gone), ...
CreateAttempt(c) ==
  LET r == call[c]
      kept == r.card \in cards
      row == [card |-> r.card, station |-> r.station, ok |-> r.claim = "right", delta |-> r.delta]
  IN /\ r.kind = "answer" /\ r.at = "create"
     /\ attempts' = IF kept THEN [attempts EXCEPT ![r.team] = Append(@, row)] ELSE attempts
     /\ Put(c, IF kept THEN [r EXCEPT !.at = "pay"] ELSE Refused(r))
     /\ UNCHANGED <<setup, cards, points, screens, session, bounds, cut, raced>>

\* ... and increments the points of the team.
Pay(c) ==
  LET r == call[c]
  IN /\ r.kind = "answer" /\ r.at = "pay"
     /\ points' = [points EXCEPT ![r.team] = @ + r.delta]
     /\ Put(c, [r EXCEPT !.at = "answered", !.done = TRUE])
     /\ UNCHANGED <<setup, cards, attempts, screens, session, bounds, cut, raced>>

-----------------------------------------------------------------------------
\* Mutant of HearScan: the result of the previous card stays.
HearScanKeeps(c) ==
  LET r == call[c]
      p == r.phone
      drawn == [card |-> r.card, station |-> r.station]
  IN /\ r.kind = "scan" /\ r.at \in {"answered", "exhausted"}
     /\ draw' = IF r.done THEN [draw EXCEPT ![p] = drawn] ELSE draw
     /\ closing' = IF r.done THEN [closing EXCEPT ![p] = FALSE] ELSE closing
     /\ left' = IF Of(p, "answer") # {} THEN left \cup {p} ELSE left
     /\ Put(c, NoCall)
     /\ UNCHANGED <<setup, cards, attempts, points, result, session, bounds, cut, raced>>
\* The screen: a card that was drawn replaces what is shown, and stops an animation
\* that clears another card.
HearScan(c) ==
  LET r == call[c]
      p == r.phone
      drawn == [card |-> r.card, station |-> r.station]
  IN /\ r.kind = "scan" /\ r.at \in {"answered", "exhausted"}
     /\ draw' = IF r.done THEN [draw EXCEPT ![p] = drawn]
                ELSE IF r.at = "exhausted" THEN [draw EXCEPT ![p] = NoDraw] ELSE draw
     /\ result' = IF r.done THEN [result EXCEPT ![p] = NoDraw] ELSE result
     /\ closing' = IF r.done /\ draw[p].card # r.card THEN [closing EXCEPT ![p] = FALSE] ELSE closing
     /\ left' = IF Of(p, "answer") # {} THEN left \cup {p} ELSE left
     /\ Put(c, NoCall)
     /\ UNCHANGED <<setup, cards, attempts, points, session, bounds, cut, raced>>

\* The result is shown on whatever card is open.
HearAnswer(c) ==
  LET r == call[c]
      p == r.phone
  IN /\ r.kind = "answer" /\ r.at = "answered"
     /\ result' = IF r.done THEN [result EXCEPT ![p] = [card |-> r.card, station |-> r.station]] ELSE result
     /\ Put(c, NoCall)
     /\ UNCHANGED <<setup, cards, attempts, points, draw, closing, left, session, bounds, cut, raced>>

\* dismissActiveCard: the player closes the card, or the result was shown long enough.
Close(p) ==
  /\ draw[p] # NoDraw \/ result[p] # NoDraw
  /\ ~closing[p]
  /\ closing' = [closing EXCEPT ![p] = TRUE]
  /\ UNCHANGED <<setup, cards, attempts, points, draw, result, left, session, call, bounds, cut, raced>>

Cleared(p) ==
  /\ closing[p]
  /\ closing' = [closing EXCEPT ![p] = FALSE]
  /\ draw' = [draw EXCEPT ![p] = NoDraw] /\ result' = [result EXCEPT ![p] = NoDraw]
  /\ left' = IF Of(p, "answer") # {} THEN left \cup {p} ELSE left
  /\ UNCHANGED <<setup, cards, attempts, points, session, call, bounds, cut, raced>>

\* The request or its answer gets lost, or the process stops in the handler.
Fail(c) ==
  LET r == call[c]
  IN /\ faults < MaxFaults /\ ~Idle(c) /\ (r.at = "answered" => r.done)
     /\ faults' = faults + 1
     /\ cut' = IF r.at = "pay" THEN cut \cup {r.team} ELSE cut
     /\ Put(c, Refused(r))
     /\ UNCHANGED <<setup, cards, attempts, points, screens, session, requests, raced>>

-----------------------------------------------------------------------------
\* generateMissingCards: the codes of the deck that have no card of their pool, ...
Generate(c) ==
  /\ Free(c) /\ Ask
  /\ Put(c, [NoCall EXCEPT !.kind = "generate", !.at = "create", !.todo = Wanted(deck) \ cards])
  /\ UNCHANGED <<setup, cards, attempts, points, screens, session, faults, cut, raced>>

\* ... are created one by one; a code that has a card, or a category that is gone,
\* ends the request.
CreateCard(c) ==
  LET r == call[c]
  IN /\ r.kind = "generate" /\ r.at = "create"
     /\ IF r.todo = {} THEN Put(c, NoCall) /\ UNCHANGED cards
        ELSE \E k \in r.todo :
               IF k.cat \in categories /\ ~\E d \in cards : SameSticker(k, d)
               THEN cards' = cards \cup {k} /\ Put(c, [r EXCEPT !.todo = @ \ {k}])
               ELSE Put(c, NoCall) /\ UNCHANGED cards
     /\ UNCHANGED <<setup, attempts, points, screens, session, bounds, cut, raced>>

Rename(k, s) ==
  /\ Ask /\ k \in categories /\ slug[k] # s
  /\ slug' = [slug EXCEPT ![k] = s]
  /\ UNCHANGED <<categories, deck, pools, cards, attempts, points, screens, session, call, faults, cut, raced>>

\* The attempts with cards of other categories, in their order.
Without(k, s) ==
  LET kept[i \in 0..Len(s)] ==
        IF i = 0 THEN <<>> ELSE IF s[i].card.cat = k THEN kept[i - 1] ELSE Append(kept[i - 1], s[i])
  IN kept[Len(s)]

\* Mutant of DeleteCategory: its cards stay.
DeleteCategoryOnly(k) ==
  /\ Ask /\ k \in categories
  /\ categories' = categories \ {k} /\ deck' = deck \ {k}
  /\ pools' = {x \in pools : x[1] # k}
  /\ UNCHANGED <<slug, cards, attempts, points, screens, session, call, faults, cut, raced>>
\* Deleting a category takes its pools, its cards and their attempts with it; the
\* points stay.
DeleteCategory(k) ==
  /\ Ask /\ k \in categories
  /\ categories' = categories \ {k} /\ deck' = deck \ {k}
  /\ pools' = {x \in pools : x[1] # k}
  /\ cards' = {x \in cards : x.cat # k}
  /\ attempts' = [t \in Teams |-> Without(k, attempts[t])]
  /\ cut' = cut \cup {t \in Teams : \E i \in DOMAIN attempts[t] : attempts[t][i].card.cat = k}
  /\ UNCHANGED <<slug, points, screens, session, call, faults, raced>>

SetDeck(k) ==
  /\ Ask /\ k \in categories
  /\ deck' = IF k \in deck THEN deck \ {k} ELSE deck \cup {k}
  /\ UNCHANGED <<slug, categories, pools, cards, attempts, points, screens, session, call, faults, cut, raced>>

SetPool(k, d, s) ==
  /\ Ask /\ k \in categories
  /\ pools' = IF <<k, d, s>> \in pools THEN pools \ {<<k, d, s>>} ELSE pools \cup {<<k, d, s>>}
  /\ UNCHANGED <<slug, categories, deck, cards, attempts, points, screens, session, call, faults, cut, raced>>

\* Elsewhere in the backend: the reset of the realization ends the sessions and zeroes
\* the points, and a recalculation stores the sum of tasks and claims, here none. The
\* attempts stay.
Overwrite(ends) ==
  /\ Ask
  /\ points' = [t \in Teams |-> 0] /\ cut' = Teams
  /\ session' = IF ends THEN [p \in Phones |-> FALSE] ELSE session
  /\ UNCHANGED <<setup, cards, attempts, screens, call, faults, raced>>

Next ==
  \/ \E c \in Calls :
       \/ FindCard(c) \/ Draw(c) \/ CheckPool(c) \/ CheckTried(c) \/ ReadStreak(c) \/ CreateAttempt(c) \/ Pay(c)
       \/ HearScan(c) \/ HearAnswer(c) \/ Fail(c) \/ Generate(c) \/ CreateCard(c)
       \/ \E p \in Phones :
            \/ \E k \in Code : k \in Wanted(Categories) \cup cards /\ Scan(p, c, k)
            \/ \E claim \in {"right", "wrong", "bad"} : Submit(p, c, claim)
  \/ \E p \in Phones : Close(p) \/ Cleared(p)
  \/ \E k \in Categories : (\E s \in Slugs : Rename(k, s)) \/ DeleteCategory(k) \/ SetDeck(k)
  \/ \E x \in FirstPools : SetPool(x[1], x[2], x[3])
  \/ \E ends \in BOOLEAN : Overwrite(ends)

Spec == Init /\ [][Next]_vars

-----------------------------------------------------------------------------
Total(q) == LET sum[i \in 0..Len(q)] == IF i = 0 THEN 0 ELSE sum[i - 1] + q[i] IN sum[Len(q)]
Earned(t) == Total([i \in DOMAIN attempts[t] |-> attempts[t][i].delta])
Due(t) == Total([c \in Calls |-> IF call[c].team = t /\ call[c].at = "pay" THEN call[c].delta ELSE 0])

\* The points of a team are what its attempts add up to, but for those that are about
\* to be paid, however many phones answer at once (unless the total was overwritten by
\* another feature, or an answer broke off between attempt and payment).
PointsAreAttempts ==
  \A t \in Teams \ cut : points[t] + Due(t) = Earned(t)

\* Every attempt earned what the run of correct attempts before it makes it worth, and
\* no station was tried twice (unless a team had two answers in flight at once).
StreaksArePaid ==
  \A t \in Teams \ (raced \cup cut) : \A i \in DOMAIN attempts[t] :
    LET a == attempts[t][i]
        before == SubSeq(attempts[t], 1, i - 1)
    IN /\ a.delta = IF a.ok THEN Paid(Correct[a.card.diff], Streak(before) + 1) ELSE -Wrong[a.card.diff]
       /\ \A j \in 1..(i - 1) : attempts[t][j].station # a.station

\* A result is shown on the card it is about, and only cards whose answer the player
\* did not wait for are an exception.
ResultOfThisCard ==
  \A p \in Phones \ left : result[p] # NoDraw /\ draw[p] # NoDraw => result[p] = draw[p]

\* What the comment at the timer that dismisses a card says: "it never dismisses the
\* wrong question".
NeverTheWrongQuestion ==
  \A p \in Phones : result[p] # NoDraw /\ draw[p] # NoDraw => result[p] = draw[p]
=============================================================================
