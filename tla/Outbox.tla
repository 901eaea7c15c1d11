------------------------------- MODULE Outbox -------------------------------
(***************************************************************************)
(* What the offline queue of the phone promises: a result that was saved   *)
(* on the device stays saved until the server has given its verdict on it, *)
(* and the server does get to give it.                                     *)
(***************************************************************************)
CONSTANT Results

VARIABLES pending,   \* results saved on the device that wait for a verdict
          settled    \* results the server has accepted or refused

vars == <<pending, settled>>

Init == pending = {} /\ settled = {}

Save(m) ==
  /\ m \notin settled
  /\ pending' = pending \cup {m}
  /\ UNCHANGED settled

\* The server decides on m, which may have reached it without being saved.
Settle(m) ==
  /\ settled' = settled \cup {m}
  /\ pending' = pending \ {m}

Next == \E m \in Results : Save(m) \/ Settle(m)

Spec ==
  /\ Init /\ [][Next]_vars
  /\ \A m \in Results : WF_vars(m \in pending /\ Settle(m))
=============================================================================
