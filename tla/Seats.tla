------------------------------- MODULE Seats -------------------------------
(***************************************************************************)
(* What joining a game promises: every device sits at one team or at none, *)
(* it takes a team nobody sits at, and only a full game puts two devices   *)
(* at one team, the first.                                                 *)
(***************************************************************************)
EXTENDS Naturals

CONSTANTS Devices, MaxTeams
VARIABLES open,   \* the teams of the game, by slot number
          seat    \* the team of each device, 0 for none

At(s) == {d \in Devices : seat[d] = s}
Full == \A s \in open : At(s) # {}

Init == open = {} /\ seat = [d \in Devices |-> 0]

\* The teams of the game are the first ones; who sat at a removed team stands up.
Resize ==
  /\ \E n \in 0..MaxTeams : open' = 1..n
  /\ seat' = [d \in Devices |-> IF seat[d] \in open' THEN seat[d] ELSE 0]

Leave ==
  /\ \E D \in (SUBSET Devices) \ {{}} : seat' = [d \in Devices |-> IF d \in D THEN 0 ELSE seat[d]]
  /\ UNCHANGED open

Sit(d, s) ==
  /\ At(s) = {} \/ (seat[d] = 0 /\ Full /\ s = 1)
  /\ seat' = [seat EXCEPT ![d] = s]
  /\ UNCHANGED open

Next == Resize \/ Leave \/ \E d \in Devices : \E s \in open : Sit(d, s)

Spec == Init /\ [][Next]_<<open, seat>>
=============================================================================
