----------------------------- MODULE MCSessions -----------------------------
(***************************************************************************)
(* The devices of the checked instances are interchangeable.               *)
(***************************************************************************)
EXTENDS Sessions

Symmetry == Permutations(Devices)
=============================================================================
