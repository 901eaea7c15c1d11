---------------------------- MODULE MCScenarios -----------------------------
(***************************************************************************)
(* A library of two stations with a code each, and two templates.          *)
(***************************************************************************)
EXTENDS Scenarios

MCCodes == {"A", "B"}
MCLibrary == <<"A", "B">>
MCTemplates == <<<<1, 2>>, <<2>>>>
=============================================================================
