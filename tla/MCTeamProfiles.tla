--------------------------- MODULE MCTeamProfiles ---------------------------
(***************************************************************************)
(* Two teams, a phone that customizes one of them; other clients ask for a *)
(* badge, or for a name and a badge, in both notations of the badge.       *)
(***************************************************************************)
EXTENDS TeamProfiles

MCTeams == {"t1", "t2"}
MCPhones == {"t1"}
MCTeamOf == [p \in MCPhones |-> p]
MCColors == <<"red", "blue">>
MCIcons == {"fox", "owl"}
MCNames == {"Turbo", "Ninja"}
MCInputs ==
  {[kind |-> "customize", name |-> Keep, color |-> Keep, badge |-> [icon |-> "fox", key |-> TRUE]],
   [kind |-> "claim", name |-> "Turbo", color |-> Keep, badge |-> [icon |-> "fox", key |-> FALSE]],
   [kind |-> "claim", name |-> "Ninja", color |-> "blue", badge |-> [icon |-> Keep, key |-> FALSE]]}
=============================================================================
