----------------------------- MODULE MCRiskQuiz -----------------------------
(***************************************************************************)
(* One team with two phones; a pool of two stations and a pool of one that *)
(* share a station; two categories whose names may have one slug.          *)
(***************************************************************************)
EXTENDS RiskQuiz, TLC

MCTeams == {"t1"}
MCTeamOf == [p \in Phones |-> "t1"]
MCCategories == {"history", "sport"}
MCDifficulties == {"easy"}
MCCorrect == [d \in MCDifficulties |-> 10]
MCWrong == [d \in MCDifficulties |-> 5]
MCFirstPools == {<<"history", "easy", "s1">>, <<"history", "easy", "s2">>, <<"sport", "easy", "s1">>}
MCStations == {"s1", "s2"}

Symmetry == Permutations(Phones) \cup Permutations(Slugs)
=============================================================================
