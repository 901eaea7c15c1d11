---------------------------- MODULE MCTeamTasks ----------------------------
(* Instances of TeamTasks for TLC: what the stations award. *)
EXTENDS TeamTasks, TLC

MCAwards == [s \in Stations |-> IF s \in DecayStations THEN {0, 1} ELSE {2}]
MCAdminAward == [s \in Stations |-> IF s \in DecayStations THEN 1 ELSE 2]
MCBonus == [s \in Stations |-> 1]

\* The slots are interchangeable in runs that check state properties only.
MCSymmetry == Permutations(Slots)
=============================================================================
