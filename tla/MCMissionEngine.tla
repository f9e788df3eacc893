--------------------------- MODULE MCMissionEngine ---------------------------
(* Instances of MissionEngine for TLC.                                     *)
EXTENDS MissionEngine, TLC

\* The steps in the reverse of the order of the mission.
Chain == {[s \in Steps |-> Steps \cap {s + 1}]}

\* A fork, a join against the order of the mission, and a mission with a
\* cycle, which is refused.
Graphs ==
    {[s \in Steps |-> IF s = 2 THEN {} ELSE {2}],
     [s \in Steps |-> IF s = 1 THEN {2, 3} ELSE {}],
     [s \in Steps |-> IF s = 1 THEN {} ELSE {1, 5 - s}]}

Symmetry == Permutations(Procs)
=============================================================================
