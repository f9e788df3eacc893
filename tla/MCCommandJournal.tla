-------------------------- MODULE MCCommandJournal --------------------------
(* Instances of CommandJournal for TLC.                                    *)
EXTENDS CommandJournal, TLC

Symmetry == Permutations(Procs) \cup Permutations(Keys)
=============================================================================
