--------------------------- MODULE MCLegacyRunner ---------------------------
(* Instances of LegacyRunner for TLC.                                      *)
EXTENDS LegacyRunner, TLC

Symmetry == Permutations(Runs)
=============================================================================
