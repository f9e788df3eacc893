-------------------------- MODULE MCGatewayJournal --------------------------
(* Instances of GatewayJournal for TLC.                                    *)
EXTENDS GatewayJournal, TLC

ProcSymmetry == Permutations(Procs)

AllSymmetry == Permutations(Procs) \cup Permutations(Inputs) \cup Permutations(Ids)
=============================================================================
