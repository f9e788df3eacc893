------------------------- MODULE MCGatewayExecution -------------------------
(***************************************************************************)
(* Instances of GatewayExecution for TLC.                                  *)
(***************************************************************************)
EXTENDS GatewayExecution, TLC

\* Nothing depends on whether a failure before the broadcast was told, and no
\* property of the run of races looks at it.
Told == {v \in verdicts : v.remat \/ v.outcome # "failed_before_broadcast"}
RacesView == <<prep, attempt, late, stale, chain, sends, pc, local, Told>>

\* Processes are interchangeable, requests and authorizations too.
ProcSymmetry == Permutations(Procs)
FullSymmetry == ProcSymmetry \cup Permutations(Requests)
=============================================================================
