---------------------------- MODULE MCTwoRequests ----------------------------
(***************************************************************************)
(* The instance of GatewayCallers with two requests for one obligation and *)
(* two processes.                                                          *)
(***************************************************************************)
EXTENDS GatewayCallers, TLC

\* Processes are interchangeable, requests too.
FullSymmetry == Permutations(Procs) \cup Permutations(Requests)
=============================================================================
