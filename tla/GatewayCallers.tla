--------------------------- MODULE GatewayCallers ---------------------------
(***************************************************************************)
(* How the execution backend is called, in two settings.  In the quiet one *)
(* handlers do not overlap, blocks are not rolled back, and the caller     *)
(* prepares an obligation again only after may_rematerialize; the          *)
(* authority may issue a second authorization.  In the busy one handlers   *)
(* interleave, blocks roll back and the caller waits for nothing;          *)
(* preparations run out there by block height alone, wall clock expiry     *)
(* being part of the quiet setting.                                        *)
(***************************************************************************)
EXTENDS GatewayExecution

CONSTANT Spare   \* the second authorization, of the quiet setting only

VARIABLE quiet

\* No handler starts while another is under way, not even one that only
\* expires a preparation and raises.
OneAtATime ==
    /\ \A p, q \in Procs : pc'[p] # "idle" /\ pc'[q] # "idle" => p = q
    /\ prep' # prep /\ pc' = pc => \A p \in Procs : pc[p] = "idle"

\* A processed transaction stays in its block.
NoRollback == \A r \in Requests : chain[r] \in {"processed", "reverted"} => chain'[r] # "pending"

QuietOrBusy ==
    /\ UNCHANGED quiet
    /\ IF quiet
       THEN OneAtATime /\ NoRollback /\ CallerDiscipline
       ELSE UNCHANGED late /\ \A p \in Procs : local'[p].auth # Spare

TwoRequests == Init /\ quiet \in BOOLEAN /\ [][Next /\ QuietOrBusy]_<<vars, quiet>>

\* When recover allows rematerialization, the transaction it speaks of can not
\* become a transfer, as long as no other handler is under way.
QuietRematerialization == quiet => NoRematerializationUnderUncertainty

\* Nobody is told failed_before_broadcast of a request that was sent, as long
\* as no other handler is under way.  (An answer changes nothing but the
\* history, so that it is enough to look at the first of its kind.)
QuietFailedBeforeBroadcast ==
    [][quiet => \A v \in verdicts' \ verdicts :
          v.outcome = "failed_before_broadcast" => sends[v.req] = 0]_vars

\* An obligation is settled at most once by a caller that waits for
\* may_rematerialize, whatever is lost, dies or expires.
QuietSettlement == quiet => OneTransferPerObligation

\* Without an observer that overlaps it, a final observation stays.
QuietTerminalObservation ==
    [][quiet => \A r \in Requests :
          attempt[r].state \in Final => attempt'[r].state = attempt[r].state]_vars

\* The claim binds a preparation that is still active when it commits, as long
\* as nobody expires it between the validation and the claim.
QuietClaim ==
    [][quiet => \A r \in Requests :
          attempt[r].state = "none" /\ attempt'[r].state # "none"
          => prep[r].state = "prepared"]_vars
=============================================================================
