--------------------------- MODULE SingleBroadcast ---------------------------
(***************************************************************************)
(* What the execution backend promises its caller, without processes,      *)
(* databases, RPC calls or crashes: a request is claimed under an          *)
(* authorization nobody else holds, then broadcast once, then perhaps      *)
(* applied by the cluster.  Nothing is undone and nothing is repeated.     *)
(***************************************************************************)
EXTENDS Naturals

CONSTANTS Requests, Auths, None

VARIABLES
    holder,  \* the authorization each request was claimed under
    sent,    \* how often its transaction was broadcast
    applied  \* requests whose transfer is final

absvars == <<holder, sent, applied>>

Init ==
    /\ holder = [r \in Requests |-> None]
    /\ sent = [r \in Requests |-> 0]
    /\ applied = {}

Claim(r, a) ==
    /\ holder[r] = None
    /\ \A q \in Requests : holder[q] # a
    /\ holder' = [holder EXCEPT ![r] = a]
    /\ UNCHANGED <<sent, applied>>

Broadcast(r) ==
    /\ holder[r] # None
    /\ sent[r] = 0
    /\ sent' = [sent EXCEPT ![r] = 1]
    /\ UNCHANGED <<holder, applied>>

Apply(r) ==
    /\ sent[r] = 1
    /\ applied' = applied \cup {r}
    /\ UNCHANGED <<holder, sent>>

Next == \E r \in Requests :
            \/ \E a \in Auths : Claim(r, a)
            \/ Broadcast(r)
            \/ Apply(r)

Spec == Init /\ [][Next]_absvars
=============================================================================
