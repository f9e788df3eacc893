-------------------------- MODULE GovernedCommand --------------------------
(***************************************************************************)
(* What the command journal promises of every command, whoever submits,    *)
(* approves, cancels, executes or recovers it, and whatever crashes:       *)
(* considered, permitted, started and executed in this order and each at   *)
(* most once; an ended command stays ended, one that was refused never     *)
(* reaches the executor, and success is only claimed of a command that     *)
(* did.                                                                    *)
(***************************************************************************)
EXTENDS Naturals

CONSTANT Keys

VARIABLES
    phase,   \* how far a command got
    begun,   \* commands whose start was recorded
    called   \* how often a command was handed to the executor

vars == <<phase, begun, called>>

Phases == {"unknown", "considered", "permitted", "started", "succeeded", "failed", "refused"}

Init ==
    /\ phase = [k \in Keys |-> "unknown"]
    /\ begun = {}
    /\ called = [k \in Keys |-> 0]

\* Command k moves from one of the phases "from" to the phase "to".
Step(k, from, to) ==
    /\ phase[k] \in from
    /\ phase' = [phase EXCEPT ![k] = to]
    /\ UNCHANGED called

Consider(k) == Step(k, {"unknown"}, "considered") /\ UNCHANGED begun
Permit(k) == Step(k, {"considered"}, "permitted") /\ UNCHANGED begun
Start(k) == Step(k, {"permitted"}, "started") /\ begun' = begun \cup {k}
Refuse(k) == Step(k, {"considered", "permitted"}, "refused") /\ UNCHANGED begun
Fail(k) == Step(k, {"considered", "permitted", "started"}, "failed") /\ UNCHANGED begun
Succeed(k) == called[k] > 0 /\ Step(k, {"started"}, "succeeded") /\ UNCHANGED begun

\* The executor is called for a command that was started, even when a
\* recovery has meanwhile given it up.
Call(k) ==
    /\ k \in begun
    /\ called[k] = 0
    /\ called' = [called EXCEPT ![k] = 1]
    /\ UNCHANGED <<phase, begun>>

Next == \E k \in Keys : \/ Consider(k) \/ Permit(k) \/ Start(k) \/ Refuse(k)
                        \/ Fail(k) \/ Succeed(k) \/ Call(k)

Spec == Init /\ [][Next]_vars
=============================================================================
