------------------------------ MODULE OneAnswer ------------------------------
(***************************************************************************)
(* What the gateway journal promises the caller of the gateway, without    *)
(* processes, transactions or crashes: the first request that uses an id   *)
(* owns it, is handed to the backend at most once, gets at most one        *)
(* answer, and every caller of the id is told that answer or none.         *)
(***************************************************************************)
EXTENDS Naturals

CONSTANTS Ids, Inputs, Answers, None

VARIABLES
    owner,   \* the input that owns each id
    calls,   \* backend calls made for each id
    answer,  \* the answer each id ended with, "none" before
    told     \* answers given to callers

absvars == <<owner, calls, answer, told>>

Init ==
    /\ owner = [i \in Ids |-> None]
    /\ calls = [i \in Ids |-> 0]
    /\ answer = [i \in Ids |-> "none"]
    /\ told = {}

Accept(i, input) ==
    /\ owner[i] = None
    /\ owner' = [owner EXCEPT ![i] = input]
    /\ UNCHANGED <<calls, answer, told>>

Call(i) ==
    /\ owner[i] # None
    /\ calls[i] = 0
    /\ calls' = [calls EXCEPT ![i] = 1]
    /\ UNCHANGED <<owner, answer, told>>

Decide(i, a) ==
    /\ calls[i] = 1
    /\ answer[i] = "none"
    /\ answer' = [answer EXCEPT ![i] = a]
    /\ UNCHANGED <<owner, calls, told>>

Tell(i) ==
    /\ answer[i] # "none"
    /\ told' = told \cup {[id |-> i, input |-> owner[i], kind |-> answer[i]]}
    /\ UNCHANGED <<owner, calls, answer>>

Next == \E i \in Ids :
            \/ \E input \in Inputs : Accept(i, input)
            \/ Call(i)
            \/ \E a \in Answers : Decide(i, a)
            \/ Tell(i)

Spec == Init /\ [][Next]_absvars
=============================================================================
