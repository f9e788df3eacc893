--------------------------- MODULE GovernedMission ---------------------------
(***************************************************************************)
(* What the mission engine promises of a run, whoever starts and resumes   *)
(* it and whatever crashes: the run is bound to one mission once, an       *)
(* attempt of a step is executed at most once and only after everything    *)
(* the step depends on is done, and a step that is done, on account of an  *)
(* executed attempt, stays done.                                           *)
(***************************************************************************)
EXTENDS Naturals

CONSTANTS
    Steps,
    Attempts  \* the attempts <<step, number>>

VARIABLES
    accepted,  \* whether the run is bound to a mission
    needs,     \* dependencies of its steps
    done,      \* steps that succeeded
    executed   \* how often an attempt reached the executor

vars == <<accepted, needs, done, executed>>

Init ==
    /\ accepted = FALSE
    /\ needs = [s \in Steps |-> {}]
    /\ done = {}
    /\ executed = [k \in Attempts |-> 0]

Accept ==
    /\ ~accepted
    /\ accepted' = TRUE
    /\ needs' \in [Steps -> SUBSET Steps]
    /\ UNCHANGED <<done, executed>>

Execute(k) ==
    /\ executed[k] = 0
    /\ needs[k[1]] \subseteq done
    /\ executed' = [executed EXCEPT ![k] = 1]
    /\ UNCHANGED <<accepted, needs, done>>

Complete(s) ==
    /\ s \notin done
    /\ needs[s] \subseteq done
    /\ \E k \in Attempts : k[1] = s /\ executed[k] > 0
    /\ done' = done \cup {s}
    /\ UNCHANGED <<accepted, needs, executed>>

Next == Accept \/ (\E k \in Attempts : Execute(k)) \/ (\E s \in Steps : Complete(s))

Spec == Init /\ [][Next]_vars
=============================================================================
