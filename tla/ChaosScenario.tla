---------------------------- MODULE ChaosScenario ----------------------------
(***************************************************************************)
(* The scenarios of gateway/chaos_scenario.py as clients of the gateway:   *)
(* each starts gateway processes, sends them requests over JSONL, kills    *)
(* them at a point of gateway/chaos.py, and puts a fault into the RPC      *)
(* proxy.  The scenario "any" is no script: two callers who ask and repeat *)
(* what they like, with every fault of GatewaySystem.                      *)
(***************************************************************************)
EXTENDS GatewaySystem, Sequences

CONSTANTS
    exec,              \* the request and the plan of _prepare_fixture
    economic_plan,
    auth,
    first, second,  \* gateway processes
    gw_prepare, gw_execute, gw_execute_competing, gw_status, gw_recover, gw_evidence,
    Scenarios,      \* the scenarios of this instance
    MaxAsked        \* bound: requests asked in the scenario "any"

ScenarioNames ==
    {"kill_before_broadcast", "kill_after_broadcast_intent", "kill_during_send_transaction",
     "response_lost_after_acceptance", "definitive_rejection", "not_found_after_expiry",
     "replay_after_restart", "concurrent_gateways"}

ASSUME ScenariosAssumption == Scenarios \subseteq ScenarioNames \cup {"any"}

\* The harness uses an id twice only where it replays a request, and its
\* cluster is one emulated node, which rolls nothing back.
ASSUME FixtureAssumption ==
    /\ exec \in Requests /\ auth \in Auths /\ economic_plan \in E!Plans
    /\ {first, second} \subseteq Procs /\ first # second
    /\ {gw_prepare, gw_execute, gw_execute_competing, gw_status, gw_recover, gw_evidence} \subseteq Ids
    /\ gw_prepare \notin {gw_execute, gw_execute_competing, gw_status, gw_recover, gw_evidence}
    /\ gw_execute \notin {gw_execute_competing, gw_status, gw_recover, gw_evidence}
    /\ gw_execute_competing \notin {gw_status, gw_recover, gw_evidence}
    /\ ForksPossible = FALSE

VARIABLES
    scenario,  \* the scenario that runs
    stage,     \* its stage; in "any", also counts the requests
    begun      \* the calls of this stage that a gateway has read

chaosVars == <<vars, scenario, stage, begun>>

Asked(cmd) == [cmd |-> cmd, req |-> exec,
               plan |-> IF cmd = "prepare" THEN economic_plan ELSE None,
               auth |-> IF cmd = "authorize-and-execute" THEN auth ELSE None]

\* What the callers of the scenario "any" may put under which id: the one of
\* the first gateway executes and repeats its request, the other one repeats
\* it, too, or competes with it, or recovers.
Menu(p) ==
    LET again == <<gw_execute, Asked("authorize-and-execute")>>
    IN  IF p = first
        THEN {again}
        ELSE {again, <<gw_execute_competing, Asked("authorize-and-execute")>>,
              <<gw_recover, Asked("recover")>>}

-----------------------------------------------------------------------------
(* Scripts                                                                 *)

\* A request written to a gateway that is killed when its backend stands at
\* killAt; the locations are the kill points of gateway/chaos.py.
Call(p, id, cmd, killAt) == [proc |-> p, id |-> id, input |-> Asked(cmd), killAt |-> killAt]

\* Calls that are made together, the proxy's mode for sendTransaction, and
\* whether the block height is past the last valid one and the node answers
\* getSignatureStatuses with null.
Stage(calls, send, expired) == [calls |-> calls, send |-> send, expired |-> expired]

Alone(id, cmd, killAt, send) == Stage({Call(first, id, cmd, killAt)}, send, FALSE)

Prepared == Alone(gw_prepare, "prepare", "never", "pass")
Execute(killAt, send) == Alone(gw_execute, "authorize-and-execute", killAt, send)
Recovered == Alone(gw_recover, "recover", "never", "pass")

\* The stages of run_scenario, after _prepare_fixture.
ScriptOf(s) ==
    <<Prepared>> \o
    CASE s = "kill_before_broadcast" ->
            <<Execute("validated", "pass"), Alone(gw_status, "status", "never", "pass")>>
      [] s = "kill_after_broadcast_intent" -> <<Execute("claimed", "pass"), Recovered>>
      [] s = "kill_during_send_transaction" ->
            <<Execute("unknown", "drop_after_upstream"), Recovered>>
      [] s = "response_lost_after_acceptance" ->
            <<Execute("never", "drop_after_upstream"), Recovered>>
      [] s = "definitive_rejection" ->
            <<Execute("never", "reject_before_forward"),
              Alone(gw_evidence, "evidence", "never", "pass")>>
      [] s = "not_found_after_expiry" ->
            <<Execute("never", "drop_before_forward"), [Recovered EXCEPT !.expired = TRUE]>>
      [] s = "replay_after_restart" ->
            <<Execute("never", "drop_after_upstream"), Execute("never", "drop_after_upstream")>>
      [] s = "concurrent_gateways" ->
            <<Stage({Call(first, gw_execute, "authorize-and-execute", "never"),
                     Call(second, gw_execute_competing, "authorize-and-execute", "never")},
                    "pass", FALSE)>>
      [] OTHER -> <<>>

Scripts == [s \in Scenarios |-> ScriptOf(s)]
Script == Scripts[scenario]

Ended == stage > Len(Script)
Scripted == ~Ended
Now == Script[stage]

\* A gateway reads a call of the stage, once the height is what the stage asks for.
MayRead(p, i, input) ==
    IF Scripted
    THEN /\ Now.expired => exec \in stale
         /\ UNCHANGED stage
         /\ \E c \in Now.calls \ begun :
               /\ <<c.proc, c.id, c.input>> = <<p, i, input>>
               /\ begun' = begun \cup {c}
    ELSE /\ scenario = "any"
         /\ <<i, input>> \in Menu(p)
         /\ stage <= MaxAsked + 1
         /\ stage = 2 => p = first
         /\ stage' = stage + 1
         /\ UNCHANGED begun

AtKillPoint(p) == \E c \in begun : c.proc = p /\ c.id = jlocal[p].id /\ c.killAt = epc[p]

\* The node's answers as the proxy lets them through: what becomes of a
\* sendTransaction, and what it answers for an unknown signature.
Proxied(p) ==
    /\ epc[p] = "claimed" =>
          <<epc'[p], chain'[exec]>> =
             CASE Now.send = "pass" -> <<"answered", "pending">>
               [] Now.send = "drop_after_upstream" -> <<"unknown", "pending">>
               [] Now.send = "reject_before_forward" -> <<"rejected", "unsent">>
               [] Now.send = "drop_before_forward" -> <<"unknown", "unsent">>
    /\ epc[p] = "querying" /\ Now.expired => elocal'[p].value = "null"

\* The harness puts its faults into the processes and the proxy only: SQLite
\* works.
StorageWorks(p) ==
    /\ jpc[p] = "completing" => jpc'[p] # "failing"
    /\ epc[p] = "answered" => epc'[p] # "unknown"

GatewayStep(p) ==
    IF Scripted
    THEN \/ Step(p) /\ ~AtKillPoint(p) /\ Proxied(p) /\ StorageWorks(p)
         \/ AtKillPoint(p) /\ Die(p)
    ELSE scenario = "any" /\ (Step(p) \/ MethodRaises(p) \/ Die(p))

\* The fixture's plan does not run out of time; the height grows when a script
\* sets it, and in "any" at will.
World == /\ Environment(exec)
         /\ late' = late
         /\ Scripted => (stale' # stale => Now.expired)

\* All gateways of the stage have answered or died; the next one begins.
NextStage ==
    /\ Scripted
    /\ begun = Now.calls
    /\ \A p \in Procs : jpc[p] = "idle"
    /\ stage' = stage + 1
    /\ begun' = {}
    /\ UNCHANGED <<vars, scenario>>

\* The harness reports and ends.
Report == Ended /\ (scenario = "any" => stage > MaxAsked + 1) /\ UNCHANGED chaosVars

ChaosInit == Init /\ scenario \in Scenarios /\ stage = 1 /\ begun = {}

ChaosNext ==
    \/ \E p \in Procs, i \in Ids, input \in Inputs :
          MayRead(p, i, input) /\ ReadRequest(p, i, input) /\ UNCHANGED scenario
    \/ \E p \in Procs : GatewayStep(p) /\ UNCHANGED <<scenario, stage, begun>>
    \/ World /\ UNCHANGED <<scenario, stage, begun>>
    \/ NextStage
    \/ Report

ChaosSpec == ChaosInit /\ [][ChaosNext]_chaosVars

-----------------------------------------------------------------------------
(* What docs/chaos-testing.md expects of each scenario                     *)

Responses(ids) == {rows[i].response : i \in ids}
Broadcasts(n) == sends[exec] = n
MayRematerialize == \E v \in verdicts : v.remat

\* A scenario ends with the number of sendTransaction calls, the durable
\* state and the answers it was written for, and offers rematerialization
\* only when the node has reported the failure of the transaction.
ScenariosEndAsDocumented ==
    Ended /\ scenario # "any" =>
      /\ MayRematerialize => chain[exec] \in {"reverted", "failed"}
      /\ CASE scenario = "kill_before_broadcast" ->
                Broadcasts(0) /\ attempt[exec].state = "none" /\ rows[gw_execute].response = "none"
           [] scenario = "kill_after_broadcast_intent" ->
                Broadcasts(0) /\ attempt[exec].state = "needs_recovery"
           [] scenario = "kill_during_send_transaction" ->
                Broadcasts(1) /\ rows[gw_execute].response = "none"
           [] scenario = "response_lost_after_acceptance" ->
                Broadcasts(1) /\ reason[gw_execute] = "uncertain"
           [] scenario = "definitive_rejection" ->
                /\ Broadcasts(1) /\ attempt[exec].state = "failed"
                /\ reason[gw_execute] = "rejected" /\ rows[gw_evidence].response = "result"
           [] scenario = "not_found_after_expiry" ->
                Broadcasts(1) /\ attempt[exec].state = "needs_recovery" /\ attempt[exec].obs = "null"
           [] scenario = "replay_after_restart" ->
                /\ Broadcasts(1)
                /\ {a.replayed : a \in {a \in printed : a.id = gw_execute}} = BOOLEAN
           [] scenario = "concurrent_gateways" ->
                /\ Broadcasts(1)
                /\ Responses({gw_execute, gw_execute_competing}) = {"result", "error"}
=============================================================================
