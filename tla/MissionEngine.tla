---------------------------- MODULE MissionEngine ----------------------------
(***************************************************************************)
(* The declarative mission engine, solana_agent/missions/engine.py: start, *)
(* resume and _drive of one run over the tables runs and mission_steps.    *)
(*                                                                         *)
(* Runtime processes share the database: while one drives the run, another *)
(* may resume it.  One action is one transaction, the reads of one         *)
(* decision, or the call of the executor; a process may end between any    *)
(* two of them.  A step is known by its position in the mission; a command *)
(* by its idempotency key, the step and the number of the attempt.  Of the *)
(* command journal (CommandJournal) the engine tells apart the statuses of *)
(* CommandStatus only: "planned" stands for planned, validating and        *)
(* authorized, "ended" for every unsuccessful end.                         *)
(***************************************************************************)
EXTENDS Naturals, FiniteSets

CONSTANTS
    Steps,        \* the steps of the mission, numbered in its order
    Missions,     \* dependency maps that mission packs hold
    Gated,        \* steps whose command the policy may want approved
    MaxAttempts,  \* bound on the attempts of a step
    MaxCommands,  \* bound on the commands of the run
    Procs,        \* runtime processes
    None          \* no step, no command

ASSUME StepsAreNumbers == Steps \subseteq Nat /\ IsFiniteSet(Steps)
ASSUME MissionsMapSteps == Missions \subseteq [Steps -> SUBSET Steps]
ASSUME BoundsAreNumbers == MaxAttempts \in Nat /\ MaxCommands \in Nat

\* The key of _command_spec.
Keys == Steps \X (1..MaxAttempts)

ASSUME NoneIsFresh == None \notin Steps \cup Keys

VARIABLES
    run,        \* runs.status
    dependsOn,  \* depends_on of the steps of the mission the run is bound to
    step,       \* mission_steps.status
    attempt,    \* mission_steps.attempt
    ref,        \* mission_steps.command_id
    command,    \* commands.status
    approval,   \* approvals.status of a command
    calls,      \* executor calls made for a command
    pc,         \* where each process is
    local       \* what it holds in its local variables

ledger == <<step, attempt, ref>>
journal == <<command, approval, calls>>
vars == <<run, dependsOn, ledger, journal, pc, local>>

RunStatus == {"none", "created", "running", "completed", "failed"}
StepStatus == {"none", "pending", "running", "waiting_approval", "succeeded", "failed", "blocked"}
CommandStatus == {"none", "planned", "approval_required", "running", "succeeded", "ended"}
ApprovalStatus == {"none", "pending", "approved", "closed"}

\* MISSION_STEP_TRANSITIONS.
Successors(s) ==
    CASE s = "pending" -> {"running", "failed", "blocked"}
      [] s = "running" -> {"waiting_approval", "succeeded", "failed"}
      [] s = "waiting_approval" -> {"succeeded", "failed"}
      [] s = "failed" -> {"running", "failed"}
      [] s = "blocked" -> {"running", "failed", "blocked"}
      [] OTHER -> {}

Locations == {"idle", "initializing", "starting", "recovering", "visiting", "depending",
              "blocking", "approving", "consuming", "preparing", "attempting", "planning",
              "judging", "waiting", "calling", "executing", "finishing", "closing"}

\* done: steps this pass is through with; step, waits, attempt: what it read
\* of the current one; key: the command at hand; succeeded: how the journal
\* returned it; final: the status for the run.
Job == [done : SUBSET Steps, step : Steps \cup {None}, waits : BOOLEAN,
        attempt : 0..MaxAttempts, key : Keys \cup {None},
        succeeded : BOOLEAN, final : RunStatus]

NoJob == [done |-> {}, step |-> None, waits |-> FALSE, attempt |-> 0,
          key |-> None, succeeded |-> FALSE, final |-> "none"]

TypeOK ==
    /\ run \in RunStatus
    /\ dependsOn \in [Steps -> SUBSET Steps]
    /\ step \in [Steps -> StepStatus]
    /\ attempt \in [Steps -> 0..MaxAttempts]
    /\ ref \in [Steps -> Keys \cup {None}]
    /\ command \in [Keys -> CommandStatus]
    /\ approval \in [Keys -> ApprovalStatus]
    /\ calls \in [Keys -> Nat]
    /\ pc \in [Procs -> Locations]
    /\ local \in [Procs -> Job]

Init ==
    /\ run = "none"
    /\ dependsOn = [s \in Steps |-> {}]
    /\ step = [s \in Steps |-> "none"]
    /\ attempt = [s \in Steps |-> 0]
    /\ ref = [s \in Steps |-> None]
    /\ command = [k \in Keys |-> "none"]
    /\ approval = [k \in Keys |-> "none"]
    /\ calls = [k \in Keys |-> 0]
    /\ pc = [p \in Procs |-> "idle"]
    /\ local = [p \in Procs |-> NoJob]

-----------------------------------------------------------------------------
(* The mission graph                                                       *)

\* The ready list of topological_steps, kept in the order of the mission, and
\* (as a set) its head, which comes next.
Ready(needs, done) == {s \in Steps \ done : needs[s] \subseteq done}
FirstOf(ready) == {s \in ready : \A t \in ready : s <= t}

\* Mutant of ValidGraph: what the loop could not order is left out.
SomeOrder(needs) == Ready(needs, {}) # {}

\* The loop of topological_steps ends with every step in the result.
ValidGraph(needs) ==
    LET result[n \in 0..Cardinality(Steps)] ==
            IF n = 0 THEN {}
            ELSE result[n - 1] \cup FirstOf(Ready(needs, result[n - 1]))
    IN  result[Cardinality(Steps)] = Steps

-----------------------------------------------------------------------------
(* Control                                                                 *)

Goto(p, l, job) ==
    /\ pc' = [pc EXCEPT ![p] = l]
    /\ local' = [local EXCEPT ![p] = job]

\* start or resume returns or raises.
Return(p) == Goto(p, "idle", NoJob)

\* The next step of the loop.
Continue(p) ==
    Goto(p, "visiting", [NoJob EXCEPT !.done = local[p].done \cup {local[p].step}])

\* set_mission_step_status: an illegal transition raises out of the engine,
\* a command_id that is not given stays.
SetStep(p, target, key) ==
    LET s == local[p].step
    IN  \/ /\ target \in Successors(step[s])
           /\ step' = [step EXCEPT ![s] = target]
           /\ ref' = IF key = None THEN ref ELSE [ref EXCEPT ![s] = key]
           /\ IF target = "waiting_approval" THEN Return(p) ELSE Continue(p)
        \/ /\ target \notin Successors(step[s])
           /\ Return(p)
           /\ UNCHANGED <<step, ref>>

-----------------------------------------------------------------------------
(* start and resume                                                        *)

\* start: the run is created with the hash of its mission, which every
\* resume has to present again.
Start(p, mission) ==
    /\ pc[p] = "idle"
    /\ run = "none"
    /\ ValidGraph(mission)
    /\ run' = "created"
    /\ dependsOn' = mission
    /\ Goto(p, "initializing", NoJob)
    /\ UNCHANGED <<ledger, journal>>

InitializeSteps(p) ==
    /\ pc[p] = "initializing"
    /\ step' = [s \in Steps |-> "pending"]
    /\ Goto(p, "starting", NoJob)
    /\ UNCHANGED <<run, dependsOn, attempt, ref, journal>>

\* Mutant of Resume: the ledger of the steps is set up anew.
ResumeAnew(p) ==
    /\ pc[p] = "idle"
    /\ run # "none"
    /\ Goto(p, "initializing", NoJob)
    /\ UNCHANGED <<run, dependsOn, ledger, journal>>

Resume(p) ==
    /\ pc[p] = "idle"
    /\ run # "none"
    /\ Goto(p, "recovering", NoJob)
    /\ UNCHANGED <<run, dependsOn, ledger, journal>>

\* recover_orphaned_commands interrupts running commands one by one, and
\* expires approvals.
Interrupt(p, k) ==
    /\ pc[p] = "recovering"
    /\ command[k] = "running"
    /\ command' = [command EXCEPT ![k] = "ended"]
    /\ UNCHANGED <<run, dependsOn, ledger, approval, calls, pc, local>>

EndRecovery(p) ==
    /\ pc[p] = "recovering"
    /\ Goto(p, "starting", NoJob)
    /\ UNCHANGED <<run, dependsOn, ledger, journal>>

BeginRun(p) ==
    /\ pc[p] = "starting"
    /\ run' = "running"
    /\ Goto(p, "visiting", NoJob)
    /\ UNCHANGED <<dependsOn, ledger, journal>>

-----------------------------------------------------------------------------
(* _drive: one step of the mission                                         *)

\* The record of the next step is read.
Visit(p) ==
    /\ pc[p] = "visiting"
    /\ \E s \in FirstOf(Ready(dependsOn, local[p].done)) :
          \/ step[s] = "none" /\ Return(p)
          \/ /\ step[s] = "succeeded"
             /\ Goto(p, "visiting", [local[p] EXCEPT !.done = @ \cup {s}])
          \/ /\ step[s] \notin {"none", "succeeded"}
             /\ Goto(p, "depending",
                     [local[p] EXCEPT !.step = s,
                                      !.waits = (step[s] = "waiting_approval"),
                                      !.attempt = attempt[s],
                                      !.key = IF step[s] = "waiting_approval" THEN ref[s] ELSE None])
    /\ UNCHANGED <<run, dependsOn, ledger, journal>>

\* The records of its dependencies are read.
CheckDependencies(p) ==
    LET found == {step[d] : d \in dependsOn[local[p].step]}
    IN  /\ pc[p] = "depending"
        /\ \/ found \cap {"failed", "blocked"} # {} /\ Goto(p, "blocking", local[p])
           \/ /\ found \cap {"failed", "blocked"} = {}
              /\ ~(found \subseteq {"succeeded"})
              /\ Return(p)
           \/ /\ found \subseteq {"succeeded"}
              /\ Goto(p, IF local[p].waits THEN "approving" ELSE "preparing",
                      local[p])
        /\ UNCHANGED <<run, dependsOn, ledger, journal>>

\* _block_step.
Block(p) ==
    /\ pc[p] = "blocking"
    /\ SetStep(p, "blocked", None)
    /\ UNCHANGED <<run, dependsOn, attempt, journal>>

\* A precondition or a template fails, or there is no adapter; or else the
\* key of the next attempt is computed.
Prepare(p) ==
    /\ pc[p] = "preparing"
    /\ \/ SetStep(p, "failed", None)
       \/ /\ local[p].attempt < MaxAttempts
          /\ Cardinality({k \in Keys : command[k] # "none"}) < MaxCommands
          /\ Goto(p, "attempting", [local[p] EXCEPT !.key = <<local[p].step, local[p].attempt + 1>>,
                                                   !.attempt = 0])
          /\ UNCHANGED <<step, ref>>
    /\ UNCHANGED <<run, dependsOn, attempt, journal>>

\* The step is set running, attempt and all.
BeginAttempt(p) ==
    LET s == local[p].step
    IN  /\ pc[p] = "attempting"
        /\ \/ /\ "running" \in Successors(step[s])
              /\ attempt[s] < MaxAttempts
              /\ step' = [step EXCEPT ![s] = "running"]
              /\ attempt' = [attempt EXCEPT ![s] = @ + 1]
              /\ Goto(p, "planning", local[p])
           \/ /\ "running" \notin Successors(step[s])
              /\ Return(p)
              /\ UNCHANGED <<step, attempt>>
        /\ UNCHANGED <<run, dependsOn, ref, journal>>

-----------------------------------------------------------------------------
(* The command of a step                                                   *)

\* The journal returned the command with this status.
Returned(p, status) ==
    Goto(p, IF status = "approval_required" THEN "waiting" ELSE "finishing",
         [local[p] EXCEPT !.succeeded = (status = "succeeded")])

\* CommandJournal.plan; a key that exists answers with its command.
Plan(p) ==
    LET k == local[p].key
    IN  /\ pc[p] = "planning"
        /\ \/ /\ command[k] = "none"
              /\ command' = [command EXCEPT ![k] = "planned"]
              /\ Goto(p, "judging", local[p])
           \/ /\ command[k] # "none"
              /\ Returned(p, command[k])
              /\ UNCHANGED command
        /\ UNCHANGED <<run, dependsOn, ledger, approval, calls>>

\* The policy decision is applied to the command.
Judge(p) ==
    LET k == local[p].key
    IN  /\ pc[p] = "judging"
        /\ \/ /\ command' = [command EXCEPT ![k] = "ended"]
              /\ Returned(p, "ended")
              /\ UNCHANGED approval
           \/ /\ k[1] \in Gated
              /\ command' = [command EXCEPT ![k] = "approval_required"]
              /\ approval' = [approval EXCEPT ![k] = "pending"]
              /\ Returned(p, "approval_required")
           \/ /\ command' = [command EXCEPT ![k] = "running"]
              /\ Goto(p, "calling", local[p])
              /\ UNCHANGED approval
        /\ UNCHANGED <<run, dependsOn, ledger, calls>>

CallExecutor(p) ==
    /\ pc[p] = "calling"
    /\ calls' = [calls EXCEPT ![local[p].key] = @ + 1]
    /\ Goto(p, "executing", local[p])
    /\ UNCHANGED <<run, dependsOn, ledger, command, approval>>

\* The executor returns and its result is recorded, unless a recovery has
\* interrupted the command.
RecordResult(p) ==
    LET k == local[p].key
    IN  /\ pc[p] = "executing"
        /\ \/ command[k] # "running" /\ Return(p) /\ UNCHANGED command
           \/ /\ command[k] = "running"
              /\ \E result \in {"succeeded", "ended"} :
                    /\ command' = [command EXCEPT ![k] = result]
                    /\ Returned(p, result)
        /\ UNCHANGED <<run, dependsOn, ledger, approval, calls>>

\* The command waits for an approval, and so does the step.
AwaitApproval(p) ==
    /\ pc[p] = "waiting"
    /\ SetStep(p, "waiting_approval", local[p].key)
    /\ UNCHANGED <<run, dependsOn, attempt, journal>>

\* Mutant of Finish: the acceptance checks alone decide.
FinishUnchecked(p) ==
    /\ pc[p] = "finishing"
    /\ \E target \in {"succeeded", "failed"} : SetStep(p, target, local[p].key)
    /\ UNCHANGED <<run, dependsOn, attempt, journal>>

\* _finish_step; the acceptance checks may fail.
Finish(p) ==
    /\ pc[p] = "finishing"
    /\ \E target \in {"succeeded", "failed"} :
          /\ target = "succeeded" => local[p].succeeded
          /\ SetStep(p, target, local[p].key)
    /\ UNCHANGED <<run, dependsOn, attempt, journal>>

-----------------------------------------------------------------------------
(* _resume_approval                                                        *)

\* The command and the approval of the record are read; while the approval
\* is pending the run waits.
ReadApproval(p) ==
    /\ pc[p] = "approving"
    /\ IF local[p].key = None \/ approval[local[p].key] = "pending"
       THEN Return(p)
       ELSE Goto(p, "consuming", local[p])
    /\ UNCHANGED <<run, dependsOn, ledger, journal>>

\* Mutant of ExecuteApproved: the status of the command is not looked at.
ExecuteUnchecked(p) ==
    LET k == local[p].key
    IN  /\ pc[p] = "consuming"
        /\ command' = [command EXCEPT ![k] = "running"]
        /\ Goto(p, "calling", local[p])
        /\ UNCHANGED <<run, dependsOn, ledger, approval, calls>>

\* execute_approved: the approval is consumed and the command set running,
\* or it is rejected.
ExecuteApproved(p) ==
    LET k == local[p].key
    IN  /\ pc[p] = "consuming"
        /\ \/ /\ command[k] # "approval_required"
              /\ Return(p)
              /\ UNCHANGED <<command, approval>>
           \/ /\ command[k] = "approval_required"
              /\ command' = [command EXCEPT ![k] = "ended"]
              /\ Returned(p, "ended")
              /\ UNCHANGED approval
           \/ /\ command[k] = "approval_required"
              /\ approval[k] = "approved"
              /\ command' = [command EXCEPT ![k] = "running"]
              /\ approval' = [approval EXCEPT ![k] = "closed"]
              /\ Goto(p, "calling", local[p])
        /\ UNCHANGED <<run, dependsOn, ledger, calls>>

-----------------------------------------------------------------------------
(* The end of a pass                                                       *)

\* All records are read again.
ReadSteps(p) ==
    /\ pc[p] = "visiting"
    /\ Ready(dependsOn, local[p].done) = {}
    /\ Goto(p, "closing",
            [local[p] EXCEPT !.final = IF \E s \in Steps : step[s] \in {"failed", "blocked"}
                                       THEN "failed" ELSE "completed"])
    /\ UNCHANGED <<run, dependsOn, ledger, journal>>

CloseRun(p) ==
    /\ pc[p] = "closing"
    /\ run' = local[p].final
    /\ Return(p)
    /\ UNCHANGED <<dependsOn, ledger, journal>>

-----------------------------------------------------------------------------
(* The operator, the clock and failures                                    *)

\* An approval is decided, or expires.
DecideApproval(k) ==
    /\ \/ approval[k] = "pending" /\ approval' = [approval EXCEPT ![k] = "approved"]
       \/ approval[k] \in {"pending", "approved"} /\ approval' = [approval EXCEPT ![k] = "closed"]
    /\ UNCHANGED <<run, dependsOn, ledger, command, calls, pc, local>>

\* The process is killed, or an exception ends it.
Die(p) ==
    /\ pc[p] # "idle"
    /\ Return(p)
    /\ UNCHANGED <<run, dependsOn, ledger, journal>>

-----------------------------------------------------------------------------

Enter(p) == InitializeSteps(p) \/ EndRecovery(p) \/ BeginRun(p) \/ \E k \in Keys : Interrupt(p, k)

Drive(p) == \/ Visit(p) \/ CheckDependencies(p) \/ Block(p) \/ Prepare(p) \/ BeginAttempt(p)
            \/ AwaitApproval(p) \/ Finish(p) \/ ReadApproval(p) \/ ReadSteps(p) \/ CloseRun(p)

Govern(p) == Plan(p) \/ Judge(p) \/ CallExecutor(p) \/ RecordResult(p) \/ ExecuteApproved(p)

Next ==
    \/ \E p \in Procs :
          \/ \E mission \in Missions : Start(p, mission)
          \/ Resume(p)
          \/ Enter(p) \/ Drive(p) \/ Govern(p)
          \/ Die(p)
    \/ \E k \in Keys : DecideApproval(k)

Spec == Init /\ [][Next]_vars

-----------------------------------------------------------------------------
(* Properties                                                              *)

\* The steps a step waits for are done, whoever retries, resumes or
\* recovers: the executor is never called for a step one of whose
\* dependencies has not succeeded.
DependenciesFirst ==
    \A k \in Keys : calls[k] > 0 => \A d \in dependsOn[k[1]] : step[d] = "succeeded"

\* However many passes over the run race, and wherever they end, an attempt
\* of a step reaches the executor at most once.
AttemptExecutedOnce == \A k \in Keys : calls[k] <= 1

\* A step is only said to have succeeded on account of a command of its own
\* that was executed and recorded as a success.
SuccessIsBacked ==
    \A s \in Steps :
        step[s] = "succeeded" => /\ ref[s] # None
                                 /\ ref[s][1] = s
                                 /\ command[ref[s]] = "succeeded"
                                 /\ calls[ref[s]] > 0

\* "Succeeded steps are terminal and never execute again during resume."
SucceededIsTerminal ==
    [][\A s \in Steps :
          step[s] = "succeeded" => /\ step'[s] = "succeeded"
                                   /\ \A k \in Keys : k[1] = s => calls'[k] = calls[k]]_vars

\* A run that is reported as completed has no step that is unfinished: none
\* that the order of topological_steps left out, and none that a pass left
\* behind.
CompletedRunIsDone ==
    run = "completed" => \A s \in Steps : step[s] = "succeeded"

\* Locations of a pass that is past the dependencies of its step, of one
\* that holds a command of the journal, and of the one that executes it.
Governing == {"consuming", "judging", "waiting", "calling", "executing", "finishing"}
Working == Governing \cup {"approving", "preparing", "attempting", "planning"}
Owning == {"judging", "calling", "executing"}

NeedsMet(s) == \A d \in dependsOn[s] : step[d] = "succeeded"

\* Steps exist once the run is bound to its mission, and nothing of a step
\* gets ahead of its dependencies.
GraphInv ==
    /\ run = "none" => /\ \A s \in Steps : step[s] = "none"
                       /\ \A p \in Procs : pc[p] = "idle"
    /\ \A s \in Steps : step[s] \notin {"none", "pending", "blocked"} => NeedsMet(s)
    /\ \A k \in Keys : command[k] # "none" => step[k[1]] # "none" /\ NeedsMet(k[1])

\* The ledger of the steps agrees with the journal of the commands.
RecordsInv ==
    /\ \A s \in Steps : ref[s] # None => ref[s][1] = s /\ command[ref[s]] # "none"
    /\ \A s \in Steps : step[s] = "succeeded" => ref[s] # None /\ command[ref[s]] = "succeeded"
    /\ \A k \in Keys : command[k] = "succeeded" => calls[k] > 0
    /\ \A k \in Keys : command[k] \in {"none", "planned", "approval_required"} => calls[k] = 0
    /\ \A k \in Keys : calls[k] <= 1

\* What holds of a pass at location l.
PassOK(l, job) ==
    /\ l = "initializing" => run # "none" /\ \A s \in Steps : step[s] = "none"
    /\ l \in Working \cup {"depending", "blocking"} => job.step \in Steps /\ step[job.step] # "none"
    /\ l \in Working => NeedsMet(job.step)
    /\ l \in Governing \cup {"attempting", "planning"} => job.key # None
    /\ job.key # None => job.key[1] = job.step
    /\ l \in Governing \cup {"depending", "approving"} /\ job.key # None => command[job.key] # "none"
    /\ l = "judging" => command[job.key] = "planned"
    /\ l \in {"calling", "executing"} => command[job.key] \in {"running", "ended"}
    /\ l = "calling" => calls[job.key] = 0
    /\ l = "executing" => calls[job.key] = 1
    /\ l = "finishing" /\ job.succeeded => command[job.key] = "succeeded"
    /\ l = "closing" => job.final # "none"

\* One process sets the run up, and one executes a command.
PassesInv ==
    /\ \A p \in Procs : PassOK(pc[p], local[p])
    /\ \A p, q \in Procs : pc[p] = "initializing" /\ pc[q] = "initializing" => p = q
    /\ \A p, q \in Procs :
          pc[p] \in Owning /\ pc[q] \in Owning /\ local[p].key = local[q].key => p = q

\* The inductive invariant behind DependenciesFirst, AttemptExecutedOnce,
\* SuccessIsBacked and the refinement.
MissionInv == GraphInv /\ RecordsInv /\ PassesInv

\* The engine keeps the promise of GovernedMission.
Mission == INSTANCE GovernedMission WITH
    Attempts <- Keys,
    accepted <- run # "none",
    needs <- dependsOn,
    done <- {s \in Steps : step[s] = "succeeded"},
    executed <- calls

ImplementsGovernedMission == Mission!Spec
=============================================================================
