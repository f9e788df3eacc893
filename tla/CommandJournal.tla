--------------------------- MODULE CommandJournal ---------------------------
(***************************************************************************)
(* The governed command journal of the runtime: execute, execute_approved, *)
(* plan, validate, cancel and recover_orphaned_commands of                 *)
(* solana_agent/execution/journal.py over the tables commands,             *)
(* policy_decisions, approvals and artifacts, and the approval service of  *)
(* solana_agent/authority/approvals.py.                                    *)
(*                                                                         *)
(* Several runtime processes and the operator's command line share one     *)
(* SQLite file.  One action is one transaction (or the call of the         *)
(* executor); a process may be killed between any two of them, and a       *)
(* transaction may be refused.  A command is named by its idempotency key, *)
(* which the table keeps unique, and has at most one policy decision and   *)
(* one approval.                                                           *)
(***************************************************************************)
EXTENDS Naturals

CONSTANTS
    Keys,   \* idempotency keys, one command each
    Procs,  \* runtime processes
    None    \* a process that works on no command

ASSUME NoneIsNoKey == None \notin Keys

VARIABLES
    status,     \* commands.status, "none" before the row exists
    started,    \* commands whose started_at is set
    policy,     \* effect of the row in policy_decisions
    approval,   \* approvals.status
    bound,      \* commands whose approval_id is set
    lapsed,     \* approvals whose expires_at has passed
    artifacts,  \* stream artifacts stored for a command
    calls,      \* executor calls made for a command
    outcome,    \* how the executor's call ended
    pc,         \* where each process is
    local       \* what it holds in its local variables

command == <<status, started>>
authority == <<policy, approval, bound, lapsed>>
execution == <<artifacts, calls, outcome>>
vars == <<status, started, policy, approval, bound, lapsed,
          artifacts, calls, outcome, pc, local>>

\* COMMAND_STATUS_TRANSITIONS.
Terminal == {"succeeded", "failed", "rejected", "cancelled", "interrupted", "timed_out"}
Status == Terminal \cup {"none", "planned", "validating", "approval_required",
                         "authorized", "running"}

Successors(s) ==
    CASE s = "planned" -> {"validating", "cancelled"}
      [] s = "validating" -> {"approval_required", "authorized", "rejected", "failed", "cancelled"}
      [] s = "approval_required" -> {"authorized", "rejected", "cancelled"}
      [] s = "authorized" -> {"running", "failed", "cancelled"}
      [] s = "running" -> {"succeeded", "failed", "interrupted", "timed_out"}
      [] OTHER -> {}

Effects == {"allow", "deny", "require_approval"}
ApprovalStatus == {"none", "pending", "approved", "denied", "expired", "consumed"}

\* The executor returns exit code zero or another, or raises.
Results == {"zero", "nonzero", "timeout", "interrupt", "exception"}

Locations == {"idle", "planned", "validating", "decided", "requested", "authorized",
              "running", "executing", "stdout", "stderr", "recording", "failing",
              "approving", "refusing", "consuming", "consumed", "expiring", "interrupting"}

\* guarded: an exception is caught by the except clause of execute;
\* todo: the rows a loop of the recovery still has to visit.
Job == [key : Keys \cup {None}, cmd : {"none", "execute", "validate", "approved", "recover"},
        effect : Effects \cup {"none"}, guarded : BOOLEAN,
        result : Results \cup {"none"}, todo : SUBSET Keys]

NoJob == [key |-> None, cmd |-> "none", effect |-> "none", guarded |-> FALSE,
          result |-> "none", todo |-> {}]

TypeOK ==
    /\ status \in [Keys -> Status]
    /\ started \subseteq Keys
    /\ policy \in [Keys -> Effects \cup {"none"}]
    /\ approval \in [Keys -> ApprovalStatus]
    /\ bound \subseteq Keys
    /\ lapsed \subseteq Keys
    /\ artifacts \in [Keys -> SUBSET {"stdout", "stderr"}]
    /\ calls \in [Keys -> Nat]
    /\ outcome \in [Keys -> Results \cup {"none"}]
    /\ pc \in [Procs -> Locations]
    /\ local \in [Procs -> Job]

Init ==
    /\ status = [k \in Keys |-> "none"]
    /\ started = {}
    /\ policy = [k \in Keys |-> "none"]
    /\ approval = [k \in Keys |-> "none"]
    /\ bound = {}
    /\ lapsed = {}
    /\ artifacts = [k \in Keys |-> {}]
    /\ calls = [k \in Keys |-> 0]
    /\ outcome = [k \in Keys |-> "none"]
    /\ pc = [p \in Procs |-> "idle"]
    /\ local = [p \in Procs |-> NoJob]

-----------------------------------------------------------------------------
(* Handlers and transitions                                                *)

Continue(p, l, job) ==
    /\ pc' = [pc EXCEPT ![p] = l]
    /\ local' = [local EXCEPT ![p] = job]

Return(p) == Continue(p, "idle", NoJob)

\* Process p goes on at location l, or is done when l is "idle".
Goto(p, l) == IF l = "idle" THEN Return(p) ELSE Continue(p, l, local[p])

\* An exception: the except clause of execute catches it once, elsewhere it
\* leaves the journal.
Raise(p) ==
    IF local[p].guarded
    THEN Continue(p, "failing", [local[p] EXCEPT !.guarded = FALSE])
    ELSE Return(p)

CanMove(k, target) == target \in Successors(status[k])

Move(k, target) ==
    /\ status' = [status EXCEPT ![k] = target]
    /\ started' = IF target = "running" THEN started \cup {k} ELSE started

\* transition_command: check of the transition and UPDATE in one transaction.
Transition(p, target, l) ==
    \/ CanMove(local[p].key, target) /\ Move(local[p].key, target) /\ Goto(p, l)
    \/ ~CanMove(local[p].key, target) /\ Raise(p) /\ UNCHANGED command

-----------------------------------------------------------------------------
(* plan, validate and the decision of execute                              *)

\* execute up to plan.  For a key that exists, found by the lookup or by the
\* failing INSERT, the existing command is returned and nothing changes.
Plan(p, k) ==
    /\ pc[p] = "idle"
    /\ status[k] = "none"
    /\ Move(k, "planned")
    /\ Continue(p, "planned", [NoJob EXCEPT !.key = k, !.cmd = "execute"])
    /\ UNCHANGED <<authority, execution>>

\* The try block of execute begins after this transition.
BeginValidation(p) ==
    /\ pc[p] = "planned"
    /\ \/ /\ CanMove(local[p].key, "validating")
          /\ Move(local[p].key, "validating")
          /\ Continue(p, "validating", [local[p] EXCEPT !.guarded = TRUE])
       \/ /\ ~CanMove(local[p].key, "validating")
          /\ Return(p)
          /\ UNCHANGED command
    /\ UNCHANGED <<authority, execution>>

\* validate, called by itself for a planned command.
Validate(p, k) ==
    /\ pc[p] = "idle"
    /\ CanMove(k, "validating")
    /\ Move(k, "validating")
    /\ \E e \in Effects :
          Continue(p, "decided", [NoJob EXCEPT !.key = k, !.cmd = "validate", !.effect = e])
    /\ UNCHANGED <<authority, execution>>

\* A validator's or the caller's decision, or the default deny; applied
\* outside the try block.
Consult(p) ==
    /\ pc[p] = "validating"
    /\ \E e \in Effects :
          Continue(p, "decided", [local[p] EXCEPT !.effect = e, !.guarded = FALSE])
    /\ UNCHANGED <<command, authority, execution>>

\* The policy engine's decision is stored; everything after it stays inside
\* the try block.
Evaluate(p) ==
    /\ pc[p] = "validating"
    /\ \E e \in Effects :
          /\ policy' = [policy EXCEPT ![local[p].key] = e]
          /\ Continue(p, "decided", [local[p] EXCEPT !.effect = e])
    /\ UNCHANGED <<command, approval, bound, lapsed, execution>>

\* A denial, or an approval that no service can give.
Reject(p) ==
    /\ pc[p] = "decided"
    /\ \/ local[p].effect = "deny"
       \/ local[p].effect = "require_approval" /\ local[p].guarded
    /\ Transition(p, "rejected", "idle")
    /\ UNCHANGED <<authority, execution>>

Authorize(p) ==
    /\ pc[p] = "decided"
    /\ local[p].effect = "allow"
    /\ Transition(p, "authorized", IF local[p].cmd = "execute" THEN "authorized" ELSE "idle")
    /\ UNCHANGED <<authority, execution>>

\* ApprovalService.request.
RequestApproval(p) ==
    /\ pc[p] = "decided"
    /\ local[p].effect = "require_approval" /\ local[p].guarded
    /\ approval' = [approval EXCEPT ![local[p].key] = "pending"]
    /\ Goto(p, "requested")
    /\ UNCHANGED <<command, policy, bound, lapsed, execution>>

\* The command waits: bound to its approval, or (without a policy engine)
\* to none.
AwaitApproval(p) ==
    /\ \/ pc[p] = "requested"
       \/ pc[p] = "decided" /\ local[p].effect = "require_approval" /\ ~local[p].guarded
    /\ bound' = IF pc[p] = "requested" /\ CanMove(local[p].key, "approval_required")
                THEN bound \cup {local[p].key}
                ELSE bound
    /\ Transition(p, "approval_required", "idle")
    /\ UNCHANGED <<policy, approval, lapsed, execution>>

\* The except clause of execute.
FailValidation(p) ==
    /\ pc[p] = "failing"
    /\ Transition(p, "failed", "idle")
    /\ UNCHANGED <<authority, execution>>

-----------------------------------------------------------------------------
(* Execution                                                               *)

StartRunning(p) ==
    /\ pc[p] = "authorized"
    /\ Transition(p, "running", "running")
    /\ UNCHANGED <<authority, execution>>

CallExecutor(p) ==
    /\ pc[p] = "running"
    /\ calls' = [calls EXCEPT ![local[p].key] = @ + 1]
    /\ Goto(p, "executing")
    /\ UNCHANGED <<command, authority, artifacts, outcome>>

ExecutorReturns(p) ==
    /\ pc[p] = "executing"
    /\ \E o \in Results :
          /\ outcome' = [outcome EXCEPT ![local[p].key] = o]
          /\ Continue(p, "stdout", [local[p] EXCEPT !.result = o])
    /\ UNCHANGED <<command, authority, artifacts, calls>>

\* _record_streams: two artifacts, two transactions.
RecordStreams(p) ==
    /\ pc[p] \in {"stdout", "stderr"}
    /\ artifacts' = [artifacts EXCEPT ![local[p].key] = @ \cup {pc[p]}]
    /\ Goto(p, IF pc[p] = "stdout" THEN "stderr" ELSE "recording")
    /\ UNCHANGED <<command, authority, calls, outcome>>

\* Mutant of Recorded: every call that returns has succeeded.
ReturnedMeansSucceeded(result) ==
    CASE result \in {"zero", "nonzero"} -> "succeeded"
      [] result = "timeout" -> "timed_out"
      [] result = "interrupt" -> "interrupted"
      [] result = "exception" -> "failed"

\* The status that a result is recorded as.
Recorded(result) ==
    CASE result = "zero" -> "succeeded"
      [] result = "timeout" -> "timed_out"
      [] result = "interrupt" -> "interrupted"
      [] result \in {"nonzero", "exception"} -> "failed"

\* _record_result, _record_timeout, _record_interruption, _record_exception.
RecordOutcome(p) ==
    /\ pc[p] = "recording"
    /\ Transition(p, Recorded(local[p].result), "idle")
    /\ UNCHANGED <<authority, execution>>

-----------------------------------------------------------------------------
(* execute_approved and the approval service                               *)

StartApproved(p, k) ==
    /\ pc[p] = "idle"
    /\ status[k] = "approval_required"
    /\ Continue(p, IF k \in bound THEN "approving" ELSE "refusing",
                [NoJob EXCEPT !.key = k, !.cmd = "approved"])
    /\ UNCHANGED <<command, authority, execution>>

\* Mutant of CheckApproval: an approved record is used without consuming it.
CheckOnly(p) ==
    LET k == local[p].key
    IN  /\ pc[p] = "approving"
        /\ Goto(p, IF approval[k] = "approved" /\ k \notin lapsed THEN "consumed" ELSE "refusing")
        /\ UNCHANGED <<command, authority, execution>>

\* expire_approval: a settled approval stays as it is.
Expired(a) == IF a \in {"pending", "approved"} THEN "expired" ELSE a

\* The checks of ApprovalService.consume, or a journal without the service.
CheckApproval(p) ==
    LET k == local[p].key
    IN  /\ pc[p] = "approving"
        /\ \/ Goto(p, "refusing") /\ UNCHANGED approval
           \/ /\ k \in lapsed
              /\ approval' = [approval EXCEPT ![k] = Expired(@)]
              /\ Goto(p, "refusing")
           \/ /\ k \notin lapsed
              /\ Goto(p, IF approval[k] = "approved" THEN "consuming" ELSE "refusing")
              /\ UNCHANGED approval
        /\ UNCHANGED <<command, policy, bound, lapsed, execution>>

RefuseApproved(p) ==
    /\ pc[p] = "refusing"
    /\ Transition(p, "rejected", "idle")
    /\ UNCHANGED <<authority, execution>>

\* Mutant of Consume: the status is not read again inside the transaction.
ConsumeUnchecked(p) ==
    /\ pc[p] = "consuming"
    /\ approval' = [approval EXCEPT ![local[p].key] = "consumed"]
    /\ Goto(p, "consumed")
    /\ UNCHANGED <<command, policy, bound, lapsed, execution>>

\* consume_approval; its ValueError is not an ApprovalError and leaves
\* execute_approved.
Consume(p) ==
    /\ pc[p] = "consuming"
    /\ \/ /\ approval[local[p].key] = "approved"
          /\ approval' = [approval EXCEPT ![local[p].key] = "consumed"]
          /\ Goto(p, "consumed")
       \/ approval[local[p].key] # "approved" /\ Return(p) /\ UNCHANGED approval
    /\ UNCHANGED <<command, policy, bound, lapsed, execution>>

AuthorizeApproved(p) ==
    /\ pc[p] = "consumed"
    /\ Transition(p, "authorized", "authorized")
    /\ UNCHANGED <<authority, execution>>

\* decide_approval, from the operator's command line.
DecideApproval(k) ==
    /\ approval[k] = "pending"
    /\ k \notin lapsed
    /\ \E d \in {"approved", "denied"} : approval' = [approval EXCEPT ![k] = d]
    /\ UNCHANGED <<command, policy, bound, lapsed, execution, pc, local>>

\* cancel, from any process.
Cancel(k) ==
    /\ CanMove(k, "cancelled")
    /\ Move(k, "cancelled")
    /\ UNCHANGED <<authority, execution, pc, local>>

-----------------------------------------------------------------------------
(* recover_orphaned_commands                                               *)

\* expire_pending_approvals selects its rows (if there is an approval
\* service) ...
StartRecovery(p) ==
    /\ pc[p] = "idle"
    /\ \E todo \in {{}, {k \in lapsed : approval[k] \in {"pending", "approved"}}} :
          Continue(p, "expiring", [NoJob EXCEPT !.cmd = "recover", !.todo = todo])
    /\ UNCHANGED <<command, authority, execution>>

\* ... and expires them one by one.
ExpireApproval(p) ==
    /\ pc[p] = "expiring"
    /\ \E k \in local[p].todo :
          /\ approval' = [approval EXCEPT ![k] = Expired(@)]
          /\ Continue(p, "expiring", [local[p] EXCEPT !.todo = @ \ {k}])
    /\ UNCHANGED <<command, policy, bound, lapsed, execution>>

\* Mutant of ListRunning: the commands before running are listed.
ListAuthorized(p) ==
    /\ pc[p] = "expiring"
    /\ local[p].todo = {}
    /\ Continue(p, "interrupting",
                [local[p] EXCEPT !.todo = {k \in Keys : status[k] = "authorized"}])
    /\ UNCHANGED <<command, authority, execution>>

\* list_running_commands.
ListRunning(p) ==
    /\ pc[p] = "expiring"
    /\ local[p].todo = {}
    /\ Continue(p, "interrupting",
                [local[p] EXCEPT !.todo = {k \in Keys : status[k] = "running"}])
    /\ UNCHANGED <<command, authority, execution>>

\* Mutant of Interrupt: the row is updated whatever its status is now.
InterruptUnchecked(p, k) ==
    /\ pc[p] = "interrupting"
    /\ k \in local[p].todo
    /\ Move(k, "interrupted")
    /\ Continue(p, "interrupting", [local[p] EXCEPT !.todo = @ \ {k}])
    /\ UNCHANGED <<authority, execution>>

\* A listed command becomes interrupted; if it has left running since, the
\* refused transition ends the recovery.
Interrupt(p, k) ==
    /\ pc[p] = "interrupting"
    /\ k \in local[p].todo
    /\ \/ /\ CanMove(k, "interrupted")
          /\ Move(k, "interrupted")
          /\ Continue(p, "interrupting", [local[p] EXCEPT !.todo = @ \ {k}])
       \/ ~CanMove(k, "interrupted") /\ Return(p) /\ UNCHANGED command
    /\ UNCHANGED <<authority, execution>>

EndRecovery(p) ==
    /\ pc[p] = "interrupting"
    /\ local[p].todo = {}
    /\ Return(p)
    /\ UNCHANGED <<command, authority, execution>>

-----------------------------------------------------------------------------
(* Failures and the clock                                                  *)

\* A transaction is refused (a busy database, a full disk), or the code
\* around it raises.
Refused(p) ==
    /\ pc[p] \notin {"idle", "running", "executing"}
    /\ Raise(p)
    /\ UNCHANGED <<command, authority, execution>>

\* The process is killed.
Die(p) ==
    /\ pc[p] # "idle"
    /\ Return(p)
    /\ UNCHANGED <<command, authority, execution>>

Lapse(k) ==
    /\ approval[k] # "none"
    /\ lapsed' = lapsed \cup {k}
    /\ UNCHANGED <<command, policy, approval, bound, execution, pc, local>>

-----------------------------------------------------------------------------

Judge(p) == \/ BeginValidation(p) \/ Consult(p) \/ Evaluate(p) \/ Reject(p) \/ Authorize(p)
            \/ RequestApproval(p) \/ AwaitApproval(p) \/ FailValidation(p)

Approve(p) == \/ CheckApproval(p) \/ RefuseApproved(p) \/ Consume(p) \/ AuthorizeApproved(p)

Run(p) == \/ StartRunning(p) \/ CallExecutor(p) \/ ExecutorReturns(p)
          \/ RecordStreams(p) \/ RecordOutcome(p)

Recover(p) == \/ ExpireApproval(p) \/ ListRunning(p) \/ EndRecovery(p)
              \/ \E k \in Keys : Interrupt(p, k)

Next ==
    \/ \E p \in Procs :
          \/ \E k \in Keys : Plan(p, k) \/ Validate(p, k) \/ StartApproved(p, k)
          \/ StartRecovery(p)
          \/ Judge(p) \/ Approve(p) \/ Run(p) \/ Recover(p)
          \/ Refused(p) \/ Die(p)
    \/ \E k \in Keys : DecideApproval(k) \/ Cancel(k) \/ Lapse(k)

Spec == Init /\ [][Next]_vars

\* Fairness: a process that is not killed goes on, an executor returns (the
\* adapters bound every call by its timeout), and the runtime is started
\* again and again, at times without being killed during its recovery.
Fairness ==
    /\ \A p \in Procs : WF_vars(Judge(p) \/ Approve(p) \/ Run(p) \/ Recover(p))
    /\ SF_vars(\E p \in Procs : StartRecovery(p))
    /\ SF_vars(\E p \in Procs : ListRunning(p))
    /\ \A k \in Keys : SF_vars(\E p \in Procs : Interrupt(p, k))

FairSpec == Spec /\ Fairness

-----------------------------------------------------------------------------
(* Properties                                                              *)

\* However many processes submit, approve, resume and recover a command, the
\* executor is called for it at most once.
ExecutedAtMostOnce == \A k \in Keys : calls[k] <= 1

\* The executor is only called for a command whose start is durable, and
\* that was never refused or cancelled ("rejected commands remain in the
\* journal and never reach the executor").
JournaledBeforeExecuted ==
    \A k \in Keys :
        calls[k] > 0 => /\ k \in started
                        /\ status[k] \in {"running", "succeeded", "failed",
                                          "interrupted", "timed_out"}

\* A command that was started was not denied, and if the policy asked for an
\* approval, an approved record was consumed for it.
StartIsAuthorized ==
    \A k \in started :
        /\ policy[k] # "deny"
        /\ policy[k] = "require_approval" => approval[k] = "consumed"

\* A recorded success or timeout is how the executor's call ended.
ResultIsTrue ==
    \A k \in Keys :
        /\ status[k] = "succeeded" => outcome[k] = "zero"
        /\ status[k] = "timed_out" => outcome[k] = "timeout"

\* A result is never visible before both streams are stored.
StreamsBeforeResult ==
    \A k \in Keys :
        status[k] \in {"succeeded", "timed_out"} => artifacts[k] = {"stdout", "stderr"}

\* A denied, expired or consumed approval is never usable again, whatever
\* resumes, recoveries and decisions race for it.
ApprovalSettlesOnce ==
    [][\A k \in Keys :
          approval[k] \in {"denied", "expired", "consumed"} => approval'[k] = approval[k]]_vars

\* A command that is running does not stay so for ever: its process records
\* a result, or a recovery interrupts it.
RunningIsSettled ==
    \A k \in Keys : status[k] = "running" ~> status[k] \in Terminal

\* Locations of the process that decides on a command, and of the one that
\* executes it.
Deciding == {"validating", "decided", "requested"}
Returned == {"stdout", "stderr", "recording"}
Executing == {"running", "executing"} \cup Returned

\* The statuses of a command that was never started.
Unstarted == {"none", "planned", "validating", "approval_required", "authorized",
              "rejected", "cancelled"}

\* No command gets ahead of what was decided about it.
DecisionsInv ==
    /\ \A k \in Keys : status[k] \in {"none", "planned"} => policy[k] = "none"
    /\ \A k \in Keys : approval[k] # "none" => policy[k] = "require_approval"
    /\ \A k \in bound : approval[k] # "none"
    /\ \A k \in Keys :
          status[k] = "authorized" \/ k \in started
          => /\ policy[k] # "deny"
             /\ policy[k] = "require_approval" => approval[k] = "consumed"

\* What holds of the command of a process at location l that decides on it,
\* approves it, or gives it up.
DeciderOK(l, job) ==
    /\ l \in Deciding => status[job.key] \in {"validating", "cancelled"}
    /\ l \in {"authorized", "failing"} => status[job.key] \notin {"none", "planned"}
    /\ l \in {"approving", "refusing", "consuming", "consumed"}
       => status[job.key] \notin {"none", "planned", "validating"}
    /\ l = "validating" => job.guarded /\ policy[job.key] = "none"
    /\ l = "decided" => /\ policy[job.key] = IF job.guarded THEN job.effect ELSE "none"
                        /\ approval[job.key] = "none"
    /\ l = "requested" => approval[job.key] # "none"
    /\ l \in {"approving", "consuming"} => job.key \in bound
    /\ l = "consumed" => approval[job.key] = "consumed"
    /\ job.guarded => l \in Deciding \cup {"authorized"} \cup Executing

\* One process decides on a command, and nothing else happens to it
\* meanwhile but a cancellation.
DecidersInv ==
    /\ \A p \in Procs : DeciderOK(pc[p], local[p])
    /\ \A p, q \in Procs :
          /\ pc[p] \in Deciding
          /\ pc[q] \in Deciding \cup {"authorized", "failing"}
          /\ local[p].key = local[q].key
          => p = q

\* started_at follows the status, and the executor follows started_at.
StartInv ==
    /\ \A k \in Keys : status[k] \in Unstarted => k \notin started
    /\ \A k \in Keys : status[k] = "running" => k \in started
    /\ \A k \in Keys : calls[k] > 0 => k \in started
    /\ \A k \in Keys : calls[k] = 0 => outcome[k] = "none"

\* What holds of the command of a process at location l that executes it.
ExecutorOK(l, job) ==
    /\ l \in Executing => job.key \in started
    /\ l = "running" => calls[job.key] = 0
    /\ l \in Executing \ {"running"} => calls[job.key] = 1
    /\ l = "executing" => outcome[job.key] = "none"
    /\ l \in Returned => outcome[job.key] = job.result
    /\ l = "stderr" => "stdout" \in artifacts[job.key]
    /\ l = "recording" => artifacts[job.key] = {"stdout", "stderr"}

\* One process executes a command: the one that set it running.
ExecutorsInv ==
    /\ \A p \in Procs : ExecutorOK(pc[p], local[p])
    /\ \A p, q \in Procs :
          pc[p] \in Executing /\ pc[q] \in Executing /\ local[p].key = local[q].key => p = q

\* The inductive invariant behind the safety properties.
CommandInv ==
    /\ DecisionsInv
    /\ DecidersInv
    /\ StartInv
    /\ ExecutorsInv
    /\ ExecutedAtMostOnce
    /\ ResultIsTrue
    /\ StreamsBeforeResult

\* The phase of a command in the abstract specification.
Phase(s) ==
    CASE s = "none" -> "unknown"
      [] s \in {"planned", "validating", "approval_required"} -> "considered"
      [] s = "authorized" -> "permitted"
      [] s = "running" -> "started"
      [] s = "succeeded" -> "succeeded"
      [] s \in {"rejected", "cancelled"} -> "refused"
      [] OTHER -> "failed"

\* The promise of the module GovernedCommand.
Promise == INSTANCE GovernedCommand WITH
    phase <- [k \in Keys |-> Phase(status[k])],
    begun <- started,
    called <- calls

\* Every command is considered, permitted, started and executed in this
\* order and each at most once, and ends once.
ImplementsGovernedCommand == Promise!Spec
=============================================================================
