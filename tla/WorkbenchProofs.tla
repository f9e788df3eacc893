--------------------------- MODULE WorkbenchProofs ---------------------------
(***************************************************************************)
(* Theorems about Workbench: the journal in it keeps what is proved of     *)
(* CommandJournal, and what commands do to workspaces and clusters is what *)
(* the policy and the operator permitted and what the journal records.     *)
(***************************************************************************)
EXTENDS Workbench, TLAPS

-----------------------------------------------------------------------------
(* The journal in the workbench                                            *)

\* To the journal an adapter is a call of the executor that returns at last.
LEMMA AdapterStep ==
    ASSUME NEW p \in Procs, Adapter(p)
    PROVE  J!ExecutorReturns(p) \/ UNCHANGED journal
  BY DEF Adapter, ReadPath, CreateWorkspace, WriteTemporary, Replace, CheckTemplate,
     OpenTemplate,
     WriteTemplate, StartTool, EndTool, Ends, AdapterAt

\* The journal makes a step of its own, or none, in every step.
LEMMA JournalSteps == [Next]_vars => [J!Next]_(J!vars)
  <1> SUFFICES ASSUME [Next]_vars PROVE [J!Next]_(J!vars)
    OBVIOUS
  <1>1. CASE \E p \in Procs : Adapter(p)
    BY <1>1, AdapterStep DEF J!Next, J!Run, J!vars, journal
  <1>2. CASE \E p \in Procs : Evaluate(p)
    BY <1>2 DEF Evaluate, J!Next, J!Judge
  <1>3. CASE \E p \in Procs : JournalStep(p)
    BY <1>3 DEF JournalStep, J!Next, J!Judge, J!Approve, J!Run, J!Recover
  <1>4. CASE \E p \in Procs : Die(p)
    BY <1>4 DEF Die, J!Next
  <1>5. CASE \E k \in Keys : Operator(k)
    BY <1>5 DEF Operator, J!Next
  <1>6. CASE \E k \in Keys : ToolStep(k)
    BY <1>6 DEF ToolStep, J!vars, journal
  <1>7. CASE UNCHANGED vars
    BY <1>7 DEF vars, J!vars, journal
  <1>8. CASE \E t \in Targets : Remove(t)
    BY <1>8 DEF Remove, J!vars, journal
  <1> QED
    BY <1>1, <1>2, <1>3, <1>4, <1>5, <1>6, <1>7, <1>8 DEF Next

\* The runtime, put together with its policy engine, its approvals and its
\* adapters, is the command journal that CommandJournal describes.
THEOREM Composition == Spec => ImplementsCommandJournal
  <1>1. Init => J!Init
    BY DEF Init
  <1>2. QED
    BY <1>1, JournalSteps, PTL DEF Spec, ImplementsCommandJournal, J!Spec

JP == INSTANCE CommandJournalProofs

LEMMA SameJournal ==
    /\ J!Init => JP!Init
    /\ [J!Next]_(J!vars) => [JP!Next]_(JP!vars)
  <1>1. J!Init => JP!Init
    BY DEF J!Init, JP!Init, J!NoJob, JP!NoJob
  <1> USE DEF J!Continue, JP!Continue, J!Return, JP!Return, J!Goto, JP!Goto, J!Raise, JP!Raise,
        J!CanMove, JP!CanMove, J!Successors, JP!Successors, J!Move, JP!Move,
        J!Transition, JP!Transition, J!NoJob, JP!NoJob,
        J!command, JP!command, J!authority, JP!authority, J!execution, JP!execution
  <1>2. ASSUME NEW p \in Procs, J!Judge(p)
        PROVE  JP!Judge(p)
    <2>1. J!BeginValidation(p) => JP!BeginValidation(p)
      BY DEF J!BeginValidation, JP!BeginValidation
    <2>2. (J!Consult(p) => JP!Consult(p)) /\ (J!Evaluate(p) => JP!Evaluate(p))
      BY DEF J!Consult, JP!Consult, J!Evaluate, JP!Evaluate, J!Effects, JP!Effects
    <2>3. (J!Reject(p) => JP!Reject(p)) /\ (J!Authorize(p) => JP!Authorize(p))
      BY DEF J!Reject, JP!Reject, J!Authorize, JP!Authorize
    <2>4. J!RequestApproval(p) => JP!RequestApproval(p)
      BY DEF J!RequestApproval, JP!RequestApproval
    <2>5. J!AwaitApproval(p) => JP!AwaitApproval(p)
      BY DEF J!AwaitApproval, JP!AwaitApproval
    <2>6. J!FailValidation(p) => JP!FailValidation(p)
      BY DEF J!FailValidation, JP!FailValidation
    <2> QED
      BY <1>2, <2>1, <2>2, <2>3, <2>4, <2>5, <2>6 DEF J!Judge, JP!Judge
  <1>3. ASSUME NEW p \in Procs, J!Approve(p)
        PROVE  JP!Approve(p)
    <2>1. J!CheckApproval(p) => JP!CheckApproval(p)
      BY DEF J!CheckApproval, JP!CheckApproval, J!Expired, JP!Expired
    <2>2. J!Consume(p) => JP!Consume(p)
      BY DEF J!Consume, JP!Consume
    <2>3. /\ J!RefuseApproved(p) => JP!RefuseApproved(p)
          /\ J!AuthorizeApproved(p) => JP!AuthorizeApproved(p)
      BY DEF J!RefuseApproved, JP!RefuseApproved, J!AuthorizeApproved, JP!AuthorizeApproved
    <2> QED
      BY <1>3, <2>1, <2>2, <2>3 DEF J!Approve, JP!Approve
  <1>4. ASSUME NEW p \in Procs, J!Run(p)
        PROVE  JP!Run(p)
    <2>1. (J!StartRunning(p) => JP!StartRunning(p)) /\ (J!CallExecutor(p) => JP!CallExecutor(p))
      BY DEF J!StartRunning, JP!StartRunning, J!CallExecutor, JP!CallExecutor
    <2>2. J!ExecutorReturns(p) => JP!ExecutorReturns(p)
      BY DEF J!ExecutorReturns, JP!ExecutorReturns, J!Results, JP!Results
    <2>3. J!RecordStreams(p) => JP!RecordStreams(p)
      BY DEF J!RecordStreams, JP!RecordStreams
    <2>4. J!RecordOutcome(p) => JP!RecordOutcome(p)
      BY DEF J!RecordOutcome, JP!RecordOutcome, J!Recorded, JP!Recorded
    <2> QED
      BY <1>4, <2>1, <2>2, <2>3, <2>4 DEF J!Run, JP!Run
  <1>5. ASSUME NEW p \in Procs, J!Recover(p)
        PROVE  JP!Recover(p)
    BY <1>5 DEF J!Recover, JP!Recover, J!ExpireApproval, JP!ExpireApproval, J!Expired, JP!Expired,
       J!ListRunning, JP!ListRunning, J!EndRecovery, JP!EndRecovery, J!Interrupt, JP!Interrupt
  <1>6. ASSUME NEW p \in Procs, NEW k \in Keys
        PROVE  /\ J!Plan(p, k) => JP!Plan(p, k)
               /\ J!Validate(p, k) => JP!Validate(p, k)
               /\ J!StartApproved(p, k) => JP!StartApproved(p, k)
    BY DEF J!Plan, JP!Plan, J!Validate, JP!Validate, J!StartApproved, JP!StartApproved,
       J!Effects, JP!Effects
  <1>7. ASSUME NEW p \in Procs
        PROVE  /\ J!StartRecovery(p) => JP!StartRecovery(p)
               /\ J!Refused(p) => JP!Refused(p)
               /\ J!Die(p) => JP!Die(p)
    BY DEF J!StartRecovery, JP!StartRecovery, J!Refused, JP!Refused, J!Die, JP!Die
  <1>8. ASSUME NEW k \in Keys
        PROVE  /\ J!DecideApproval(k) => JP!DecideApproval(k)
               /\ J!Cancel(k) => JP!Cancel(k)
               /\ J!Lapse(k) => JP!Lapse(k)
    BY DEF J!DecideApproval, JP!DecideApproval, J!Cancel, JP!Cancel, J!Lapse, JP!Lapse
  <1>9. (UNCHANGED J!vars) => UNCHANGED JP!vars
    BY DEF J!vars, JP!vars
  <1> QED
    BY <1>1, <1>2, <1>3, <1>4, <1>5, <1>6, <1>7, <1>8, <1>9 DEF J!Next, JP!Next

\* What is proved of the command journal.
JournalInv == JP!Typed /\ JP!CommandInv /\ JP!OwnersInv

LEMMA JournalInvariant == Spec => []JournalInv
  <1>1. J!Spec => JP!Spec
    BY SameJournal, PTL DEF J!Spec, JP!Spec
  <1>2. None \notin Keys
    BY NoneIsFresh
  <1>3. QED
    BY <1>1, <1>2, Composition, JP!TypedInvariant, JP!CommandInvariant, JP!OwnersInvariant, PTL
       DEF ImplementsCommandJournal, JournalInv

-----------------------------------------------------------------------------
(* Types                                                                   *)

WorkTyped ==
    /\ profile \in Profiles
    /\ ask \in [Keys -> Asks]
    /\ directory \in [Targets -> Directories]
    /\ source \in [Targets -> Sources]
    /\ made \in [Keys -> Targets \cup {None}]
    /\ edited \subseteq Keys
    /\ tool \in [Keys -> Tools]
    /\ reached \subseteq Keys
    /\ at \in [Procs -> {"adapter", "tool", "temporary", "rendering", "writing"}]

Name(k) == ask[k].name

LEMMA AskType ==
    ASSUME WorkTyped, NEW k \in Keys
    PROVE  ask[k] \in AskOf({Name(k)}, Targets)
  BY AsksAssumption DEF WorkTyped, Name

\* The process that calls the executor works on a command.
LEMMA CommandType ==
    ASSUME JP!Typed, NEW p \in Procs, pc[p] \notin {"idle", "expiring", "interrupting"}
    PROVE  Command(p) \in Keys
  BY DEF JP!Typed, JP!TypeOK, JP!JobOK, Command

\* The journal's steps leave the world alone.
LEMMA JournalFrame ==
    ASSUME \/ \E p \in Procs : Evaluate(p) \/ JournalStep(p) \/ Die(p)
           \/ \E k \in Keys : Operator(k)
    PROVE  UNCHANGED <<profile, ask, directory, source, made, edited, tool, reached>>
  BY DEF Evaluate, JournalStep, Die, Operator, world, tree

LEMMA InitTyped == Init => WorkTyped
  BY DEF Init, WorkTyped, Directories, Projects, Sources, Tools

LEMMA AdapterTyped ==
    ASSUME JP!Typed, WorkTyped, NEW p \in Procs, Adapter(p)
    PROVE  WorkTyped'
  <1> USE DEF WorkTyped, Directories, Sources, Tools, tree, world
  <1>1. pc[p] = "executing"
    BY DEF Adapter, ReadPath, CreateWorkspace, WriteTemporary, Replace, CheckTemplate,
       OpenTemplate, WriteTemplate, StartTool, EndTool, Runs
  <1>2. PICK k \in Keys : k = Command(p)
    BY <1>1, CommandType
  <1>3. CASE ReadPath(p)
    BY <1>3 DEF ReadPath, Ends
  <1>4. CASE CreateWorkspace(p)
    BY <1>2, <1>4 DEF CreateWorkspace, Ends, Make, Missing
  <1>5. CASE WriteTemporary(p) \/ CheckTemplate(p)
    BY <1>5 DEF WriteTemporary, CheckTemplate, Ends, AdapterAt
  <1>6. CASE Replace(p)
    BY <1>2, <1>6 DEF Replace, Ends
  <1>7. CASE OpenTemplate(p)
    BY <1>2, <1>7 DEF OpenTemplate, Ends, AdapterAt, Make, Missing
  <1>8. CASE WriteTemplate(p)
    BY <1>8 DEF WriteTemplate, Ends
  <1>9. CASE StartTool(p)
    BY <1>2, <1>9 DEF StartTool, Ends, AdapterAt
  <1>10. CASE EndTool(p)
    BY <1>2, <1>10 DEF EndTool, Ends
  <1> QED
    BY <1>3, <1>4, <1>5, <1>6, <1>7, <1>8, <1>9, <1>10 DEF Adapter

LEMMA NextTyped == JP!Typed /\ WorkTyped /\ [Next]_vars => WorkTyped'
  <1> SUFFICES ASSUME JP!Typed, WorkTyped, [Next]_vars
               PROVE  WorkTyped'
    OBVIOUS
  <1>1. CASE \/ \E p \in Procs : Evaluate(p) \/ JournalStep(p) \/ Die(p)
             \/ \E k \in Keys : Operator(k)
    <2>1. at' \in [Procs -> {"adapter", "tool", "temporary", "rendering", "writing"}]
      BY <1>1 DEF WorkTyped, Evaluate, JournalStep, Die, Operator
    <2> QED
      BY <1>1, <2>1, JournalFrame DEF WorkTyped
  <1>2. ASSUME NEW k \in Keys, ToolStep(k)
        PROVE  WorkTyped'
    BY <1>2 DEF ToolStep, Scaffold, Transact, Make, Missing, WorkTyped, Directories, Projects,
       Sources, Tools, tree
  <1>3. ASSUME NEW t \in Targets, Remove(t)
        PROVE  WorkTyped'
    BY <1>3 DEF Remove, WorkTyped, Directories, Sources
  <1>4. CASE UNCHANGED vars
    BY <1>4 DEF vars, world, tree, WorkTyped
  <1> QED
    BY <1>1, <1>2, <1>3, <1>4, AdapterTyped DEF Next

LEMMA TypedInvariant == Spec => []WorkTyped
  BY InitTyped, NextTyped, JournalInvariant, PTL DEF Spec, JournalInv

\* The variables of the workbench keep their types.
THEOREM TypeCorrect == Spec => []TypeOK
  <1>1. JP!Typed /\ WorkTyped => TypeOK
    <2>1. JP!TypeOK => J!TypeOK
      BY DEF JP!TypeOK, J!TypeOK, JP!Status, J!Status, JP!Terminal, J!Terminal, JP!Effects,
         J!Effects, JP!ApprovalStatus, J!ApprovalStatus, JP!Results, J!Results,
         JP!Locations, J!Locations, JP!Job, J!Job
    <2> QED
      BY <2>1 DEF JP!Typed, WorkTyped, TypeOK
  <1>2. QED
    BY <1>1, TypedInvariant, JournalInvariant, PTL DEF JournalInv

-----------------------------------------------------------------------------
(* What the journal's own steps change                                     *)

\* A step of the journal that is not made by an adapter or a tool.
JournalSide == \/ \E p \in Procs : Evaluate(p) \/ JournalStep(p) \/ Die(p)
               \/ \E k \in Keys : Operator(k)

\* Everything but the policy engine leaves the decisions alone, and nothing
\* but an adapter ends a call.
LEMMA JournalSideFrame ==
    ASSUME JournalSide
    PROVE  /\ UNCHANGED outcome
           /\ UNCHANGED policy \/ \E p \in Procs : Evaluate(p)
  <1> USE DEF J!command, J!authority, J!execution
  <1>1. ASSUME NEW p \in Procs, Evaluate(p)
        PROVE  UNCHANGED outcome
    BY <1>1 DEF Evaluate, J!Evaluate
  <1>2. ASSUME NEW p \in Procs, JournalStep(p)
        PROVE  UNCHANGED <<policy, outcome>>
    <2>1. CASE \E k \in Keys : J!Plan(p, k) \/ J!StartApproved(p, k) \/ J!Interrupt(p, k)
      BY <2>1 DEF J!Plan, J!StartApproved, J!Interrupt
    <2>2. CASE \/ J!BeginValidation(p) \/ J!Authorize(p) \/ J!RequestApproval(p)
               \/ J!AwaitApproval(p) \/ J!Reject(p) \/ J!FailValidation(p)
      BY <2>2 DEF J!BeginValidation, J!Authorize, J!RequestApproval, J!AwaitApproval, J!Reject,
         J!FailValidation
    <2>3. CASE J!Approve(p) \/ J!StartRunning(p) \/ J!CallExecutor(p)
      BY <2>3 DEF J!Approve, J!CheckApproval, J!RefuseApproved, J!Consume, J!AuthorizeApproved,
         J!StartRunning, J!CallExecutor
    <2>4. CASE J!RecordStreams(p) \/ J!RecordOutcome(p)
      BY <2>4 DEF J!RecordStreams, J!RecordOutcome
    <2>5. CASE \/ J!StartRecovery(p) \/ J!ExpireApproval(p) \/ J!ListRunning(p)
               \/ J!EndRecovery(p) \/ J!Refused(p)
      BY <2>5 DEF J!StartRecovery, J!ExpireApproval, J!ListRunning, J!EndRecovery, J!Refused
    <2> QED
      BY <1>2, <2>1, <2>2, <2>3, <2>4, <2>5 DEF JournalStep
  <1>3. ASSUME NEW p \in Procs, Die(p)
        PROVE  UNCHANGED <<policy, outcome>>
    BY <1>3 DEF Die, J!Die
  <1>4. ASSUME NEW k \in Keys, Operator(k)
        PROVE  UNCHANGED <<policy, outcome>>
    BY <1>4 DEF Operator, J!DecideApproval, J!Lapse
  <1> QED
    BY <1>1, <1>2, <1>3, <1>4 DEF JournalSide

\* A process of the journal that goes on, and where it can get from where.
LEMMA JournalMoves ==
    ASSUME JP!Typed, NEW p \in Procs, JournalStep(p)
    PROVE  /\ pc[p] # "executing"
           /\ \E l, j : J!Continue(p, l, j) /\ l # "decided"
  <1> USE DEF J!Goto, J!Return, J!Raise, J!Transition
  <1>1. CASE \E k \in Keys : J!Plan(p, k) \/ J!StartApproved(p, k) \/ J!Interrupt(p, k)
    <2>1. PICK k \in Keys : J!Plan(p, k) \/ J!StartApproved(p, k) \/ J!Interrupt(p, k)
      BY <1>1
    <2>2. CASE J!Plan(p, k)
      BY <2>2 DEF J!Plan
    <2>3. CASE J!StartApproved(p, k)
      BY <2>3 DEF J!StartApproved
    <2>4. CASE J!Interrupt(p, k)
      BY <2>4 DEF J!Interrupt
    <2> QED
      BY <2>1, <2>2, <2>3, <2>4
  <1>2. CASE J!BeginValidation(p) \/ J!RequestApproval(p) \/ J!FailValidation(p)
    BY <1>2 DEF J!BeginValidation, J!RequestApproval, J!FailValidation
  <1>3. CASE J!AwaitApproval(p) \/ J!Reject(p)
    BY <1>3 DEF J!AwaitApproval, J!Reject
  <1>4. CASE J!Authorize(p)
    BY <1>4 DEF J!Authorize
  <1>5. CASE J!Approve(p)
    BY <1>5 DEF J!Approve, J!CheckApproval, J!RefuseApproved, J!Consume, J!AuthorizeApproved
  <1>6. CASE J!StartRunning(p) \/ J!CallExecutor(p)
    BY <1>6 DEF J!StartRunning, J!CallExecutor
  <1>7. CASE J!RecordStreams(p)
    BY <1>7 DEF J!RecordStreams
  <1>8. CASE J!RecordOutcome(p)
    BY <1>8 DEF J!RecordOutcome
  <1>9. CASE J!StartRecovery(p)
    BY <1>9 DEF J!StartRecovery
  <1>10. CASE J!ExpireApproval(p)
    BY <1>10 DEF J!ExpireApproval
  <1>11. CASE J!ListRunning(p)
    BY <1>11 DEF J!ListRunning
  <1>12. CASE J!EndRecovery(p) \/ J!Refused(p)
    BY <1>12 DEF J!EndRecovery, J!Refused
  <1> QED
    BY <1>1, <1>2, <1>3, <1>4, <1>5, <1>6, <1>7, <1>8, <1>9, <1>10, <1>11, <1>12 DEF JournalStep

\* What adapters, tools and the operator who removes a workspace leave alone.
LEMMA WorkFrame ==
    ASSUME JP!Typed,
           \/ \E p \in Procs : Adapter(p)
           \/ \E k \in Keys : ToolStep(k)
           \/ \E t \in Targets : Remove(t)
    PROVE  UNCHANGED <<status, started, policy, approval, profile, ask>>
  <1>1. ASSUME NEW p \in Procs, Adapter(p)
        PROVE  UNCHANGED <<status, started, policy, approval, profile, ask>>
    <2>1. UNCHANGED <<profile, ask>>
      BY <1>1 DEF Adapter, ReadPath, CreateWorkspace, WriteTemporary, Replace, CheckTemplate,
     OpenTemplate,
         WriteTemplate, StartTool, EndTool, Ends, AdapterAt
    <2>2. UNCHANGED <<status, started, policy, approval>>
      BY <1>1, AdapterStep DEF J!ExecutorReturns, J!command, J!authority, journal
    <2> QED
      BY <2>1, <2>2
  <1>2. ASSUME NEW k \in Keys, ToolStep(k)
        PROVE  UNCHANGED <<status, started, policy, approval, profile, ask>>
    BY <1>2 DEF ToolStep, journal
  <1>3. ASSUME NEW t \in Targets, Remove(t)
        PROVE  UNCHANGED <<status, started, policy, approval, profile, ask>>
    BY <1>3 DEF Remove, journal
  <1> QED
    BY <1>1, <1>2, <1>3

-----------------------------------------------------------------------------
(* What was decided                                                        *)

\* A command has the decision of the policy engine, whatever was there when
\* it looked.
Judged(k) == \E present \in SUBSET Targets : policy[k] = Decision(profile, ask[k], present)

\* No command gets past the policy engine.
PolicyInv ==
    /\ \A p \in Procs : pc[p] = "decided" => local[p].guarded
    /\ \A k \in Keys : status[k] = "authorized" \/ k \in started => policy[k] # "none"
    /\ \A k \in Keys : policy[k] # "none" => Judged(k)

LEMMA InitPolicy == Init => PolicyInv
  BY DEF Init, J!Init, PolicyInv

\* A process is at "decided" because the policy engine has just decided.
LEMMA DecidedStays ==
    ASSUME JP!Typed, [Next]_vars, NEW q \in Procs, pc'[q] = "decided"
    PROVE  \/ pc[q] = "decided" /\ local'[q] = local[q]
           \/ \E p \in Procs : Evaluate(p)
  <1>1. ASSUME NEW p \in Procs, NEW l, NEW j, J!Continue(p, l, j), l # "decided"
        PROVE  pc[q] = "decided" /\ local'[q] = local[q]
    BY <1>1 DEF J!Continue, JP!Typed, JP!TypeOK
  <1>2. CASE \E p \in Procs : JournalStep(p)
    BY <1>1, <1>2, JournalMoves
  <1>3. CASE \E p \in Procs : Die(p)
    BY <1>1, <1>3 DEF Die, J!Die, J!Return
  <1>4. CASE \E p \in Procs : Adapter(p)
    <2>1. PICK p \in Procs : Adapter(p)
      BY <1>4
    <2>2. CASE J!ExecutorReturns(p)
      BY <1>1, <2>2 DEF J!ExecutorReturns
    <2> QED
      BY <2>1, <2>2, AdapterStep DEF journal
  <1>5. CASE \E k \in Keys : Operator(k) \/ ToolStep(k)
    BY <1>5 DEF Operator, J!DecideApproval, J!Lapse, ToolStep, journal
  <1>6. CASE UNCHANGED vars \/ \E t \in Targets : Remove(t)
    BY <1>6 DEF vars, Remove, journal
  <1> QED
    BY <1>2, <1>3, <1>4, <1>5, <1>6 DEF Next

LEMMA NextPolicy ==
    ASSUME JournalInv, WorkTyped, PolicyInv, [Next]_vars
    PROVE  PolicyInv'
  <1> USE DEF JournalInv
  <1>1. [JP!Next]_(JP!vars)
    BY JournalSteps, SameJournal
  <1>2. UNCHANGED <<profile, ask>>
    BY JournalFrame, WorkFrame DEF Next, vars
  <1>3. ASSUME NEW k \in Keys, Judged(k), policy'[k] = policy[k]
        PROVE  Judged(k)'
    BY <1>2, <1>3 DEF Judged
  <1>4. ASSUME NEW p \in Procs, Evaluate(p)
        PROVE  PolicyInv'
    <2>1. local[p].key \in Keys /\ local[p].guarded
      BY <1>4 DEF Evaluate, J!Evaluate, JP!Typed, JP!TypeOK, JP!JobOK, JP!CommandInv,
         JP!DecidersInv, JP!DeciderOK
    <2>2. PICK k \in Keys : k = local[p].key
      BY <2>1
    <2>3. PICK e \in J!Effects :
             /\ policy' = [policy EXCEPT ![k] = e]
             /\ J!Continue(p, "decided", [local[p] EXCEPT !.effect = e])
             /\ UNCHANGED <<status, started>>
      BY <1>4, <2>2 DEF Evaluate, J!Evaluate, J!command
    <2>4. \A q \in Procs : pc'[q] = "decided" => local'[q].guarded
      BY <2>1, <2>3 DEF J!Continue, JP!Typed, JP!TypeOK, JP!Job, PolicyInv
    <2>5. policy'[k] = Decision(profile, ask[k], {t \in Targets : Exists(t)})
      BY <1>4, <2>2 DEF Evaluate
    <2>6. Judged(k)'
      BY <1>2, <2>5 DEF Judged
    <2>7. \A i \in Keys : policy'[i] # "none" => Judged(i)'
      BY <1>3, <2>3, <2>6 DEF JP!Typed, JP!TypeOK, PolicyInv
    <2>8. \A i \in Keys : status'[i] = "authorized" \/ i \in started' => policy'[i] # "none"
      BY <2>3 DEF JP!Typed, JP!TypeOK, PolicyInv, J!Effects
    <2> QED
      BY <2>4, <2>7, <2>8 DEF PolicyInv
  <1>5. ASSUME UNCHANGED policy
        PROVE  PolicyInv'
    <2>1. ASSUME NEW q \in Procs, pc'[q] = "decided"
          PROVE  local'[q].guarded
      <3>1. CASE \E p \in Procs : Evaluate(p)
        BY <1>4, <2>1, <3>1 DEF PolicyInv
      <3>2. CASE pc[q] = "decided" /\ local'[q] = local[q]
        BY <3>2 DEF PolicyInv
      <3> QED
        BY <2>1, <3>1, <3>2, DecidedStays
    <2>2. ASSUME NEW k \in Keys, status'[k] = "authorized" \/ k \in started'
          PROVE  policy'[k] # "none"
      <3>1. CASE status[k] = "authorized" \/ k \in started
        BY <1>5, <3>1 DEF PolicyInv
      <3>2. CASE \E p \in Procs : local[p].key = k /\ (JP!Authorize(p) \/ JP!AuthorizeApproved(p))
        <4>1. PICK p \in Procs : local[p].key = k /\ (JP!Authorize(p) \/ JP!AuthorizeApproved(p))
          BY <3>2
        <4>2. CASE JP!Authorize(p)
          BY <1>5, <4>1, <4>2 DEF JP!Authorize, JP!CommandInv, JP!DecidersInv, JP!DeciderOK,
             PolicyInv
        <4>3. CASE JP!AuthorizeApproved(p)
          BY <1>5, <4>1, <4>3 DEF JP!AuthorizeApproved, JP!CommandInv, JP!DecidersInv,
             JP!DeciderOK, JP!DecisionsInv
        <4> QED
          BY <4>1, <4>2, <4>3
      <3> QED
        BY <1>1, <2>2, <3>1, <3>2, JP!StartedStep, NoneIsFresh
    <2> QED
      BY <1>3, <1>5, <2>1, <2>2 DEF PolicyInv
  <1> QED
    BY <1>4, <1>5, JournalSideFrame, WorkFrame DEF Next, JournalSide, vars, journal

LEMMA PolicyInvariant == Spec => []PolicyInv
  <1>1. JournalInv /\ WorkTyped /\ PolicyInv /\ [Next]_vars => PolicyInv'
    BY NextPolicy
  <1>2. QED
    BY <1>1, InitPolicy, TypedInvariant, JournalInvariant, PTL DEF Spec

-----------------------------------------------------------------------------
(* What was done                                                           *)

Makers == {<<"filesystem", "create_workspace">>, <<"anchor", "scaffold">>}
Senders == {<<"anchor", "test">>, <<"anchor", "deploy">>}
Template == <<"counter_template", "apply">>

\* What command k was asked for has been done.
Accomplished(k) ==
    /\ Name(k) \in Makers => made[k] = Place(k)
    /\ Name(k) = <<"filesystem", "overwrite">> => k \in edited
    /\ IsDeployment(k) => k \in reached

\* The effects of a command are those of a started command of its kind, the
\* tool that got half way has made its directory or sent its transactions,
\* to a cluster the adapter knows, and an exit code zero tells the truth.
DoneInv(k) ==
    /\ made[k] # None => k \in started /\ Name(k) \in Makers \cup {Template}
    /\ k \in edited => k \in started /\ Name(k) = <<"filesystem", "overwrite">>
    /\ k \in reached => tool[k] # "none" /\ Name(k) \in Senders
    /\ tool[k] # "none" => /\ k \in started
                           /\ Name(k) \in Senders \cup {<<"anchor", "scaffold">>}
                           /\ IsDeployment(k) => ask[k].aim # "other"
    /\ tool[k] \in {"half", "done"} => Accomplished(k)
    /\ outcome[k] = "zero" => Accomplished(k)

WorkInv == \A k \in Keys : DoneInv(k)

LEMMA InitWork == Init => WorkInv
  BY DEF Init, J!Init, WorkInv, DoneInv

\* A process in an adapter executes a started command.
LEMMA AtWork ==
    ASSUME JournalInv, NEW p \in Procs, pc[p] = "executing"
    PROVE  /\ Command(p) \in Keys /\ Command(p) \in started
           /\ status[Command(p)] \in {"running", "interrupted"}
  BY CommandType DEF JournalInv, JP!CommandInv, JP!ExecutorsInv, JP!ExecutorOK, JP!Executing,
     JP!OwnersInv, JP!Owner, Command

\* The call of the executor ends with the result that execute returned.
LEMMA EndsOutcome ==
    ASSUME JP!Typed, NEW p \in Procs, NEW k \in Keys, k = Command(p), NEW r, Ends(p, r)
    PROVE  outcome' = [outcome EXCEPT ![k] = r]
  BY DEF Ends, J!ExecutorReturns, J!Continue, Command, JP!Typed, JP!TypeOK, JP!Job

\* What is said of a command stays true while nothing is done for it.
LEMMA NothingDone ==
    ASSUME UNCHANGED <<profile, ask>>, started \subseteq started', NEW k \in Keys, DoneInv(k),
           made'[k] = made[k], k \in edited' <=> k \in edited, k \in reached' <=> k \in reached,
           tool'[k] = tool[k], outcome'[k] = outcome[k]
    PROVE  DoneInv(k)'
  <1>1. Accomplished(k) => Accomplished(k)'
    BY DEF Accomplished, Name, Place, IsDeployment
  <1> QED
    BY <1>1 DEF DoneInv, Name, IsDeployment

\* The work of an adapter is the work of its command.
LEMMA AdapterWork ==
    ASSUME JournalInv, WorkTyped, WorkInv, NEW p \in Procs, Adapter(p)
    PROVE  WorkInv'
  <1> USE DEF JournalInv
  <1>1. pc[p] = "executing"
    BY DEF Adapter, ReadPath, CreateWorkspace, WriteTemporary, Replace, CheckTemplate,
       OpenTemplate, WriteTemplate, StartTool, EndTool, Runs
  <1>2. PICK k \in Keys : k = Command(p) /\ k \in started
    BY <1>1, AtWork
  <1>3. UNCHANGED <<profile, ask, started>>
    BY WorkFrame
  <1>4. /\ UNCHANGED <<Name(k), Place(k), IsDeployment(k)>>
        /\ DoneInv(k)
    BY <1>3 DEF Name, Place, IsDeployment, WorkInv
  <1>5. ASSUME NEW r, Ends(p, r)
        PROVE  outcome'[k] = r /\ \A i \in Keys \ {k} : outcome'[i] = outcome[i]
    BY <1>2, <1>5, EndsOutcome DEF JP!Typed, JP!TypeOK
  <1>6. ASSUME NEW l, AdapterAt(p, l)
        PROVE  outcome' = outcome
    BY <1>6 DEF AdapterAt, journal
  <1>7. ASSUME NEW i \in Keys \ {k}
        PROVE  DoneInv(i)'
    <2>1. outcome'[i] = outcome[i]
      BY <1>5, <1>6, <1>7 DEF Adapter, ReadPath, CreateWorkspace, WriteTemporary, Replace,
         CheckTemplate, OpenTemplate, WriteTemplate, StartTool, EndTool
    <2>2. /\ made'[i] = made[i] /\ tool'[i] = tool[i]
          /\ i \in edited' <=> i \in edited
          /\ i \in reached' <=> i \in reached
      BY <1>2, <1>7 DEF Adapter, ReadPath, CreateWorkspace, WriteTemporary, Replace,
         CheckTemplate, OpenTemplate, WriteTemplate, StartTool, EndTool, Make, world, tree, WorkTyped
    <2> QED
      BY <1>3, <1>7, <2>1, <2>2, NothingDone DEF WorkInv
  <1>8. CASE ReadPath(p) \/ WriteTemporary(p) \/ CheckTemplate(p)
    <2>1. UNCHANGED world
      BY <1>8 DEF ReadPath, WriteTemporary, CheckTemplate
    <2>2. outcome'[k] = "zero" => outcome[k] = "zero" \/ Name(k) = <<"filesystem", "read">>
      BY <1>2, <1>5, <1>6, <1>8 DEF ReadPath, WriteTemporary, CheckTemplate, Runs, Name
    <2>3. Name(k) = <<"filesystem", "read">> => Accomplished(k)
      BY DEF Accomplished, Makers, IsDeployment, Name
    <2>4. Accomplished(k) <=> Accomplished(k)'
      BY <1>4, <2>1 DEF Accomplished, world, tree
    <2> QED
      BY <1>3, <1>4, <1>7, <2>1, <2>2, <2>3, <2>4 DEF DoneInv, WorkInv, world, tree
  <1>9. CASE CreateWorkspace(p)
    <2>1. /\ Name(k) = <<"filesystem", "create_workspace">>
          /\ UNCHANGED <<edited, tool, reached>>
          /\ \/ made'[k] = Place(k)
             \/ UNCHANGED made /\ outcome'[k] # "zero"
      BY <1>2, <1>5, <1>9 DEF CreateWorkspace, Runs, Make, Target, Name, WorkTyped
    <2>2. made'[k] = Place(k) => Accomplished(k)'
      BY <1>4, <2>1 DEF Accomplished, Makers, IsDeployment, Name
    <2>3. tool[k] = "none" /\ k \notin edited \cup reached
      BY <1>4, <2>1 DEF DoneInv, Senders
    <2>4. DoneInv(k)'
      BY <1>2, <1>3, <1>4, <2>1, <2>2, <2>3 DEF DoneInv, Makers
    <2> QED
      BY <1>7, <2>4 DEF WorkInv
  <1>10. CASE Replace(p)
    <2>1. /\ Name(k) = <<"filesystem", "overwrite">>
          /\ UNCHANGED <<made, tool, reached>>
          /\ \/ edited' = edited \cup {k}
             \/ edited' = edited /\ outcome'[k] # "zero"
      BY <1>2, <1>5, <1>10 DEF Replace, Runs, Name
    <2>2. k \in edited' => Accomplished(k)'
      BY <1>4, <2>1 DEF Accomplished, Makers, IsDeployment, Name
    <2>3. tool[k] = "none" /\ k \notin reached
      BY <1>4, <2>1 DEF DoneInv, Senders
    <2>4. DoneInv(k)'
      BY <1>2, <1>3, <1>4, <2>1, <2>2, <2>3 DEF DoneInv
    <2> QED
      BY <1>7, <2>4 DEF WorkInv
  <1>11. CASE OpenTemplate(p) \/ WriteTemplate(p)
    <2>1. Name(k) = Template /\ UNCHANGED <<edited, tool, reached>>
      BY <1>2, <1>11 DEF OpenTemplate, WriteTemplate, Runs, Name, Template
    <2>2. Accomplished(k)'
      BY <1>4, <2>1 DEF Accomplished, Makers, IsDeployment, Name, Template
    <2>3. DoneInv(k)'
      BY <1>2, <1>3, <1>4, <2>1, <2>2 DEF DoneInv, Senders, Template
    <2> QED
      BY <1>7, <2>3 DEF WorkInv
  <1>12. CASE StartTool(p)
    <2>1. /\ Name(k) \in Senders \cup {<<"anchor", "scaffold">>}
          /\ UNCHANGED <<made, edited, reached>>
          /\ \/ tool'[k] = "started" /\ outcome' = outcome /\ MayStart(k)
             \/ tool' = tool /\ outcome'[k] # "zero"
      BY <1>2, <1>5, <1>6, <1>12 DEF StartTool, ToolOperations, Runs, Name, Senders, tree, WorkTyped
    <2>2. MayStart(k) /\ IsDeployment(k) => ask[k].aim # "other"
      BY DEF MayStart, IsDeployment
    <2>3. Accomplished(k) => Accomplished(k)'
      BY <1>4, <2>1 DEF Accomplished
    <2>4. DoneInv(k)'
      BY <1>2, <1>3, <1>4, <2>1, <2>2, <2>3 DEF DoneInv
    <2> QED
      BY <1>7, <2>4 DEF WorkInv
  <1>13. CASE EndTool(p)
    <2>1. /\ UNCHANGED <<made, edited, reached>>
          /\ tool[k] # "none"
          /\ \/ tool' = tool
             \/ tool'[k] = "killed"
          /\ outcome'[k] = "zero" => tool[k] = "done"
      BY <1>2, <1>5, <1>13 DEF EndTool, Active, tree, WorkTyped
    <2>2. Accomplished(k) => Accomplished(k)'
      BY <1>4, <2>1 DEF Accomplished
    <2>3. DoneInv(k)'
      BY <1>2, <1>3, <1>4, <2>1, <2>2 DEF DoneInv
    <2> QED
      BY <1>7, <2>3 DEF WorkInv
  <1> QED
    BY <1>8, <1>9, <1>10, <1>11, <1>12, <1>13 DEF Adapter

\* So is the work of its tool.
LEMMA ToolWork ==
    ASSUME WorkTyped, WorkInv, NEW k \in Keys, ToolStep(k)
    PROVE  WorkInv'
  <1>1. UNCHANGED <<profile, ask, started, outcome, edited>>
    BY DEF ToolStep, Scaffold, Transact, journal, tree
  <1>2. /\ UNCHANGED <<Name(k), Place(k), IsDeployment(k)>>
        /\ DoneInv(k) /\ tool[k] \in Active
    BY <1>1 DEF Name, Place, IsDeployment, WorkInv, ToolStep, Scaffold, Transact, Active
  <1>3. ASSUME NEW i \in Keys \ {k}
        PROVE  DoneInv(i)'
    <2>1. /\ made'[i] = made[i] /\ tool'[i] = tool[i]
          /\ i \in reached' <=> i \in reached
      BY <1>3 DEF ToolStep, Scaffold, Transact, Make, tree, WorkTyped
    <2> QED
      BY <1>1, <1>3, <2>1, NothingDone DEF WorkInv
  <1>4. CASE Scaffold(k)
    <2>1. /\ Name(k) = <<"anchor", "scaffold">> /\ reached' = reached
          /\ \/ made'[k] = Place(k)
             \/ UNCHANGED made /\ tool[k] = "half" /\ tool'[k] = "done"
             \/ UNCHANGED made /\ tool'[k] = "failed"
      BY <1>4 DEF Scaffold, Make, Name, WorkTyped
    <2>2. made'[k] = Place(k) => Accomplished(k)'
      BY <1>1, <1>2, <2>1 DEF Accomplished, Makers, IsDeployment, Name
    <2>3. Accomplished(k) => Accomplished(k)'
      BY <1>1, <1>2, <2>1, <2>2 DEF Accomplished, Makers
    <2>4. Name(k) \in Makers /\ ~IsDeployment(k)
      BY <2>1 DEF Makers, IsDeployment, Name
    <2>5. DoneInv(k)'
      BY <1>1, <1>2, <2>1, <2>2, <2>3, <2>4 DEF DoneInv, Active, Senders
    <2> QED
      BY <1>3, <2>5 DEF WorkInv
  <1>5. CASE Transact(k)
    <2>1. /\ Name(k) \in Senders /\ UNCHANGED made
          /\ \/ tool'[k] = "half" /\ k \in reached'
             \/ tool'[k] = "half" /\ reached' = reached /\ ~IsDeployment(k)
             \/ tool'[k] = "failed" /\ reached' = reached
             \/ tool'[k] = "done" /\ tool[k] = "half" /\ reached' = reached
          /\ k \in reached => k \in reached'
      BY <1>5 DEF Transact, IsDeployment, Name, Senders, tree, WorkTyped
    <2>2. k \in reached' \/ ~IsDeployment(k) => Accomplished(k)'
      BY <1>1, <1>2, <2>1 DEF Accomplished, Makers, Senders
    <2>3. Accomplished(k) => Accomplished(k)'
      BY <2>1, <2>2 DEF Accomplished
    <2>4. DoneInv(k)'
      BY <1>1, <1>2, <2>1, <2>2, <2>3 DEF DoneInv, Active
    <2> QED
      BY <1>3, <2>4 DEF WorkInv
  <1> QED
    BY <1>4, <1>5 DEF ToolStep

LEMMA WorkInvariant == Spec => []WorkInv
  <1>1. ASSUME JournalInv, WorkTyped, WorkInv, [Next]_vars
        PROVE  WorkInv'
    <2>1. CASE JournalSide \/ (\E t \in Targets : Remove(t)) \/ UNCHANGED vars
      <3>1. UNCHANGED <<profile, ask, made, edited, tool, reached, outcome>>
        BY <2>1, JournalFrame, JournalSideFrame DEF JournalSide, Remove, vars, journal, world, tree
      <3>2. \A k \in Keys : k \in started => k \in started'
        BY <1>1, JournalSteps, SameJournal, JP!StartedStep, NoneIsFresh DEF JournalInv
      <3>3. started \subseteq started'
        BY <1>1, <3>2 DEF JournalInv, JP!Typed, JP!TypeOK
      <3> QED
        BY <1>1, <3>1, <3>3, NothingDone DEF WorkInv
    <2>2. CASE \E p \in Procs : Adapter(p)
      BY <1>1, <2>2, AdapterWork
    <2>3. CASE \E k \in Keys : ToolStep(k)
      BY <1>1, <2>3, ToolWork
    <2> QED
      BY <1>1, <2>1, <2>2, <2>3 DEF Next, JournalSide
  <1>2. JournalInv /\ WorkTyped /\ WorkInv /\ [Next]_vars => WorkInv'
    BY <1>1
  <1>3. QED
    BY <1>2, InitWork, TypedInvariant, JournalInvariant, PTL DEF Spec

-----------------------------------------------------------------------------
(* What the profile and the operator permitted                             *)

\* A command is started on an effect that is not denied, and the one that
\* needs an approval has it.
LEMMA StartedJudged ==
    ASSUME JournalInv, PolicyInv, NEW k \in Keys, k \in started
    PROVE  /\ policy[k] \notin {"none", "deny"} /\ Judged(k)
           /\ policy[k] = "require_approval" => Approved(k)
  BY DEF JournalInv, JP!CommandInv, JP!DecisionsInv, PolicyInv, Approved

\* The read-only profile has no rule for what changes the world; the guard on
\* existing paths asks for an approval before the profile is looked at.
LEMMA ReadOnlyApproved ==
    ASSUME JournalInv, PolicyInv, NEW k \in Keys, k \in started, profile = "read-only",
           Name(k) \notin Reading, Name(k)[1] # "solana_rpc"
    PROVE  Name(k) = <<"filesystem", "create_workspace">> /\ Approved(k)
  <1>1. RuleEffect(profile, ask[k].name) = "deny"
    BY DEF RuleEffect, Name
  <1>2. PICK present \in SUBSET Targets : policy[k] = Decision(profile, ask[k], present)
    BY StartedJudged DEF Judged
  <1>3. \E i \in 1..4 : Occupied(ask[k], i, present)
    BY <1>1, <1>2, StartedJudged DEF Decision
  <1>4. policy[k] = "require_approval"
    BY <1>1, <1>2, <1>3, StartedJudged DEF Decision
  <1> QED
    BY <1>3, <1>4, StartedJudged DEF Occupied, Name

\* What a gated command of the profile did, an operator approved.
LEMMA GatedApproved ==
    ASSUME JournalInv, PolicyInv, NEW k \in Keys, k \in started,
           Name(k) \in GatedLocally
    PROVE  profile # "read-only" /\ Approved(k) /\ ~Unsafe(ask[k])
  <1>1. PICK present \in SUBSET Targets : policy[k] = Decision(profile, ask[k], present)
    BY StartedJudged DEF Judged
  <1>2. Name(k) # <<"filesystem", "create_workspace">>
    BY DEF GatedLocally
  <1>3. ~Denied(ask[k], present) /\ policy[k] = RuleEffect(profile, ask[k].name)
    BY <1>1, <1>2, StartedJudged DEF Decision, Occupied, Name
  <1>4. /\ Name(k) \notin Reading /\ Name(k)[1] # "solana_rpc" /\ Name(k) \notin Building
        /\ Name(k) \notin GatedOnDevnet
    BY DEF GatedLocally, Reading, Building, GatedOnDevnet
  <1>5. RuleEffect(profile, ask[k].name) = IF profile = "read-only" THEN "deny" ELSE "require_approval"
    BY <1>4 DEF RuleEffect, Name
  <1> QED
    BY <1>3, <1>5, StartedJudged DEF Denied

\* Whatever the workspaces were when commands were judged and when they ran,
\* and however processes, tools and operators interleave: effects are of
\* started commands that the profile permits or, for the creation of a
\* workspace, an operator approved; overwrites and deployments are approved,
\* and a deployment had its facts.
THEOREM Governed == Spec => []EffectsAreGoverned
  <1>1. ASSUME JournalInv, WorkTyped, PolicyInv, WorkInv, NEW k \in Keys
        PROVE  /\ made[k] # None =>
                     \/ profile # "read-only"
                     \/ ask[k].name = <<"filesystem", "create_workspace">> /\ Approved(k)
               /\ k \in edited => profile # "read-only" /\ Approved(k)
               /\ k \in reached =>
                     /\ profile # "read-only"
                     /\ IsDeployment(k) =>
                           /\ Approved(k)
                           /\ {ask[k].cluster, ask[k].aim} \subseteq {"localnet", "devnet"}
                           /\ ask[k].wallet /\ ask[k].contract /\ ask[k].lamports = "within"
    <2>1. /\ DoneInv(k)
          /\ made[k] # None \/ k \in edited \cup reached =>
                /\ k \in started
                /\ Name(k) \notin Reading /\ Name(k)[1] # "solana_rpc"
      BY <1>1 DEF WorkInv, DoneInv, Makers, Senders, Template, Reading
    <2>2. made[k] # None => \/ profile # "read-only"
                            \/ Name(k) = <<"filesystem", "create_workspace">> /\ Approved(k)
      BY <1>1, <2>1, ReadOnlyApproved
    <2>3. k \in edited => profile # "read-only" /\ Approved(k)
      BY <1>1, <2>1, GatedApproved DEF DoneInv, GatedLocally
    <2>4. k \in reached => profile # "read-only"
      BY <1>1, <2>1, ReadOnlyApproved DEF DoneInv, Senders
    <2>5. ASSUME k \in reached, IsDeployment(k)
          PROVE  /\ Approved(k)
                 /\ {ask[k].cluster, ask[k].aim} \subseteq {"localnet", "devnet"}
                 /\ ask[k].wallet /\ ask[k].contract /\ ask[k].lamports = "within"
      <3>1. Name(k) \in GatedLocally \cap Material
        BY <2>5 DEF IsDeployment, Name, GatedLocally, Material
      <3>2. Approved(k) /\ ~Unsafe(ask[k]) /\ ask[k].aim # "other"
        BY <1>1, <2>1, <2>5, <3>1, GatedApproved DEF DoneInv
      <3>3. /\ ask[k].cluster \in {"none", "localnet", "devnet", "mainnet", "other"}
            /\ ask[k].aim \in {"localnet", "devnet", "other"}
            /\ ask[k].lamports \in {"none", "negative", "within", "above"}
        BY <1>1, AskType DEF AskOf
      <3> QED
        BY <3>1, <3>2, <3>3 DEF Unsafe, Name
    <2> QED
      BY <2>2, <2>3, <2>4, <2>5 DEF Name
  <1>2. JournalInv /\ WorkTyped /\ PolicyInv /\ WorkInv => EffectsAreGoverned
    BY <1>1 DEF EffectsAreGoverned
  <1>3. QED
    BY <1>2, WorkInvariant, PolicyInvariant, TypedInvariant, JournalInvariant, PTL

\* A success in the journal is the success of the work: whoever raced for the
\* directory, or removed it, it was made by this command, the file was
\* replaced by it, its tool sent the transactions.
THEOREM Successful == Spec => []SuccessIsDone
  <1>1. ASSUME JournalInv, WorkInv, NEW k \in Keys, status[k] = "succeeded"
        PROVE  Accomplished(k)
    BY <1>1 DEF JournalInv, JP!CommandInv, JP!ResultIsTrue, WorkInv, DoneInv
  <1>2. JournalInv /\ WorkInv => SuccessIsDone
    BY <1>1 DEF SuccessIsDone, Accomplished, Makers, Name
  <1>3. QED
    BY <1>2, WorkInvariant, JournalInvariant, PTL

\* A running template command, in a profile that allows it.
LEMMA TemplateAllowed ==
    ASSUME JournalInv, PolicyInv, NEW k \in Keys, k \in started, Name(k) = Template
    PROVE  profile # "read-only"
  BY ReadOnlyApproved DEF Template, Reading

\* An operator's source that is not removed is lost to the template only, by a
\* command that is running or that a recovery took for dead: the other
\* adapters and the tools leave it, or put another source of an operator in
\* its place.
THEOREM Deliberate == Spec => EditsAreDeliberate
  <1>1. ASSUME JournalInv, WorkTyped, PolicyInv, [Next]_vars, NEW t \in Targets,
               source[t] = "operator", source'[t] # "operator", directory'[t] # "absent"
        PROVE  \E k \in Keys : /\ ask[k].name = <<"counter_template", "apply">>
                               /\ Place(k) = t
                               /\ profile # "read-only"
                               /\ status[k] \in {"running", "interrupted"}
    <2>1. ~(JournalSide \/ UNCHANGED vars)
      BY <1>1, JournalFrame DEF JournalSide, vars, world, tree
    <2>2. ASSUME NEW i \in Targets, Remove(i)
          PROVE  FALSE
      BY <1>1, <2>2 DEF Remove, WorkTyped
    <2>3. ASSUME NEW k \in Keys, ToolStep(k)
          PROVE  FALSE
      <3>1. /\ source[Place(k)] = "absent"
            /\ source' = [source EXCEPT ![Place(k)] = "generated"]
        BY <1>1, <2>3 DEF ToolStep, Scaffold, Transact, tree
      <3> QED
        BY <1>1, <3>1 DEF WorkTyped
    <2>4. PICK p \in Procs : Adapter(p)
      BY <1>1, <2>1, <2>2, <2>3 DEF Next, JournalSide
    <2>5. OpenTemplate(p) \/ WriteTemplate(p)
      BY <1>1, <2>4 DEF Adapter, ReadPath, CreateWorkspace, WriteTemporary, Replace, CheckTemplate,
         StartTool, EndTool, world, tree, WorkTyped
    <2>6. /\ pc[p] = "executing" /\ Place(Command(p)) = t
          /\ ask[Command(p)].name = <<"counter_template", "apply">>
      BY <1>1, <2>5 DEF OpenTemplate, WriteTemplate, Runs, Target, WorkTyped
    <2> QED
      BY <1>1, <2>6, AtWork, TemplateAllowed DEF Name, Template
  <1>2. JournalInv /\ WorkTyped /\ PolicyInv /\ [Next]_vars =>
           [\A t \in Targets :
               source[t] = "operator" /\ source'[t] # "operator" /\ directory'[t] # "absent"
               => \E k \in Keys : /\ ask[k].name = <<"counter_template", "apply">>
                                  /\ Place(k) = t
                                  /\ profile # "read-only"
                                  /\ status[k] \in {"running", "interrupted"}]_vars
    BY <1>1
  <1>3. QED
    BY <1>2, PolicyInvariant, TypedInvariant, JournalInvariant, PTL DEF Spec, EditsAreDeliberate

-----------------------------------------------------------------------------
(* What a recorded result says of the tool                                 *)

\* Locations from which a command is started, or gets its result, without
\* another look at its tool.
Settling == {"authorized", "running", "failing"} \cup JP!Returned

\* A tool is at work only for a command that is running or was interrupted,
\* and while its process waits for it.
StopInv ==
    /\ RecordedMeansStopped
    /\ \A p \in Procs :
          pc[p] \in Settling \/ (pc[p] = "executing" /\ at[p] # "tool")
          => tool[Command(p)] \notin Active

\* A process that settles a command which runs, or was interrupted, settled
\* it before.
LEMMA SettlesOn ==
    ASSUME JournalInv, NEW p \in Procs, JournalStep(p), NEW k \in Keys,
           status[k] \in {"running", "interrupted"},
           local'[p].key = k, pc'[p] \in Settling \cup {"executing"}
    PROVE  local[p].key = k /\ pc[p] \in Settling
  <1> USE DEF J!Continue, J!Goto, J!Return, J!NoJob, Settling, JP!Returned
  <1>1. JP!Typed /\ k # None
    BY NoneIsFresh DEF JournalInv
  <1>2. /\ local[p].key = k => pc[p] \notin JP!Deciding
        /\ local[p].guarded => pc[p] \in JP!Deciding \cup {"authorized"} \cup JP!Executing
    BY DEF JournalInv, JP!CommandInv, JP!DecidersInv, JP!DeciderOK
  <1>3. ASSUME J!Raise(p)
        PROVE  local[p].key = k /\ local[p].guarded
    BY <1>1, <1>3 DEF J!Raise, JP!Typed, JP!TypeOK, JP!Job
  <1>4. ASSUME NEW target, NEW l, l \notin Settling \cup {"executing"}, J!Transition(p, target, l)
        PROVE  local[p].key = k /\ local[p].guarded
    <2>1. pc' = [pc EXCEPT ![p] = l] => pc'[p] = l
      BY <1>1 DEF JP!Typed, JP!TypeOK
    <2>2. ~J!Goto(p, l)
      BY <1>4, <2>1
    <2>3. J!Raise(p)
      BY <1>4, <2>2 DEF J!Transition
    <2> QED
      BY <1>3, <2>3
  <1>5. ~\E i \in Keys : J!Plan(p, i) \/ J!StartApproved(p, i) \/ J!Interrupt(p, i)
    <2>1. \A i \in Keys : ~J!Plan(p, i)
      BY DEF J!Plan, JP!Typed, JP!TypeOK, JournalInv
    <2>2. \A i \in Keys : ~J!StartApproved(p, i)
      BY DEF J!StartApproved, JP!Typed, JP!TypeOK, JournalInv
    <2>3. \A i \in Keys : ~J!Interrupt(p, i)
      BY DEF J!Interrupt, JP!Typed, JP!TypeOK, JournalInv
    <2> QED
      BY <2>1, <2>2, <2>3
  <1>6. ~(\/ J!BeginValidation(p) \/ J!RequestApproval(p) \/ J!StartRecovery(p)
          \/ J!ExpireApproval(p) \/ J!ListRunning(p) \/ J!EndRecovery(p))
    BY DEF J!BeginValidation, J!RequestApproval, J!StartRecovery, J!ExpireApproval, J!ListRunning,
       J!EndRecovery, JP!Typed, JP!TypeOK, JournalInv
  <1>7. ~(J!CheckApproval(p) \/ J!Consume(p))
    BY DEF J!CheckApproval, J!Consume, JP!Typed, JP!TypeOK, JournalInv
  <1>8. ~(J!Reject(p) \/ J!AwaitApproval(p) \/ J!RefuseApproved(p) \/ J!FailValidation(p))
    BY <1>2, <1>4 DEF J!Reject, J!AwaitApproval, J!RefuseApproved, J!FailValidation,
       JP!Deciding, JP!Executing
  <1>9. ~(J!Authorize(p) \/ J!AuthorizeApproved(p))
    <2>1. ASSUME NEW l, J!Transition(p, "authorized", l), pc[p] \in {"decided", "consumed"}
          PROVE  FALSE
      <3>1. ~J!CanMove(k, "authorized")
        BY DEF J!CanMove, J!Successors
      <3>2. ~J!Raise(p)
        BY <1>2, <1>3, <2>1 DEF JP!Deciding, JP!Executing
      <3>3. J!CanMove(local[p].key, "authorized") /\ J!Goto(p, l)
        BY <2>1, <3>2 DEF J!Transition
      <3> QED
        BY <1>1, <3>1, <3>3 DEF JP!Typed, JP!TypeOK
    <2> QED
      BY <2>1 DEF J!Authorize, J!AuthorizeApproved
  <1>10. J!RecordOutcome(p) => local[p].key = k /\ pc[p] \in Settling
    BY <1>4 DEF J!RecordOutcome
  <1>11. J!StartRunning(p) => local[p].key = k /\ pc[p] \in Settling
    BY <1>1, <1>3 DEF J!StartRunning, J!Transition, JP!Typed, JP!TypeOK
  <1>12. J!CallExecutor(p) \/ J!RecordStreams(p) => local[p].key = k /\ pc[p] \in Settling
    BY <1>1 DEF J!CallExecutor, J!RecordStreams, JP!Typed, JP!TypeOK
  <1>13. J!Refused(p) => local[p].key = k /\ pc[p] \in Settling
    BY <1>2, <1>3 DEF J!Refused, JP!Executing
  <1> QED
    BY <1>5, <1>6, <1>7, <1>8, <1>9, <1>10, <1>11, <1>12, <1>13 DEF JournalStep, J!Approve

\* The command of a process that executes it is nobody else's.
LEMMA OneSettles ==
    ASSUME JournalInv, NEW p \in Procs, NEW q \in Procs, pc[p] = "executing",
           Command(q) = Command(p), pc[q] \in Settling \cup {"executing"}
    PROVE  q = p
  BY DEF JournalInv, JP!CommandInv, JP!ExecutorsInv, JP!OwnersInv, JP!Rival, JP!Executing,
     Settling, Command

\* The adapter that returns leaves no tool at work.
LEMMA ToolsEnd ==
    ASSUME JournalInv, WorkTyped, WorkInv, StopInv, NEW p \in Procs, Adapter(p)
    PROVE  StopInv'
  <1> USE DEF JournalInv
  <1>1. pc[p] = "executing"
    BY DEF Adapter, ReadPath, CreateWorkspace, WriteTemporary, Replace, CheckTemplate,
     OpenTemplate,
       WriteTemplate, StartTool, EndTool, Runs
  <1>2. PICK k \in Keys : k = Command(p)
    BY <1>1, AtWork
  <1>3. status[k] \in {"running", "interrupted"} /\ UNCHANGED status
    BY <1>1, <1>2, AtWork, WorkFrame
  <1>4. \A i \in Keys \ {k} : tool'[i] = tool[i]
    BY <1>2 DEF Adapter, ReadPath, CreateWorkspace, WriteTemporary, Replace, CheckTemplate,
     OpenTemplate,
       WriteTemplate, StartTool, EndTool, world, WorkTyped
  <1>5. ASSUME NEW q \in Procs, q # p
        PROVE  pc'[q] = pc[q] /\ local'[q] = local[q] /\ at'[q] = at[q]
    <2>1. pc'[q] = pc[q] /\ local'[q] = local[q]
      BY <1>5, AdapterStep DEF J!ExecutorReturns, J!Continue, journal, JP!Typed, JP!TypeOK
    <2>2. at' = at \/ \E l : at' = [at EXCEPT ![p] = l]
      BY DEF Adapter, ReadPath, CreateWorkspace, WriteTemporary, Replace, CheckTemplate,
     OpenTemplate,
         WriteTemplate, StartTool, EndTool, Ends, AdapterAt
    <2> QED
      BY <1>5, <2>1, <2>2 DEF WorkTyped
  <1>6. local'[p].key = k
    BY <1>2, AdapterStep DEF J!ExecutorReturns, J!Continue, journal, JP!Typed, JP!TypeOK, JP!Job,
       Command
  <1>7. RecordedMeansStopped'
    BY <1>3, <1>4 DEF RecordedMeansStopped, StopInv
  <1>8. ASSUME NEW q \in Procs, q # p,
               pc'[q] \in Settling \/ (pc'[q] = "executing" /\ at'[q] # "tool")
        PROVE  tool'[Command(q)'] \notin Active
    <2>1. Command(q)' = Command(q) /\ tool[Command(q)] \notin Active
      BY <1>5, <1>8 DEF StopInv, Command
    <2>2. Command(q) # k /\ Command(q) \in Keys
      BY <1>1, <1>2, <1>5, <1>8, OneSettles, CommandType DEF Settling, JP!Returned
    <2> QED
      BY <1>4, <2>1, <2>2
  <1>9. ASSUME pc'[p] \in Settling \/ (pc'[p] = "executing" /\ at'[p] # "tool")
        PROVE  tool'[k] \notin Active
    <2>1. CASE EndTool(p)
      BY <1>2, <2>1 DEF EndTool, Active, WorkTyped
    <2>2. CASE StartTool(p)
      <3>1. CASE AdapterAt(p, "tool")
        BY <1>1, <1>9, <3>1 DEF AdapterAt, journal, WorkTyped, Settling, JP!Returned
      <3>2. CASE ~AdapterAt(p, "tool")
        <4>1. tool' = tool /\ at[p] = "adapter"
          BY <2>2, <3>2 DEF StartTool, Runs
        <4> QED
          BY <1>1, <1>2, <4>1 DEF StopInv
      <3> QED
        BY <3>1, <3>2
    <2>3. CASE \/ ReadPath(p) \/ CreateWorkspace(p) \/ WriteTemporary(p) \/ Replace(p)
               \/ CheckTemplate(p) \/ OpenTemplate(p) \/ WriteTemplate(p)
      <3>1. at[p] # "tool" /\ tool' = tool
        BY <2>3 DEF ReadPath, CreateWorkspace, WriteTemporary, Replace, CheckTemplate,
     OpenTemplate,
           WriteTemplate, Runs, world
      <3> QED
        BY <1>1, <1>2, <3>1 DEF StopInv
    <2> QED
      BY <2>1, <2>2, <2>3 DEF Adapter
  <1> QED
    BY <1>6, <1>7, <1>8, <1>9 DEF StopInv, Command

LEMMA NextStop ==
    ASSUME JournalInv, JournalInv', WorkTyped, WorkInv, StopInv, [Next]_vars
    PROVE  StopInv'
  <1>1. CASE JournalSide
    <2>1. UNCHANGED tool /\ [JP!Next]_(JP!vars)
      BY <1>1, JournalFrame, JournalSteps, SameJournal DEF JournalSide
    <2>2. RecordedMeansStopped'
      <3> SUFFICES ASSUME NEW k \in Keys, tool[k] \in Active,
                          status'[k] \notin {"running", "interrupted"}
                   PROVE  FALSE
        BY <2>1 DEF RecordedMeansStopped
      <3>1. PICK p \in Procs : local[p].key = k /\ pc[p] \in {"recording", "failing"}
        BY <2>1, JP!EndedStep, NoneIsFresh DEF JournalInv, StopInv, RecordedMeansStopped
      <3> QED
        BY <3>1 DEF StopInv, Settling, JP!Returned, Command
    <2>3. ASSUME NEW q \in Procs, pc'[q] = pc[q], local'[q] = local[q], at'[q] = at[q],
                 pc'[q] \in Settling \/ (pc'[q] = "executing" /\ at'[q] # "tool")
          PROVE  tool'[Command(q)'] \notin Active
      BY <2>1, <2>3 DEF StopInv, Command
    <2>4. ASSUME NEW p \in Procs, JournalStep(p), NEW q \in Procs,
                 pc'[q] \in Settling \/ (pc'[q] = "executing" /\ at'[q] # "tool")
          PROVE  tool'[Command(q)'] \notin Active
      <3>1. UNCHANGED at
        BY <2>4 DEF JournalStep
      <3>2. CASE q # p
        BY <2>3, <2>4, <3>1, <3>2, JournalMoves DEF J!Continue, JournalInv, JP!Typed, JP!TypeOK
      <3>3. CASE q = p
        <4>1. Command(p)' \in Keys
          BY <2>4, <3>3 DEF JournalInv, JP!Typed, JP!JobOK, Settling, JP!Returned, Command
        <4>2. PICK k \in Keys : k = Command(p)'
          BY <4>1
        <4>3. CASE status[k] \in {"running", "interrupted"}
          BY <2>1, <2>4, <3>3, <4>2, <4>3, SettlesOn DEF StopInv, Command
        <4>4. CASE status[k] \notin {"running", "interrupted"}
          BY <2>1, <3>3, <4>2, <4>4 DEF StopInv, RecordedMeansStopped
        <4> QED
          BY <4>3, <4>4
      <3> QED
        BY <3>2, <3>3
    <2>5. ASSUME NEW p \in Procs, Evaluate(p) \/ Die(p), NEW q \in Procs,
                 pc'[q] \in Settling \/ (pc'[q] = "executing" /\ at'[q] # "tool")
          PROVE  tool'[Command(q)'] \notin Active
      <3>1. /\ \E l \in {"idle", "decided"} : \E j : J!Continue(p, l, j)
            /\ at' = at \/ at' = [at EXCEPT ![p] = "adapter"]
        BY <2>5 DEF Evaluate, J!Evaluate, Die, J!Die, J!Return
      <3>2. q # p
        BY <2>5, <3>1 DEF J!Continue, JournalInv, JP!Typed, JP!TypeOK, Settling, JP!Returned
      <3> QED
        BY <2>3, <2>5, <3>1, <3>2 DEF J!Continue, JournalInv, JP!Typed, JP!TypeOK, WorkTyped
    <2>6. ASSUME NEW k \in Keys, Operator(k), NEW q \in Procs,
                 pc'[q] \in Settling \/ (pc'[q] = "executing" /\ at'[q] # "tool")
          PROVE  tool'[Command(q)'] \notin Active
      BY <2>3, <2>6 DEF Operator, J!DecideApproval, J!Lapse
    <2> QED
      BY <1>1, <2>2, <2>4, <2>5, <2>6 DEF JournalSide, StopInv
  <1>2. CASE \E p \in Procs : Adapter(p)
    BY <1>2, ToolsEnd
  <1>3. ASSUME NEW k \in Keys, ToolStep(k)
        PROVE  StopInv'
    <2>1. UNCHANGED <<status, pc, local, at>>
      BY <1>3 DEF ToolStep, journal
    <2>2. tool' = tool \/ \E s \in Tools : tool' = [tool EXCEPT ![k] = s]
      BY <1>3 DEF ToolStep, Scaffold, Transact, Tools
    <2>3. tool[k] \in Active
      BY <1>3 DEF ToolStep, Scaffold, Transact, Active
    <2>4. \A i \in Keys : tool'[i] \in Active => tool[i] \in Active
      BY <2>2, <2>3 DEF WorkTyped
    <2>5. \A p \in Procs : pc[p] \in Settling \cup {"executing"} => Command(p) \in Keys
      BY CommandType DEF JournalInv, Settling, JP!Returned
    <2> QED
      BY <2>1, <2>4, <2>5 DEF StopInv, RecordedMeansStopped, Command
  <1>4. CASE UNCHANGED vars \/ \E t \in Targets : Remove(t)
    BY <1>4 DEF vars, Remove, journal, world, StopInv, RecordedMeansStopped, Command
  <1> QED
    BY <1>1, <1>2, <1>3, <1>4 DEF Next, JournalSide

\* However a command ended, its tool has ended: only the tool of a command
\* that is running, or that a recovery took for dead, may still be at work.
THEOREM Stopped == Spec => []RecordedMeansStopped
  <1>1. Init => StopInv
    BY DEF Init, J!Init, StopInv, RecordedMeansStopped, Active, Settling, JP!Returned
  <1>2. JournalInv /\ JournalInv' /\ WorkTyped /\ WorkInv /\ StopInv /\ [Next]_vars => StopInv'
    BY NextStop
  <1>3. StopInv => RecordedMeansStopped
    BY DEF StopInv
  <1>4. QED
    BY <1>1, <1>2, <1>3, WorkInvariant, TypedInvariant, JournalInvariant, PTL DEF Spec
=============================================================================
