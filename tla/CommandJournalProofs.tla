------------------------ MODULE CommandJournalProofs ------------------------
(***************************************************************************)
(* Theorems about CommandJournal: type correctness, the inductive          *)
(* invariant with the safety properties in it, the settling of approvals,  *)
(* and the refinement of GovernedCommand.                                  *)
(***************************************************************************)
EXTENDS CommandJournal, TLAPS

\* What a process holds fits the place where it is.
JobOK(l, job) ==
    /\ l \notin {"idle", "expiring", "interrupting"} => job.key \in Keys
    /\ l = "decided" => job.effect \in Effects
    /\ l \in Returned => job.result \in Results
    /\ job.guarded => job.key \in Keys

Typed == TypeOK /\ \A p \in Procs : JobOK(pc[p], local[p])

LEMMA NoJobType == NoJob \in Job /\ JobOK("idle", NoJob)
  BY DEF NoJob, Job, JobOK, Returned

\* The jobs that a handler starts with.
LEMMA NewJobType ==
    ASSUME NEW k \in Keys, NEW c \in {"execute", "validate", "approved"},
           NEW e \in Effects \cup {"none"}
    PROVE  /\ [NoJob EXCEPT !.key = k, !.cmd = c, !.effect = e] \in Job
           /\ [NoJob EXCEPT !.key = k, !.cmd = c] \in Job
  BY DEF NoJob, Job

\* A step to location l with a job that fits keeps processes well typed.
LEMMA ContinueTyped ==
    ASSUME Typed, NEW p \in Procs, NEW l \in Locations, NEW j \in Job, Continue(p, l, j),
           JobOK(l, j)
    PROVE  /\ pc' \in [Procs -> Locations]
           /\ local' \in [Procs -> Job]
           /\ \A q \in Procs : JobOK(pc[q], local[q])'
  BY DEF Typed, TypeOK, JobOK, Continue

\* The state a process leaves behind when it changes no table.
ProcsTyped ==
    /\ pc' \in [Procs -> Locations]
    /\ local' \in [Procs -> Job]
    /\ \A q \in Procs : JobOK(pc[q], local[q])'

LEMMA ReturnTyped ==
    ASSUME Typed, NEW p \in Procs, Return(p)
    PROVE  ProcsTyped
  BY NoJobType, ContinueTyped DEF Return, Locations, ProcsTyped

LEMMA GotoTyped ==
    ASSUME Typed, NEW p \in Procs, NEW l \in Locations, Goto(p, l),
           JobOK(l, local[p])
    PROVE  ProcsTyped
  BY ReturnTyped, ContinueTyped DEF Goto, ProcsTyped, Typed, TypeOK

LEMMA RaiseTyped ==
    ASSUME Typed, NEW p \in Procs, Raise(p), local[p].key \in Keys \/ ~local[p].guarded
    PROVE  ProcsTyped
  <1>1. CASE local[p].guarded
    <2>1. [local[p] EXCEPT !.guarded = FALSE] \in Job
      BY DEF Typed, TypeOK, Job
    <2>2. JobOK("failing", [local[p] EXCEPT !.guarded = FALSE])
      BY <1>1 DEF Typed, TypeOK, Job, JobOK, Returned
    <2>3. QED
      BY <1>1, <2>1, <2>2, ContinueTyped DEF Raise, Locations, ProcsTyped
  <1>2. CASE ~local[p].guarded
    BY <1>2, ReturnTyped DEF Raise
  <1>3. QED
    BY <1>1, <1>2

LEMMA MoveTyped ==
    ASSUME Typed, NEW k \in Keys, NEW target \in Status, Move(k, target)
    PROVE  status' \in [Keys -> Status] /\ started' \subseteq Keys
  BY DEF Typed, TypeOK, Move

LEMMA TransitionTyped ==
    ASSUME Typed, NEW p \in Procs, NEW target \in Status, NEW l \in Locations,
           Transition(p, target, l), local[p].key \in Keys, JobOK(l, local[p])
    PROVE  ProcsTyped /\ status' \in [Keys -> Status] /\ started' \subseteq Keys
  <1>1. CASE CanMove(local[p].key, target) /\ Move(local[p].key, target) /\ Goto(p, l)
    BY <1>1, MoveTyped, GotoTyped
  <1>2. CASE Raise(p) /\ UNCHANGED command
    BY <1>2, RaiseTyped DEF command, Typed, TypeOK
  <1>3. QED
    BY <1>1, <1>2 DEF Transition

LEMMA InitTyped == Init => Typed
  BY NoJobType DEF Init, Typed, TypeOK, JobOK, Status, Effects, ApprovalStatus, Results,
     Locations, Returned

\* A key that a process in a handler holds.
LEMMA KeyType ==
    ASSUME Typed, NEW p \in Procs, pc[p] \notin {"idle", "expiring", "interrupting"}
    PROVE  local[p].key \in Keys /\ local[p] \in Job
  BY DEF Typed, TypeOK, JobOK

LEMMA JudgeTyped ==
    ASSUME Typed, NEW p \in Procs, Judge(p)
    PROVE  Typed'
  <1> DEFINE k == local[p].key
  <1>1. /\ pc[p] \notin {"idle", "expiring", "interrupting"}
        /\ pc[p] \notin Returned
        /\ pc[p] \in {"planned", "validating", "decided", "requested", "failing"}
    BY DEF Judge, BeginValidation, Consult, Evaluate, Reject, Authorize, RequestApproval,
           AwaitApproval, FailValidation, Returned
  <1>2. k \in Keys /\ local[p] \in Job
    BY <1>1, KeyType
  <1>3. JobOK("idle", local[p]) /\ JobOK("authorized", local[p]) /\ JobOK("requested", local[p])
    BY <1>2 DEF JobOK, Returned
  <1>4. /\ Locations = Locations \cup {"idle", "planned", "validating", "decided", "requested",
                                        "authorized", "failing"}
        /\ Status = Status \cup {"validating", "rejected", "authorized", "approval_required",
                                  "failed"}
    BY DEF Locations, Status, Terminal
  <1>5. CASE BeginValidation(p)
    <2>1. CASE /\ Move(k, "validating")
               /\ Continue(p, "validating", [local[p] EXCEPT !.guarded = TRUE])
      <3>1. /\ [local[p] EXCEPT !.guarded = TRUE] \in Job
            /\ JobOK("validating", [local[p] EXCEPT !.guarded = TRUE])
        BY <1>2 DEF Job, JobOK, Returned
      <3>2. ProcsTyped
        BY <1>4, <2>1, <3>1, ContinueTyped DEF ProcsTyped
      <3>3. status' \in [Keys -> Status] /\ started' \subseteq Keys
        BY <1>2, <1>4, <2>1, MoveTyped
      <3>4. QED
        BY <1>5, <3>2, <3>3 DEF BeginValidation, authority, execution, ProcsTyped, Typed, TypeOK
    <2>2. CASE Return(p) /\ UNCHANGED command
      BY <1>5, <2>2, ReturnTyped
         DEF BeginValidation, command, authority, execution, ProcsTyped, Typed, TypeOK
    <2>3. QED
      BY <1>5, <2>1, <2>2 DEF BeginValidation
  <1>6. CASE Consult(p) \/ Evaluate(p)
    <2>1. PICK e \in Effects, g \in BOOLEAN :
             /\ Continue(p, "decided", [local[p] EXCEPT !.effect = e, !.guarded = g])
             /\ policy' \in {policy, [policy EXCEPT ![k] = e]}
      <3>1. CASE Consult(p)
        BY <3>1 DEF Consult, authority
      <3>2. CASE Evaluate(p)
        <4>1. PICK e \in Effects : /\ Continue(p, "decided", [local[p] EXCEPT !.effect = e])
                                   /\ policy' = [policy EXCEPT ![k] = e]
          BY <3>2 DEF Evaluate
        <4>2. [local[p] EXCEPT !.effect = e] =
                 [local[p] EXCEPT !.effect = e, !.guarded = local[p].guarded]
              /\ local[p].guarded \in BOOLEAN
          BY <1>2 DEF Job
        <4>3. QED
          BY <4>1, <4>2
      <3>3. QED
        BY <1>6, <3>1, <3>2
    <2>2. /\ [local[p] EXCEPT !.effect = e, !.guarded = g] \in Job
          /\ JobOK("decided", [local[p] EXCEPT !.effect = e, !.guarded = g])
      BY <1>2 DEF Job, JobOK, Returned
    <2>3. ProcsTyped
      BY <1>4, <2>1, <2>2, ContinueTyped DEF ProcsTyped
    <2>4. policy' \in [Keys -> Effects \cup {"none"}]
      BY <1>2, <2>1 DEF Typed, TypeOK
    <2>5. QED
      BY <1>6, <2>3, <2>4
         DEF Consult, Evaluate, command, authority, execution, ProcsTyped, Typed, TypeOK
  <1>7. CASE Reject(p) \/ Authorize(p) \/ FailValidation(p)
    <2>1. \E target \in {"rejected", "authorized", "failed"}, l \in {"idle", "authorized"} :
             Transition(p, target, l)
      BY <1>7 DEF Reject, Authorize, FailValidation
    <2>2. ProcsTyped /\ status' \in [Keys -> Status] /\ started' \subseteq Keys
      BY <1>2, <1>3, <1>4, <2>1, TransitionTyped
    <2>3. QED
      BY <1>7, <2>2
         DEF Reject, Authorize, FailValidation, authority, execution, ProcsTyped, Typed, TypeOK
  <1>8. CASE RequestApproval(p)
    <2>1. ProcsTyped
      BY <1>3, <1>4, <1>8, GotoTyped DEF RequestApproval
    <2>2. approval' \in [Keys -> ApprovalStatus]
      BY <1>2, <1>8 DEF RequestApproval, Typed, TypeOK, ApprovalStatus
    <2>3. QED
      BY <1>8, <2>1, <2>2 DEF RequestApproval, command, execution, ProcsTyped, Typed, TypeOK
  <1>9. CASE AwaitApproval(p)
    <2>1. ProcsTyped /\ status' \in [Keys -> Status] /\ started' \subseteq Keys
      BY <1>2, <1>3, <1>4, <1>9, TransitionTyped DEF AwaitApproval
    <2>2. bound' \subseteq Keys
      BY <1>2, <1>9 DEF AwaitApproval, Typed, TypeOK
    <2>3. QED
      BY <1>9, <2>1, <2>2 DEF AwaitApproval, execution, ProcsTyped, Typed, TypeOK
  <1>10. QED
    BY <1>5, <1>6, <1>7, <1>8, <1>9 DEF Judge

LEMMA ApproveTyped ==
    ASSUME Typed, NEW p \in Procs, Approve(p)
    PROVE  Typed'
  <1> DEFINE k == local[p].key
  <1>1. pc[p] \in {"approving", "refusing", "consuming", "consumed"}
    BY DEF Approve, CheckApproval, RefuseApproved, Consume, AuthorizeApproved
  <1>2. k \in Keys /\ local[p] \in Job
    BY <1>1, KeyType
  <1>3. JobOK("idle", local[p]) /\ \A l \in {"refusing", "consuming", "consumed", "authorized"} :
                                      JobOK(l, local[p])
    BY <1>2 DEF JobOK, Returned
  <1>4. /\ {"idle", "refusing", "consuming", "consumed", "authorized"} \subseteq Locations
        /\ {"rejected", "authorized"} \subseteq Status
    BY DEF Locations, Status, Terminal
  <1>5. \A a \in ApprovalStatus : Expired(a) \in ApprovalStatus
    BY DEF Expired, ApprovalStatus
  <1>6. CASE CheckApproval(p)
    <2>1. \E l \in {"refusing", "consuming"} : Goto(p, l)
      BY <1>6 DEF CheckApproval
    <2>2. approval' \in [Keys -> ApprovalStatus]
      BY <1>2, <1>5, <1>6 DEF CheckApproval, Typed, TypeOK
    <2>3. ProcsTyped
      BY <1>3, <1>4, <2>1, GotoTyped
    <2>4. QED
      BY <1>6, <2>2, <2>3 DEF CheckApproval, command, execution, ProcsTyped, Typed, TypeOK
  <1>7. CASE Consume(p)
    <2>1. Goto(p, "consumed") \/ Return(p)
      BY <1>7 DEF Consume
    <2>2. approval' \in [Keys -> ApprovalStatus]
      BY <1>2, <1>7 DEF Consume, Typed, TypeOK, ApprovalStatus
    <2>3. ProcsTyped
      BY <1>3, <1>4, <2>1, GotoTyped, ReturnTyped
    <2>4. QED
      BY <1>7, <2>2, <2>3 DEF Consume, command, execution, ProcsTyped, Typed, TypeOK
  <1>8. CASE RefuseApproved(p) \/ AuthorizeApproved(p)
    <2>1. \E target \in {"rejected", "authorized"}, l \in {"idle", "authorized"} :
             Transition(p, target, l)
      BY <1>8 DEF RefuseApproved, AuthorizeApproved
    <2>2. ProcsTyped /\ status' \in [Keys -> Status] /\ started' \subseteq Keys
      BY <1>2, <1>3, <1>4, <2>1, TransitionTyped
    <2>3. QED
      BY <1>8, <2>2
         DEF RefuseApproved, AuthorizeApproved, authority, execution, ProcsTyped, Typed, TypeOK
  <1>9. QED
    BY <1>6, <1>7, <1>8 DEF Approve

LEMMA RunTyped ==
    ASSUME Typed, NEW p \in Procs, Run(p)
    PROVE  Typed'
  <1> DEFINE k == local[p].key
  <1>1. /\ pc[p] \in {"authorized", "running", "executing", "stdout", "stderr", "recording"}
        /\ k \in Keys /\ local[p] \in Job
    BY KeyType DEF Run, StartRunning, CallExecutor, ExecutorReturns, RecordStreams, RecordOutcome
  <1>2. \A l \in {"idle", "running", "executing"} : JobOK(l, local[p])
    BY <1>1 DEF JobOK, Returned
  <1>3. pc[p] \in Returned => \A l \in Returned : JobOK(l, local[p])
    BY DEF JobOK, Returned, Typed
  <1>4. {"idle", "running", "executing", "stdout", "stderr", "recording"} \subseteq Locations
    BY DEF Locations
  <1>5. CASE StartRunning(p)
    <2>1. ProcsTyped /\ status' \in [Keys -> Status] /\ started' \subseteq Keys
      BY <1>1, <1>2, <1>4, <1>5, TransitionTyped DEF StartRunning, Status
    <2>2. QED
      BY <1>5, <2>1 DEF StartRunning, authority, execution, ProcsTyped, Typed, TypeOK
  <1>6. CASE CallExecutor(p)
    <2>1. ProcsTyped
      BY <1>2, <1>4, <1>6, GotoTyped DEF CallExecutor
    <2>2. calls' \in [Keys -> Nat]
      BY <1>1, <1>6 DEF CallExecutor, Typed, TypeOK
    <2>3. QED
      BY <1>6, <2>1, <2>2 DEF CallExecutor, command, authority, ProcsTyped, Typed, TypeOK
  <1>7. CASE ExecutorReturns(p)
    <2>1. PICK o \in Results : /\ outcome' = [outcome EXCEPT ![k] = o]
                               /\ Continue(p, "stdout", [local[p] EXCEPT !.result = o])
      BY <1>7 DEF ExecutorReturns
    <2>2. /\ [local[p] EXCEPT !.result = o] \in Job
          /\ JobOK("stdout", [local[p] EXCEPT !.result = o])
      BY <1>1 DEF Job, JobOK, Returned
    <2>3. ProcsTyped
      BY <1>4, <2>1, <2>2, ContinueTyped DEF ProcsTyped
    <2>4. outcome' \in [Keys -> Results \cup {"none"}]
      BY <1>1, <2>1 DEF Typed, TypeOK
    <2>5. QED
      BY <1>7, <2>3, <2>4 DEF ExecutorReturns, command, authority, ProcsTyped, Typed, TypeOK
  <1>8. CASE RecordStreams(p)
    <2>1. ProcsTyped
      BY <1>3, <1>4, <1>8, GotoTyped DEF RecordStreams, Returned
    <2>2. artifacts' \in [Keys -> SUBSET {"stdout", "stderr"}]
      BY <1>1, <1>8 DEF RecordStreams, Typed, TypeOK
    <2>3. QED
      BY <1>8, <2>1, <2>2 DEF RecordStreams, command, authority, ProcsTyped, Typed, TypeOK
  <1>9. CASE RecordOutcome(p)
    <2>1. Recorded(local[p].result) \in Status
      BY <1>9 DEF RecordOutcome, Recorded, Results, Status, Terminal, Typed, JobOK, Returned
    <2>2. ProcsTyped /\ status' \in [Keys -> Status] /\ started' \subseteq Keys
      BY <1>1, <1>2, <1>4, <1>9, <2>1, TransitionTyped DEF RecordOutcome
    <2>3. QED
      BY <1>9, <2>2 DEF RecordOutcome, authority, execution, ProcsTyped, Typed, TypeOK
  <1>10. QED
    BY <1>5, <1>6, <1>7, <1>8, <1>9 DEF Run

LEMMA StartTyped ==
    ASSUME Typed, NEW p \in Procs, NEW k \in Keys,
           Plan(p, k) \/ Validate(p, k) \/ StartApproved(p, k)
    PROVE  Typed'
  <1>1. {"planned", "decided", "approving", "refusing"} \subseteq Locations
    BY DEF Locations
  <1>2. CASE Plan(p, k)
    <2>1. JobOK("planned", [NoJob EXCEPT !.key = k, !.cmd = "execute"])
      BY DEF JobOK, NoJob, Returned
    <2>2. ProcsTyped
      BY <1>1, <1>2, <2>1, NewJobType, ContinueTyped DEF Plan, ProcsTyped
    <2>3. status' \in [Keys -> Status] /\ started' \subseteq Keys
      BY <1>2, MoveTyped DEF Plan, Status
    <2>4. QED
      BY <1>2, <2>2, <2>3 DEF Plan, authority, execution, ProcsTyped, Typed, TypeOK
  <1>3. CASE Validate(p, k)
    <2>1. PICK e \in Effects :
             Continue(p, "decided", [NoJob EXCEPT !.key = k, !.cmd = "validate", !.effect = e])
      BY <1>3 DEF Validate
    <2>2. JobOK("decided", [NoJob EXCEPT !.key = k, !.cmd = "validate", !.effect = e])
      BY DEF JobOK, NoJob, Returned
    <2>3. ProcsTyped
      BY <1>1, <2>1, <2>2, NewJobType, ContinueTyped DEF ProcsTyped
    <2>4. status' \in [Keys -> Status] /\ started' \subseteq Keys
      BY <1>3, MoveTyped DEF Validate, Status
    <2>5. QED
      BY <1>3, <2>3, <2>4 DEF Validate, authority, execution, ProcsTyped, Typed, TypeOK
  <1>4. CASE StartApproved(p, k)
    <2>1. PICK l \in {"approving", "refusing"} :
             Continue(p, l, [NoJob EXCEPT !.key = k, !.cmd = "approved"])
      BY <1>4 DEF StartApproved
    <2>2. JobOK(l, [NoJob EXCEPT !.key = k, !.cmd = "approved"])
      BY DEF JobOK, NoJob, Returned
    <2>3. ProcsTyped
      BY <1>1, <2>1, <2>2, NewJobType, ContinueTyped DEF ProcsTyped
    <2>4. QED
      BY <1>4, <2>3
         DEF StartApproved, command, authority, execution, ProcsTyped, Typed, TypeOK
  <1>5. QED
    BY <1>2, <1>3, <1>4

LEMMA RecoverTyped ==
    ASSUME Typed, NEW p \in Procs, StartRecovery(p) \/ Recover(p)
    PROVE  Typed'
  <1>1. {"expiring", "interrupting"} \subseteq Locations /\ local[p] \in Job
    BY DEF Locations, Typed, TypeOK
  <1>2. \A todo \in SUBSET Keys, l \in {"expiring", "interrupting"} :
           /\ [NoJob EXCEPT !.cmd = "recover", !.todo = todo] \in Job
           /\ [local[p] EXCEPT !.todo = todo] \in Job
           /\ JobOK(l, [NoJob EXCEPT !.cmd = "recover", !.todo = todo])
           /\ JobOK(l, [local[p] EXCEPT !.todo = todo])
    BY <1>1 DEF Job, NoJob, JobOK, Returned, Typed
  <1>3. CASE StartRecovery(p)
    <2>1. PICK todo \in SUBSET Keys :
             Continue(p, "expiring", [NoJob EXCEPT !.cmd = "recover", !.todo = todo])
      BY <1>3 DEF StartRecovery, Typed, TypeOK
    <2>2. ProcsTyped
      BY <1>1, <1>2, <2>1, ContinueTyped DEF ProcsTyped
    <2>3. QED
      BY <1>3, <2>2
         DEF StartRecovery, command, authority, execution, ProcsTyped, Typed, TypeOK
  <1>4. CASE ExpireApproval(p)
    <2>1. PICK k \in local[p].todo :
             /\ approval' = [approval EXCEPT ![k] = Expired(@)]
             /\ Continue(p, "expiring", [local[p] EXCEPT !.todo = local[p].todo \ {k}])
      BY <1>1, <1>4 DEF ExpireApproval, Job
    <2>2. local[p].todo \ {k} \in SUBSET Keys /\ k \in Keys
      BY <1>1 DEF Job
    <2>3. ProcsTyped
      BY <1>1, <1>2, <2>1, <2>2, ContinueTyped DEF ProcsTyped
    <2>4. approval' \in [Keys -> ApprovalStatus]
      BY <2>1, <2>2 DEF Typed, TypeOK, Expired, ApprovalStatus
    <2>5. QED
      BY <1>4, <2>3, <2>4 DEF ExpireApproval, command, execution, ProcsTyped, Typed, TypeOK
  <1>5. CASE ListRunning(p)
    <2>1. Continue(p, "interrupting",
                   [local[p] EXCEPT !.todo = {k \in Keys : status[k] = "running"}])
      BY <1>5 DEF ListRunning
    <2>2. {k \in Keys : status[k] = "running"} \in SUBSET Keys
      OBVIOUS
    <2>3. ProcsTyped
      BY <1>1, <1>2, <2>1, <2>2, ContinueTyped DEF ProcsTyped
    <2>4. QED
      BY <1>5, <2>3
         DEF ListRunning, command, authority, execution, ProcsTyped, Typed, TypeOK
  <1>6. CASE \E k \in Keys : Interrupt(p, k)
    <2>1. PICK k \in Keys : Interrupt(p, k)
      BY <1>6
    <2>2. CASE /\ Move(k, "interrupted")
               /\ Continue(p, "interrupting", [local[p] EXCEPT !.todo = @ \ {k}])
      <3>1. local[p].todo \ {k} \in SUBSET Keys
        BY <1>1 DEF Job
      <3>2. ProcsTyped
        BY <1>1, <1>2, <2>2, <3>1, ContinueTyped DEF ProcsTyped
      <3>3. status' \in [Keys -> Status] /\ started' \subseteq Keys
        BY <2>2, MoveTyped DEF Status, Terminal
      <3>4. QED
        BY <2>1, <3>2, <3>3 DEF Interrupt, authority, execution, ProcsTyped, Typed, TypeOK
    <2>3. CASE Return(p) /\ UNCHANGED command
      BY <2>1, <2>3, ReturnTyped
         DEF Interrupt, command, authority, execution, ProcsTyped, Typed, TypeOK
    <2>4. QED
      BY <2>1, <2>2, <2>3 DEF Interrupt
  <1>7. CASE EndRecovery(p)
    BY <1>7, ReturnTyped
       DEF EndRecovery, command, authority, execution, ProcsTyped, Typed, TypeOK
  <1>8. QED
    BY <1>3, <1>4, <1>5, <1>6, <1>7 DEF Recover

LEMMA TypedInvariant == Spec => []Typed
  <1>1. Typed /\ [Next]_vars => Typed'
    <2>1. ASSUME Typed, UNCHANGED vars
          PROVE  Typed'
      BY <2>1 DEF vars, Typed, TypeOK
    <2>2. ASSUME Typed, NEW p \in Procs, Refused(p) \/ Die(p)
          PROVE  Typed'
      <3>1. ProcsTyped
        <4>1. local[p].guarded => local[p].key \in Keys
          BY <2>2 DEF Typed, JobOK
        <4>2. QED
          BY <2>2, <4>1, RaiseTyped, ReturnTyped DEF Refused, Die
      <3>2. QED
        BY <2>2, <3>1
           DEF Refused, Die, command, authority, execution, ProcsTyped, Typed, TypeOK
    <2>3. ASSUME Typed, NEW k \in Keys, DecideApproval(k) \/ Cancel(k) \/ Lapse(k)
          PROVE  Typed'
      BY <2>3 DEF DecideApproval, Cancel, Lapse, Move, command, authority, execution,
                  Typed, TypeOK, ApprovalStatus, Status, Terminal
    <2>4. QED
      BY <2>1, <2>2, <2>3, JudgeTyped, ApproveTyped, RunTyped, StartTyped, RecoverTyped
         DEF Next
  <1>2. QED
    BY <1>1, InitTyped, PTL DEF Spec

\* Every reachable state is well typed.
THEOREM TypeCorrect == Spec => []TypeOK
  <1>1. Typed => TypeOK
    BY DEF Typed
  <1>2. QED
    BY <1>1, TypedInvariant, PTL

-----------------------------------------------------------------------------
(* The inductive invariant                                                 *)

\* The invariant's part about one command.
KeyOK(k) ==
    /\ status[k] \in {"none", "planned"} => policy[k] = "none"
    /\ approval[k] # "none" => policy[k] = "require_approval"
    /\ k \in bound => approval[k] # "none"
    /\ status[k] = "authorized" \/ k \in started
       => /\ policy[k] # "deny"
          /\ policy[k] = "require_approval" => approval[k] = "consumed"
    /\ status[k] \in Unstarted => k \notin started
    /\ status[k] = "running" => k \in started
    /\ calls[k] > 0 => k \in started
    /\ calls[k] = 0 => outcome[k] = "none"
    /\ calls[k] <= 1
    /\ status[k] = "succeeded" => outcome[k] = "zero"
    /\ status[k] = "timed_out" => outcome[k] = "timeout"
    /\ status[k] \in {"succeeded", "timed_out"} => artifacts[k] = {"stdout", "stderr"}

\* Two processes may not be at these locations with the same command.
Clash(l, m) ==
    \/ l \in Deciding /\ m \in Deciding \cup {"authorized", "failing"}
    \/ l \in Executing /\ m \in Executing

\* The invariant by commands and processes.
PartsOK ==
    /\ \A k \in Keys : KeyOK(k)
    /\ \A p \in Procs : DeciderOK(pc[p], local[p]) /\ ExecutorOK(pc[p], local[p])
    /\ \A p, q \in Procs : local[p].key = local[q].key /\ Clash(pc[p], pc[q]) => p = q

LEMMA Parts == Typed => (CommandInv <=> PartsOK)
  <1> SUFFICES ASSUME Typed
               PROVE  CommandInv <=> PartsOK
    OBVIOUS
  <1>1. \A k \in bound : k \in Keys
    BY DEF Typed, TypeOK
  <1>2. (DecisionsInv /\ StartInv /\ ExecutedAtMostOnce /\ ResultIsTrue /\ StreamsBeforeResult)
        <=> \A k \in Keys : KeyOK(k)
    BY <1>1 DEF DecisionsInv, StartInv, ExecutedAtMostOnce, ResultIsTrue, StreamsBeforeResult, KeyOK
  <1>3. (DecidersInv /\ ExecutorsInv) <=>
              /\ \A p \in Procs : DeciderOK(pc[p], local[p]) /\ ExecutorOK(pc[p], local[p])
              /\ \A p, q \in Procs : local[p].key = local[q].key /\ Clash(pc[p], pc[q]) => p = q
    BY DEF DecidersInv, ExecutorsInv, Clash
  <1>4. QED
    BY <1>2, <1>3 DEF CommandInv, PartsOK

LEMMA PartsNext == Typed' => (CommandInv' <=> PartsOK')
  BY Parts, PTL

\* A step leaves the tables' rows for command k alone.
Same(k) ==
    /\ status'[k] = status[k] /\ (k \in started' <=> k \in started)
    /\ policy'[k] = policy[k] /\ approval'[k] = approval[k] /\ (k \in bound' <=> k \in bound)
    /\ artifacts'[k] = artifacts[k] /\ calls'[k] = calls[k] /\ outcome'[k] = outcome[k]

\* The invariant after a step of p, from what the step does to command k and
\* to p's own job.
LEMMA StepOf ==
    ASSUME Typed, CommandInv, NEW p \in Procs, NEW k,
           \A q \in Procs : q # p => pc'[q] = pc[q] /\ local'[q] = local[q],
           \A i \in Keys : i # k => Same(i),
           k \in Keys => KeyOK(k)',
           \A q \in Procs : q # p /\ local[q].key = k =>
               DeciderOK(pc[q], local[q])' /\ ExecutorOK(pc[q], local[q])',
           DeciderOK(pc[p], local[p])', ExecutorOK(pc[p], local[p])',
           \A q \in Procs : q # p /\ local[q].key = local'[p].key =>
               ~Clash(pc'[p], pc[q]) /\ ~Clash(pc[q], pc'[p]),
           Typed'
    PROVE  CommandInv'
  <1>1. \A i \in Keys : KeyOK(i)'
    <2>1. ASSUME NEW i \in Keys, i # k
          PROVE  KeyOK(i)'
      <3>1. KeyOK(i)
        BY Parts DEF PartsOK
      <3>2. Same(i)
        BY <2>1
      <3>3. QED
        BY <3>1, <3>2 DEF KeyOK, Same
    <2>2. QED
      BY <2>1
  <1>2. \A q \in Procs : DeciderOK(pc[q], local[q])' /\ ExecutorOK(pc[q], local[q])'
    <2>1. ASSUME NEW q \in Procs, q # p, local[q].key # k
          PROVE  DeciderOK(pc[q], local[q])' /\ ExecutorOK(pc[q], local[q])'
      <3>1. DeciderOK(pc[q], local[q]) /\ ExecutorOK(pc[q], local[q])
        BY Parts DEF PartsOK
      <3>2. pc'[q] = pc[q] /\ local'[q] = local[q] /\ JobOK(pc[q], local[q])
        BY <2>1 DEF Typed
      <3>3. CASE local[q].key \in Keys
        <4>1. Same(local[q].key)
          BY <2>1, <3>3
        <4>2. DeciderOK(pc[q], local[q])'
          BY <3>1, <3>2, <4>1 DEF Same, DeciderOK
        <4>3. ExecutorOK(pc[q], local[q])'
          BY <3>1, <3>2, <4>1 DEF Same, ExecutorOK
        <4>4. QED
          BY <4>2, <4>3
      <3>4. CASE local[q].key \notin Keys
        BY <3>2, <3>4 DEF JobOK, DeciderOK, ExecutorOK, Deciding, Executing, Returned
      <3>5. QED
        BY <3>3, <3>4
    <2>2. QED
      BY <2>1
  <1>3. \A q, r \in Procs : (local[q].key = local[r].key /\ Clash(pc[q], pc[r]) => q = r)'
    <2>1. \A q, r \in Procs : local[q].key = local[r].key /\ Clash(pc[q], pc[r]) => q = r
      BY Parts DEF PartsOK
    <2>2. ASSUME NEW q \in Procs, NEW r \in Procs, q # r,
                 (local[q].key = local[r].key /\ Clash(pc[q], pc[r]))'
          PROVE  FALSE
      <3>1. CASE q # p /\ r # p
        BY <2>1, <2>2, <3>1 DEF Clash
      <3>2. CASE q = p
        BY <2>2, <3>2 DEF Clash
      <3>3. CASE r = p
        BY <2>2, <3>3 DEF Clash
      <3>4. QED
        BY <3>1, <3>2, <3>3
    <2>3. QED
      BY <2>2
  <1>4. QED
    BY <1>1, <1>2, <1>3, PartsNext DEF PartsOK

\* What Continue leaves to the other processes.
LEMMA OnlyP ==
    ASSUME Typed, NEW p \in Procs, NEW l, NEW j, Continue(p, l, j)
    PROVE  /\ pc'[p] = l /\ local'[p] = j
           /\ \A q \in Procs : q # p => pc'[q] = pc[q] /\ local'[q] = local[q]
  BY DEF Continue, Typed, TypeOK

\* A step of p that changes no table.
LEMMA QuietStep ==
    ASSUME Typed, Typed', CommandInv, NEW p \in Procs, NEW l, NEW j, Continue(p, l, j),
           UNCHANGED <<command, authority, execution>>,
           DeciderOK(l, j), ExecutorOK(l, j),
           \A q \in Procs : q # p /\ local[q].key = j.key =>
               ~Clash(l, pc[q]) /\ ~Clash(pc[q], l)
    PROVE  CommandInv'
  <1>1. /\ pc'[p] = l /\ local'[p] = j
        /\ \A q \in Procs : q # p => pc'[q] = pc[q] /\ local'[q] = local[q]
    BY OnlyP
  <1>2. UNCHANGED <<status, started, policy, approval, bound, artifacts, calls, outcome>>
    BY DEF command, authority, execution
  <1>3. \A i \in Keys : Same(i)
    BY <1>2 DEF Same
  <1>4. \A q \in Procs : q # p => DeciderOK(pc[q], local[q])' /\ ExecutorOK(pc[q], local[q])'
    <2>1. ASSUME NEW q \in Procs, q # p
          PROVE  DeciderOK(pc[q], local[q])' /\ ExecutorOK(pc[q], local[q])'
      <3>1. DeciderOK(pc[q], local[q]) /\ ExecutorOK(pc[q], local[q])
        BY Parts DEF PartsOK
      <3>2. DeciderOK(pc[q], local[q])'
        BY <1>1, <1>2, <2>1, <3>1 DEF DeciderOK
      <3>3. ExecutorOK(pc[q], local[q])'
        BY <1>1, <1>2, <2>1, <3>1 DEF ExecutorOK
      <3>4. QED
        BY <3>2, <3>3
    <2>2. QED
      BY <2>1
  <1>5. DeciderOK(pc[p], local[p])' /\ ExecutorOK(pc[p], local[p])'
    BY <1>1, <1>2 DEF DeciderOK, ExecutorOK
  <1>6. None \notin Keys
    BY NoneIsNoKey
  <1>7. QED
    BY <1>1, <1>3, <1>4, <1>5, <1>6, StepOf

LEMMA ReturnStep ==
    ASSUME Typed, Typed', CommandInv, NEW p \in Procs, Return(p),
           UNCHANGED <<command, authority, execution>>
    PROVE  CommandInv'
  <1>1. DeciderOK("idle", NoJob) /\ ExecutorOK("idle", NoJob)
    BY DEF DeciderOK, ExecutorOK, NoJob, Deciding, Executing, Returned
  <1>2. \A l : ~Clash("idle", l) /\ ~Clash(l, "idle")
    BY DEF Clash, Deciding, Executing, Returned
  <1>3. QED
    BY <1>1, <1>2, QuietStep DEF Return

LEMMA RaiseStep ==
    ASSUME Typed, Typed', CommandInv, NEW p \in Procs, Raise(p),
           UNCHANGED <<command, authority, execution>>
    PROVE  CommandInv'
  <1>1. CASE local[p].guarded
    <2> DEFINE k == local[p].key
               j == [local[p] EXCEPT !.guarded = FALSE]
    <2>1. k \in Keys /\ local[p] \in Job /\ j.key = k /\ ~j.guarded
      BY <1>1 DEF Typed, TypeOK, JobOK, Job
    <2>2. DeciderOK(pc[p], local[p]) /\ ExecutorOK(pc[p], local[p]) /\ KeyOK(k)
      BY <2>1, Parts DEF PartsOK
    <2>3. pc[p] \in Deciding \cup {"authorized"} \cup Executing
      BY <1>1, <2>2 DEF DeciderOK
    <2>4. pc[p] \in Executing => status[k] \notin Unstarted
      BY <2>2 DEF ExecutorOK, KeyOK
    <2>5. status[k] \notin {"none", "planned"}
      BY <2>2, <2>3, <2>4 DEF DeciderOK, Unstarted
    <2>6. DeciderOK("failing", j) /\ ExecutorOK("failing", j)
      BY <2>1, <2>5 DEF DeciderOK, ExecutorOK, Deciding, Executing, Returned
    <2>7. ASSUME NEW q \in Procs, q # p, local[q].key = k
          PROVE  ~Clash("failing", pc[q]) /\ ~Clash(pc[q], "failing")
      <3>1. DeciderOK(pc[q], local[q]) /\ ~Clash(pc[q], pc[p])
        BY <2>7, Parts DEF PartsOK
      <3>2. pc[q] \in Deciding => pc[p] \notin Deciding \cup {"authorized"} \cup Executing
        BY <2>4, <2>7, <3>1 DEF Clash, DeciderOK, Unstarted
      <3>3. QED
        BY <2>3, <3>2 DEF Clash, Deciding, Executing, Returned
    <2>8. Continue(p, "failing", j)
      BY <1>1 DEF Raise
    <2> HIDE DEF j
    <2>9. QED
      BY <2>1, <2>6, <2>7, <2>8, QuietStep
  <1>2. CASE ~local[p].guarded
    BY <1>2, ReturnStep DEF Raise
  <1>3. QED
    BY <1>1, <1>2

\* What the table of transitions says that the invariant needs.
LEMMA SuccessorFacts ==
    ASSUME NEW s \in Status, NEW target \in Successors(s)
    PROVE  /\ target \notin {"none", "planned"}
           /\ target \in Unstarted => s \in Unstarted
           /\ target = "validating" => s = "planned"
           /\ target = "running" => s = "authorized"
           /\ target \in {"succeeded", "timed_out", "interrupted"} => s = "running"
  BY DEF Successors, Status, Terminal, Unstarted

\* A step that changes the status of command k.
Moved(k, target) ==
    /\ \/ status[k] = "none" /\ target = "planned"
       \/ CanMove(k, target)
    /\ Move(k, target)
    /\ UNCHANGED <<policy, approval, execution>>
    /\ \/ bound' = bound
       \/ bound' = bound \cup {k} /\ approval[k] # "none"
    /\ target = "authorized" => /\ policy[k] # "deny"
                                /\ policy[k] = "require_approval" => approval[k] = "consumed"
    /\ target = "succeeded" => outcome[k] = "zero"
    /\ target = "timed_out" => outcome[k] = "timeout"
    /\ target \in {"succeeded", "timed_out"} => artifacts[k] = {"stdout", "stderr"}

LEMMA MovedKey ==
    ASSUME Typed, NEW k \in Keys, NEW target \in Status, Moved(k, target), KeyOK(k)
    PROVE  /\ KeyOK(k)'
           /\ \A i \in Keys : i # k => Same(i)
           /\ status'[k] = target
           /\ UNCHANGED <<policy, approval, artifacts, calls, outcome>>
           /\ started \subseteq started'
           /\ bound \subseteq bound'
           /\ target = "running" => k \in started'
  <1>1. /\ UNCHANGED <<policy, approval, artifacts, calls, outcome>>
        /\ status' = [status EXCEPT ![k] = target]
        /\ started' = IF target = "running" THEN started \cup {k} ELSE started
    BY DEF Moved, Move, execution
  <1>2. status'[k] = target /\ \A i \in Keys : i # k => status'[i] = status[i]
    BY <1>1 DEF Typed, TypeOK
  <1>3. \A i \in Keys : i # k => Same(i)
    BY <1>1, <1>2 DEF Same, Moved
  <1>4. /\ target = "none" => FALSE
        /\ target = "planned" => status[k] = "none"
        /\ target \in Unstarted => status[k] \in Unstarted
        /\ target = "running" => status[k] = "authorized"
    BY SuccessorFacts DEF Moved, CanMove, Typed, TypeOK, Unstarted
  <1>5. KeyOK(k)'
    <2>1. (status[k] \in {"none", "planned"} => policy[k] = "none")'
      BY <1>1, <1>2, <1>4 DEF KeyOK
    <2>2. (/\ approval[k] # "none" => policy[k] = "require_approval"
           /\ k \in bound => approval[k] # "none")'
      BY <1>1 DEF KeyOK, Moved
    <2>3. (status[k] = "authorized" \/ k \in started
           => /\ policy[k] # "deny"
              /\ policy[k] = "require_approval" => approval[k] = "consumed")'
      BY <1>1, <1>2, <1>4 DEF KeyOK, Moved
    <2>4. (/\ status[k] \in Unstarted => k \notin started
           /\ status[k] = "running" => k \in started)'
      BY <1>1, <1>2, <1>4 DEF KeyOK, Unstarted
    <2>5. (/\ calls[k] > 0 => k \in started
           /\ calls[k] = 0 => outcome[k] = "none"
           /\ calls[k] <= 1)'
      BY <1>1 DEF KeyOK
    <2>6. (/\ status[k] = "succeeded" => outcome[k] = "zero"
           /\ status[k] = "timed_out" => outcome[k] = "timeout"
           /\ status[k] \in {"succeeded", "timed_out"} => artifacts[k] = {"stdout", "stderr"})'
      BY <1>1, <1>2 DEF Moved
    <2>7. QED
      BY <2>1, <2>2, <2>3, <2>4, <2>5, <2>6 DEF KeyOK
  <1>6. QED
    BY <1>1, <1>2, <1>3, <1>5 DEF Moved

\* What the processes that a move leaves alone still know.
LEMMA MovedOthers ==
    ASSUME Typed, CommandInv, NEW k \in Keys, NEW target \in Status, Moved(k, target),
           NEW q \in Procs, pc'[q] = pc[q], local'[q] = local[q], local[q].key = k,
           target # "cancelled" => pc[q] \notin Deciding
    PROVE  DeciderOK(pc[q], local[q])' /\ ExecutorOK(pc[q], local[q])'
  <1>1. KeyOK(k) /\ DeciderOK(pc[q], local[q]) /\ ExecutorOK(pc[q], local[q])
    BY Parts DEF PartsOK
  <1>2. /\ status'[k] = target
        /\ UNCHANGED <<policy, approval, artifacts, calls, outcome>>
        /\ started \subseteq started'
        /\ bound \subseteq bound'
    BY <1>1, MovedKey
  <1>3. /\ target \notin {"none"}
        /\ target = "planned" => status[k] = "none"
        /\ target = "validating" => status[k] = "planned"
    BY SuccessorFacts DEF Moved, CanMove, Typed, TypeOK
  <1>4. DeciderOK(pc[q], local[q])'
    <2>1. (pc[q] \in Deciding => status[local[q].key] \in {"validating", "cancelled"})'
      BY <1>1, <1>2
    <2>2. (/\ pc[q] \in {"authorized", "failing"} => status[local[q].key] \notin {"none", "planned"}
           /\ pc[q] \in {"approving", "refusing", "consuming", "consumed"}
              => status[local[q].key] \notin {"none", "planned", "validating"})'
      BY <1>1, <1>2, <1>3 DEF DeciderOK
    <2>3. QED
      BY <1>1, <1>2, <2>1, <2>2 DEF DeciderOK
  <1>5. ExecutorOK(pc[q], local[q])'
    BY <1>1, <1>2 DEF ExecutorOK
  <1>6. QED
    BY <1>4, <1>5

LEMMA MoveStep ==
    ASSUME Typed, Typed', CommandInv, NEW p \in Procs, NEW k \in Keys, NEW target \in Status,
           NEW l, NEW j, Continue(p, l, j), Moved(k, target),
           DeciderOK(l, j)', ExecutorOK(l, j)',
           \A q \in Procs : q # p /\ local[q].key = k /\ target # "cancelled" =>
               pc[q] \notin Deciding,
           \A q \in Procs : q # p /\ local[q].key = j.key =>
               ~Clash(l, pc[q]) /\ ~Clash(pc[q], l)
    PROVE  CommandInv'
  <1>1. /\ pc'[p] = l /\ local'[p] = j
        /\ \A q \in Procs : q # p => pc'[q] = pc[q] /\ local'[q] = local[q]
    BY OnlyP
  <1>2. KeyOK(k)
    BY Parts DEF PartsOK
  <1>3. KeyOK(k)' /\ \A i \in Keys : i # k => Same(i)
    BY <1>2, MovedKey
  <1>4. \A q \in Procs : q # p /\ local[q].key = k =>
           DeciderOK(pc[q], local[q])' /\ ExecutorOK(pc[q], local[q])'
    BY <1>1, MovedOthers
  <1>5. DeciderOK(pc[p], local[p])' /\ ExecutorOK(pc[p], local[p])'
    BY <1>1 DEF DeciderOK, ExecutorOK
  <1>6. QED
    BY <1>1, <1>3, <1>4, <1>5, StepOf

\* The end of a handler by a transition, made or refused.
LEMMA TransitionEnds ==
    ASSUME Typed, Typed', CommandInv, NEW p \in Procs, NEW target \in Status,
           Transition(p, target, "idle"), local[p].key \in Keys,
           CanMove(local[p].key, target) /\ Move(local[p].key, target)
           => Moved(local[p].key, target),
           ~CanMove(local[p].key, target) => UNCHANGED <<authority, execution>>,
           \A q \in Procs : q # p /\ local[q].key = local[p].key /\ target # "cancelled" =>
               pc[q] \notin Deciding
    PROVE  CommandInv'
  <1>1. CASE /\ CanMove(local[p].key, target) /\ Move(local[p].key, target)
             /\ Continue(p, "idle", NoJob)
    <2>1. DeciderOK("idle", NoJob)' /\ ExecutorOK("idle", NoJob)'
      BY DEF DeciderOK, ExecutorOK, NoJob, Deciding, Executing, Returned
    <2>2. \A l : ~Clash("idle", l) /\ ~Clash(l, "idle")
      BY DEF Clash, Deciding, Executing, Returned
    <2>3. QED
      BY <1>1, <2>1, <2>2, MoveStep
  <1>2. CASE ~CanMove(local[p].key, target) /\ Raise(p) /\ UNCHANGED command
    BY <1>2, RaiseStep
  <1>3. QED
    BY <1>1, <1>2 DEF Transition, Goto, Return

\* Nothing has begun for a command that is not yet validated.
LEMMA PlannedFree ==
    ASSUME Typed, CommandInv, NEW k \in Keys, status[k] \in {"none", "planned"}
    PROVE  /\ policy[k] = "none" /\ approval[k] = "none"
           /\ \A q \in Procs : local[q].key = k =>
                 pc[q] \notin Deciding \cup {"authorized", "failing"}
  BY Parts DEF PartsOK, KeyOK, DeciderOK

\* One process at most decides.
LEMMA DecidesAlone ==
    ASSUME Typed, CommandInv, NEW p \in Procs, pc[p] \in Deciding \cup {"failing", "authorized"},
           NEW q \in Procs, q # p, local[q].key = local[p].key
    PROVE  pc[q] \notin Deciding
  BY Parts DEF PartsOK, Clash

LEMMA PlanStep ==
    ASSUME Typed, Typed', CommandInv, NEW p \in Procs, NEW k \in Keys, Plan(p, k)
    PROVE  CommandInv'
  <1> DEFINE j == [NoJob EXCEPT !.key = k, !.cmd = "execute"]
  <1>1. j.key = k /\ ~j.guarded
    BY DEF NoJob
  <1>2. Continue(p, "planned", j) /\ "planned" \in Status
    BY DEF Plan, Status
  <1>3. Moved(k, "planned")
    BY DEF Plan, Moved, authority
  <1>4. DeciderOK("planned", j)' /\ ExecutorOK("planned", j)'
    BY <1>1 DEF DeciderOK, ExecutorOK, Deciding, Executing, Returned
  <1>5. \A l : ~Clash("planned", l) /\ ~Clash(l, "planned")
    BY DEF Clash, Deciding, Executing, Returned
  <1>6. \A q \in Procs : local[q].key = k => pc[q] \notin Deciding
    BY PlannedFree DEF Plan
  <1> HIDE DEF j
  <1>7. QED
    BY <1>2, <1>3, <1>4, <1>5, <1>6, MoveStep

LEMMA ValidatingStep ==
    ASSUME Typed, Typed', CommandInv, NEW p \in Procs, NEW k \in Keys,
           NEW l \in {"validating", "decided"}, NEW j, Continue(p, l, j), j.key = k,
           l = "validating" <=> j.guarded,
           CanMove(k, "validating"), Move(k, "validating"), UNCHANGED <<authority, execution>>
    PROVE  CommandInv'
  <1>1. status[k] = "planned"
    BY SuccessorFacts DEF CanMove, Typed, TypeOK
  <1>2. policy[k] = "none" /\ approval[k] = "none"
    BY <1>1, PlannedFree
  <1>3. \A q \in Procs : local[q].key = k => pc[q] \notin Deciding \cup {"authorized", "failing"}
    BY <1>1, PlannedFree
  <1>4. Moved(k, "validating") /\ "validating" \in Status
    BY DEF Moved, authority, Status
  <1>5. /\ status'[k] = "validating"
        /\ UNCHANGED <<policy, approval>>
    BY DEF Move, authority, Typed, TypeOK
  <1>6. DeciderOK(l, j)' /\ ExecutorOK(l, j)'
    BY <1>2, <1>5 DEF DeciderOK, ExecutorOK, Deciding, Executing, Returned
  <1>7. \A q \in Procs : local[q].key = k => ~Clash(l, pc[q]) /\ ~Clash(pc[q], l)
    BY <1>3 DEF Clash, Deciding, Executing, Returned
  <1>8. QED
    BY <1>3, <1>4, <1>6, <1>7, MoveStep

LEMMA ValidateStep ==
    ASSUME Typed, Typed', CommandInv, NEW p \in Procs, NEW k \in Keys, Validate(p, k)
    PROVE  CommandInv'
  <1>1. PICK e \in Effects :
           Continue(p, "decided", [NoJob EXCEPT !.key = k, !.cmd = "validate", !.effect = e])
    BY DEF Validate
  <1> DEFINE j == [NoJob EXCEPT !.key = k, !.cmd = "validate", !.effect = e]
  <1>2. j.key = k /\ ~j.guarded
    BY DEF NoJob
  <1>3. Continue(p, "decided", j)
    BY <1>1
  <1> HIDE DEF j
  <1>4. QED
    BY <1>2, <1>3, ValidatingStep DEF Validate

LEMMA StartApprovedStep ==
    ASSUME Typed, Typed', CommandInv, NEW p \in Procs, NEW k \in Keys, StartApproved(p, k)
    PROVE  CommandInv'
  <1> DEFINE j == [NoJob EXCEPT !.key = k, !.cmd = "approved"]
  <1>1. PICK l \in {"approving", "refusing"} : Continue(p, l, j) /\ (l = "approving" => k \in bound)
    BY DEF StartApproved
  <1>2. j.key = k /\ ~j.guarded
    BY DEF NoJob
  <1>3. DeciderOK(l, j) /\ ExecutorOK(l, j)
    BY <1>1, <1>2 DEF StartApproved, DeciderOK, ExecutorOK, Deciding, Executing, Returned
  <1>4. \A m : ~Clash(l, m) /\ ~Clash(m, l)
    BY DEF Clash, Deciding, Executing, Returned
  <1> HIDE DEF j
  <1>5. QED
    BY <1>1, <1>3, <1>4, QuietStep DEF StartApproved

\* A process that goes on deciding, or executing, meets no one.
LEMMA NoClashStays ==
    ASSUME Typed, CommandInv, NEW p \in Procs, NEW l,
           \/ pc[p] \in Deciding /\ l \in Deciding \cup {"authorized"}
           \/ pc[p] \in Executing /\ l \in Executing
    PROVE  \A q \in Procs : q # p /\ local[q].key = local[p].key =>
              ~Clash(l, pc[q]) /\ ~Clash(pc[q], l)
  <1>1. \A q \in Procs : q # p /\ local[q].key = local[p].key =>
           ~Clash(pc[p], pc[q]) /\ ~Clash(pc[q], pc[p])
    BY Parts DEF PartsOK
  <1>2. \A q \in Procs : q # p /\ local[q].key = local[p].key => ~Clash(pc[q], pc[p])
    BY <1>1
  <1>3. CASE pc[p] \in Executing /\ l \in Executing
    BY <1>1, <1>3 DEF Clash, Executing, Deciding, Returned
  <1>4. CASE pc[p] \in Deciding /\ l \in Deciding \cup {"authorized"}
    BY <1>1, <1>4 DEF Clash, Executing, Deciding, Returned
  <1>5. QED
    BY <1>3, <1>4

LEMMA BeginValidationStep ==
    ASSUME Typed, Typed', CommandInv, NEW p \in Procs, BeginValidation(p)
    PROVE  CommandInv'
  <1> DEFINE j == [local[p] EXCEPT !.guarded = TRUE]
  <1>1. local[p].key \in Keys /\ local[p] \in Job
    BY KeyType DEF BeginValidation
  <1>2. j.key = local[p].key /\ j.guarded
    BY <1>1 DEF Job
  <1>3. CASE Return(p) /\ UNCHANGED command
    BY <1>3, ReturnStep DEF BeginValidation
  <1>4. CASE CanMove(j.key, "validating") /\ Move(j.key, "validating") /\ Continue(p, "validating", j)
    <2> HIDE DEF j
    <2>1. QED
      BY <1>1, <1>2, <1>4, ValidatingStep DEF BeginValidation
  <1>5. QED
    BY <1>2, <1>3, <1>4 DEF BeginValidation

LEMMA ConsultStep ==
    ASSUME Typed, Typed', CommandInv, NEW p \in Procs, Consult(p)
    PROVE  CommandInv'
  <1>1. PICK e \in Effects :
           Continue(p, "decided", [local[p] EXCEPT !.effect = e, !.guarded = FALSE])
    BY DEF Consult
  <1> DEFINE j == [local[p] EXCEPT !.effect = e, !.guarded = FALSE]
  <1>2. pc[p] = "validating" /\ local[p].key \in Keys /\ local[p] \in Job
    BY KeyType DEF Consult
  <1>3. j.key = local[p].key /\ ~j.guarded
    BY <1>2 DEF Job
  <1>4. DeciderOK(pc[p], local[p]) /\ KeyOK(local[p].key)
    BY <1>2, Parts DEF PartsOK
  <1>5. /\ status[local[p].key] \in {"validating", "cancelled"}
        /\ policy[local[p].key] = "none" /\ approval[local[p].key] = "none"
    BY <1>2, <1>4 DEF DeciderOK, KeyOK, Deciding
  <1>6. DeciderOK("decided", j) /\ ExecutorOK("decided", j)
    BY <1>3, <1>5 DEF DeciderOK, ExecutorOK, Deciding, Executing, Returned
  <1>7. \A q \in Procs : q # p /\ local[q].key = j.key =>
           ~Clash("decided", pc[q]) /\ ~Clash(pc[q], "decided")
    BY <1>2, <1>3, NoClashStays DEF Deciding
  <1>8. Continue(p, "decided", j)
    BY <1>1
  <1> HIDE DEF j
  <1>9. QED
    BY <1>6, <1>7, <1>8, QuietStep DEF Consult

LEMMA EvaluateStep ==
    ASSUME Typed, Typed', CommandInv, NEW p \in Procs, Evaluate(p)
    PROVE  CommandInv'
  <1>k. PICK k \in Keys : k = local[p].key
    BY KeyType DEF Evaluate
  <1>1. PICK e \in Effects : /\ policy' = [policy EXCEPT ![k] = e]
                             /\ Continue(p, "decided", [local[p] EXCEPT !.effect = e])
    BY <1>k DEF Evaluate
  <1>2. pc[p] = "validating" /\ k \in Keys /\ local[p] \in Job
    BY <1>k, KeyType DEF Evaluate
  <1>3. DeciderOK(pc[p], local[p]) /\ ExecutorOK(pc[p], local[p]) /\ KeyOK(k)
    BY <1>2, Parts DEF PartsOK
  <1>4. /\ status[k] \in {"validating", "cancelled"} /\ k \notin started
        /\ policy[k] = "none" /\ approval[k] = "none" /\ local[p].guarded
    BY <1>k, <1>2, <1>3 DEF DeciderOK, KeyOK, Deciding, Unstarted
  <1>5. UNCHANGED <<status, started, approval, bound, artifacts, calls, outcome>>
    BY DEF Evaluate, command, execution
  <1>6. /\ pc'[p] = "decided" /\ local'[p] = [local[p] EXCEPT !.effect = e]
        /\ \A q \in Procs : q # p => pc'[q] = pc[q] /\ local'[q] = local[q]
    BY <1>1, OnlyP
  <1>7. local'[p].key = k /\ local'[p].guarded /\ local'[p].effect = e
    BY <1>k, <1>2, <1>4, <1>6 DEF Job
  <1>8. policy'[k] = e /\ \A i \in Keys : i # k => Same(i)
    BY <1>1, <1>2, <1>5 DEF Same, Typed, TypeOK
  <1>9. KeyOK(k)'
    BY <1>3, <1>4, <1>5, <1>8 DEF KeyOK
  <1>10. ASSUME NEW q \in Procs, q # p, local[q].key = k
         PROVE  DeciderOK(pc[q], local[q])' /\ ExecutorOK(pc[q], local[q])'
    <2>1. pc[q] \notin Deciding
      BY <1>k, <1>2, <1>10, DecidesAlone DEF Deciding
    <2>2. DeciderOK(pc[q], local[q]) /\ ExecutorOK(pc[q], local[q])
      BY Parts DEF PartsOK
    <2>3. DeciderOK(pc[q], local[q])'
      BY <1>5, <1>6, <1>10, <2>1, <2>2 DEF DeciderOK, Deciding
    <2>4. ExecutorOK(pc[q], local[q])'
      BY <1>5, <1>6, <1>10, <2>2 DEF ExecutorOK
    <2>5. QED
      BY <2>3, <2>4
  <1>11. DeciderOK(pc[p], local[p])' /\ ExecutorOK(pc[p], local[p])'
    BY <1>k, <1>4, <1>5, <1>6, <1>7, <1>8 DEF DeciderOK, ExecutorOK, Deciding, Executing, Returned
  <1>12. \A q \in Procs : q # p /\ local[q].key = k =>
            ~Clash("decided", pc[q]) /\ ~Clash(pc[q], "decided")
    BY <1>k, <1>2, NoClashStays DEF Deciding
  <1>13. \A q \in Procs : q # p /\ local[q].key = local'[p].key =>
            ~Clash(pc'[p], pc[q]) /\ ~Clash(pc[q], pc'[p])
    BY <1>6, <1>7, <1>12
  <1>14. \A q \in Procs : q # p => pc'[q] = pc[q] /\ local'[q] = local[q]
    BY <1>6
  <1>15. QED
    BY <1>8, <1>9, <1>10, <1>11, <1>13, <1>14, StepOf

LEMMA RequestApprovalStep ==
    ASSUME Typed, Typed', CommandInv, NEW p \in Procs, RequestApproval(p)
    PROVE  CommandInv'
  <1>k. PICK k \in Keys : k = local[p].key
    BY KeyType DEF RequestApproval
  <1>1. /\ pc[p] = "decided" /\ local[p].effect = "require_approval" /\ local[p].guarded
        /\ approval' = [approval EXCEPT ![k] = "pending"]
        /\ Continue(p, "requested", local[p])
        /\ UNCHANGED <<status, started, policy, bound, artifacts, calls, outcome>>
    BY <1>k DEF RequestApproval, Goto, command, execution
  <1>2. k \in Keys /\ local[p] \in Job
    BY <1>k, <1>1, KeyType
  <1>3. DeciderOK(pc[p], local[p]) /\ KeyOK(k)
    BY <1>2, Parts DEF PartsOK
  <1>4. /\ status[k] \in {"validating", "cancelled"} /\ k \notin started /\ k \notin bound
        /\ policy[k] = "require_approval" /\ approval[k] = "none"
    BY <1>k, <1>1, <1>3 DEF DeciderOK, KeyOK, Deciding, Unstarted
  <1>5. /\ pc'[p] = "requested" /\ local'[p] = local[p]
        /\ \A q \in Procs : q # p => pc'[q] = pc[q] /\ local'[q] = local[q]
    BY <1>1, OnlyP
  <1>6. approval'[k] = "pending" /\ \A i \in Keys : i # k => Same(i)
    BY <1>1, <1>2 DEF Same, Typed, TypeOK
  <1>7. KeyOK(k)'
    BY <1>1, <1>3, <1>4, <1>6 DEF KeyOK
  <1>8. ASSUME NEW q \in Procs, q # p, local[q].key = k
        PROVE  DeciderOK(pc[q], local[q])' /\ ExecutorOK(pc[q], local[q])'
    <2>1. pc[q] \notin Deciding
      BY <1>k, <1>1, <1>8, DecidesAlone DEF Deciding
    <2>2. DeciderOK(pc[q], local[q]) /\ ExecutorOK(pc[q], local[q])
      BY Parts DEF PartsOK
    <2>3. DeciderOK(pc[q], local[q])'
      BY <1>1, <1>4, <1>5, <1>8, <2>1, <2>2 DEF DeciderOK, Deciding
    <2>4. ExecutorOK(pc[q], local[q])'
      BY <1>1, <1>5, <1>8, <2>2 DEF ExecutorOK
    <2>5. QED
      BY <2>3, <2>4
  <1>9. DeciderOK(pc[p], local[p])' /\ ExecutorOK(pc[p], local[p])'
    BY <1>k, <1>1, <1>4, <1>5, <1>6 DEF DeciderOK, ExecutorOK, Deciding, Executing, Returned
  <1>10. \A q \in Procs : q # p /\ local[q].key = k =>
            ~Clash("requested", pc[q]) /\ ~Clash(pc[q], "requested")
    BY <1>k, <1>1, NoClashStays DEF Deciding
  <1>11. QED
    BY <1>k, <1>5, <1>6, <1>7, <1>8, <1>9, <1>10, StepOf

LEMMA AuthorizedStep ==
    ASSUME Typed, Typed', CommandInv, NEW p \in Procs, NEW k \in Keys, k = local[p].key,
           NEW l \in {"idle", "authorized"}, Transition(p, "authorized", l),
           UNCHANGED <<authority, execution>>,
           policy[k] # "deny", policy[k] = "require_approval" => approval[k] = "consumed",
           \A q \in Procs : q # p /\ local[q].key = k => pc[q] \notin Deciding
    PROVE  CommandInv'
  <1>1. CanMove(k, "authorized") /\ Move(k, "authorized") => Moved(k, "authorized")
    BY DEF Moved, authority
  <1>2. "authorized" \in Status
    BY DEF Status
  <1>3. CASE l = "idle"
    BY <1>1, <1>2, <1>3, TransitionEnds
  <1>4. CASE Raise(p) /\ UNCHANGED command
    BY <1>4, RaiseStep
  <1>5. CASE /\ l = "authorized" /\ CanMove(k, "authorized") /\ Move(k, "authorized")
             /\ Continue(p, "authorized", local[p])
    <2>1. PICK j : j = local[p]
      OBVIOUS
    <2>2. status'[k] = "authorized"
      BY <1>5 DEF Move, Typed, TypeOK
    <2>3. DeciderOK("authorized", j)' /\ ExecutorOK("authorized", j)'
      BY <2>1, <2>2 DEF DeciderOK, ExecutorOK, Deciding, Executing, Returned
    <2>4. \A q \in Procs : q # p /\ local[q].key = k =>
             ~Clash("authorized", pc[q]) /\ ~Clash(pc[q], "authorized")
      BY DEF Clash, Deciding, Executing, Returned
    <2>5. Continue(p, "authorized", j) /\ j.key = k
      BY <1>5, <2>1
    <2>6. Moved(k, "authorized")
      BY <1>1, <1>5
    <2>7. QED
      BY <1>2, <2>3, <2>4, <2>5, <2>6, MoveStep
  <1>6. QED
    BY <1>3, <1>4, <1>5 DEF Transition, Goto

LEMMA JudgeStep ==
    ASSUME Typed, Typed', CommandInv, NEW p \in Procs, Judge(p)
    PROVE  CommandInv'
  <1>1. CASE Reject(p) \/ FailValidation(p)
    <2>1. PICK target \in {"rejected", "failed"} : Transition(p, target, "idle")
      BY <1>1 DEF Reject, FailValidation
    <2>2. pc[p] \in Deciding \cup {"failing"} /\ local[p].key \in Keys
      BY <1>1, KeyType DEF Reject, FailValidation, Deciding
    <2>3. UNCHANGED <<authority, execution>>
      BY <1>1 DEF Reject, FailValidation
    <2>4. CanMove(local[p].key, target) /\ Move(local[p].key, target)
          => Moved(local[p].key, target)
      BY <2>3 DEF Moved, authority
    <2>5. QED
      BY <2>1, <2>2, <2>3, <2>4, DecidesAlone, TransitionEnds DEF Status, Terminal
  <1>2. CASE AwaitApproval(p)
    <2>1. Transition(p, "approval_required", "idle")
      BY <1>2 DEF AwaitApproval
    <2>2. pc[p] \in Deciding /\ local[p].key \in Keys
      BY <1>2, KeyType DEF AwaitApproval, Deciding
    <2>3. DeciderOK(pc[p], local[p])
      BY Parts DEF PartsOK
    <2>4. CanMove(local[p].key, "approval_required") /\ Move(local[p].key, "approval_required")
          => Moved(local[p].key, "approval_required")
      BY <1>2, <2>3 DEF AwaitApproval, Moved, DeciderOK
    <2>5. ~CanMove(local[p].key, "approval_required") => UNCHANGED <<authority, execution>>
      BY <1>2 DEF AwaitApproval, authority
    <2>6. QED
      BY <2>1, <2>2, <2>4, <2>5, DecidesAlone, TransitionEnds DEF Status
  <1>3. CASE Authorize(p)
    <2>1. PICK k \in Keys : k = local[p].key
      BY <1>3, KeyType DEF Authorize
    <2>2. DeciderOK(pc[p], local[p])
      BY Parts DEF PartsOK
    <2>3. policy[k] # "deny" /\ policy[k] # "require_approval"
      BY <1>3, <2>1, <2>2 DEF Authorize, DeciderOK
    <2>4. \A q \in Procs : q # p /\ local[q].key = k => pc[q] \notin Deciding
      BY <1>3, <2>1, DecidesAlone DEF Authorize, Deciding
    <2>5. PICK l \in {"idle", "authorized"} : Transition(p, "authorized", l)
      BY <1>3 DEF Authorize
    <2>6. UNCHANGED <<authority, execution>>
      BY <1>3 DEF Authorize
    <2>7. QED
      BY <2>1, <2>3, <2>4, <2>5, <2>6, AuthorizedStep
  <1>4. QED
    BY <1>1, <1>2, <1>3, BeginValidationStep, ConsultStep, EvaluateStep, RequestApprovalStep
       DEF Judge

\* Approval k, which is open, is settled or decided.
Settled(k, a) ==
    /\ approval' = [approval EXCEPT ![k] = a]
    /\ UNCHANGED <<command, policy, bound, execution>>
    /\ approval[k] \notin {"none", "consumed"}
    /\ a # "none"

LEMMA SettledKey ==
    ASSUME Typed, NEW k \in Keys, NEW a, Settled(k, a), KeyOK(k)
    PROVE  /\ KeyOK(k)'
           /\ \A i \in Keys : i # k => Same(i)
           /\ approval'[k] = a
           /\ UNCHANGED <<status, started, policy, bound, artifacts, calls, outcome>>
  <1>1. UNCHANGED <<status, started, policy, bound, artifacts, calls, outcome>>
    BY DEF Settled, command, execution
  <1>2. approval'[k] = a /\ \A i \in Keys : i # k => approval'[i] = approval[i]
    BY DEF Settled, Typed, TypeOK
  <1>3. KeyOK(k)'
    BY <1>1, <1>2 DEF Settled, KeyOK
  <1>4. QED
    BY <1>1, <1>2, <1>3 DEF Same

LEMMA SettledOthers ==
    ASSUME Typed, CommandInv, NEW k \in Keys, NEW a, Settled(k, a),
           NEW q \in Procs, pc'[q] = pc[q], local'[q] = local[q], local[q].key = k
    PROVE  DeciderOK(pc[q], local[q])' /\ ExecutorOK(pc[q], local[q])'
  <1>1. KeyOK(k) /\ DeciderOK(pc[q], local[q]) /\ ExecutorOK(pc[q], local[q])
    BY Parts DEF PartsOK
  <1>2. approval'[k] = a /\ UNCHANGED <<status, started, policy, bound, artifacts, calls, outcome>>
    BY <1>1, SettledKey
  <1>3. a # "none" /\ pc[q] \notin {"validating", "decided", "consumed"}
    BY <1>1 DEF Settled, DeciderOK, KeyOK
  <1>4. DeciderOK(pc[q], local[q])'
    BY <1>1, <1>2, <1>3 DEF DeciderOK
  <1>5. ExecutorOK(pc[q], local[q])'
    BY <1>1, <1>2 DEF ExecutorOK
  <1>6. QED
    BY <1>4, <1>5

LEMMA SettleStep ==
    ASSUME Typed, Typed', CommandInv, NEW p \in Procs, NEW k \in Keys, NEW a, Settled(k, a),
           NEW l \in {"expiring", "refusing", "consumed"}, NEW j, Continue(p, l, j),
           DeciderOK(l, j)'
    PROVE  CommandInv'
  <1>1. /\ pc'[p] = l /\ local'[p] = j
        /\ \A q \in Procs : q # p => pc'[q] = pc[q] /\ local'[q] = local[q]
    BY OnlyP
  <1>2. KeyOK(k)
    BY Parts DEF PartsOK
  <1>3. KeyOK(k)' /\ \A i \in Keys : i # k => Same(i)
    BY <1>2, SettledKey
  <1>4. \A q \in Procs : q # p /\ local[q].key = k =>
           DeciderOK(pc[q], local[q])' /\ ExecutorOK(pc[q], local[q])'
    BY <1>1, SettledOthers
  <1>5. DeciderOK(pc[p], local[p])' /\ ExecutorOK(pc[p], local[p])'
    BY <1>1 DEF DeciderOK, ExecutorOK, Deciding, Executing, Returned
  <1>6. \A m : ~Clash(l, m) /\ ~Clash(m, l)
    BY DEF Clash, Deciding, Executing, Returned
  <1>7. QED
    BY <1>1, <1>3, <1>4, <1>5, <1>6, StepOf

LEMMA CheckApprovalStep ==
    ASSUME Typed, Typed', CommandInv, NEW p \in Procs, CheckApproval(p)
    PROVE  CommandInv'
  <1>1. PICK k \in Keys : k = local[p].key
    BY KeyType DEF CheckApproval
  <1>2. PICK j : j = local[p]
    OBVIOUS
  <1>3. PICK l \in {"refusing", "consuming"} :
           /\ Continue(p, l, j)
           /\ \/ UNCHANGED approval
              \/ approval' = [approval EXCEPT ![k] = Expired(approval[k])] /\ l = "refusing"
    BY <1>1, <1>2 DEF CheckApproval, Goto
  <1>4. DeciderOK(pc[p], local[p]) /\ KeyOK(k)
    BY <1>1, Parts DEF PartsOK
  <1>5. /\ status[k] \notin {"none", "planned", "validating"} /\ k \in bound
        /\ ~j.guarded /\ approval[k] # "none"
    BY <1>1, <1>2, <1>4 DEF CheckApproval, DeciderOK, KeyOK, Deciding, Executing, Returned
  <1>6. UNCHANGED <<command, policy, bound, execution>>
    BY DEF CheckApproval
  <1>7. CASE UNCHANGED approval
    <2>1. DeciderOK(l, j) /\ ExecutorOK(l, j)
      BY <1>1, <1>2, <1>5 DEF DeciderOK, ExecutorOK, Deciding, Executing, Returned
    <2>2. \A m : ~Clash(l, m) /\ ~Clash(m, l)
      BY DEF Clash, Deciding, Executing, Returned
    <2>3. UNCHANGED <<command, authority, execution>>
      BY <1>7 DEF CheckApproval, authority
    <2>4. QED
      BY <1>3, <2>1, <2>2, <2>3, QuietStep
  <1>8. CASE approval' # approval
    <2>1. l = "refusing" /\ Settled(k, "expired")
      BY <1>3, <1>5, <1>6, <1>8 DEF Settled, Expired, Typed, TypeOK
    <2>2. DeciderOK("refusing", j)'
      BY <1>1, <1>2, <1>5, <1>6 DEF DeciderOK, Deciding, Executing, Returned, command
    <2>3. QED
      BY <1>3, <2>1, <2>2, SettleStep
  <1>9. QED
    BY <1>7, <1>8

LEMMA ConsumeStep ==
    ASSUME Typed, Typed', CommandInv, NEW p \in Procs, Consume(p)
    PROVE  CommandInv'
  <1>1. PICK k \in Keys : k = local[p].key
    BY KeyType DEF Consume
  <1>2. PICK j : j = local[p]
    OBVIOUS
  <1>3. CASE Return(p) /\ UNCHANGED approval
    BY <1>3, ReturnStep DEF Consume, authority
  <1>4. CASE /\ approval[k] = "approved"
             /\ approval' = [approval EXCEPT ![k] = "consumed"]
             /\ Continue(p, "consumed", j)
    <2>1. DeciderOK(pc[p], local[p])
      BY Parts DEF PartsOK
    <2>2. status[k] \notin {"none", "planned", "validating"} /\ ~j.guarded
      BY <1>1, <1>2, <2>1 DEF Consume, DeciderOK, Deciding, Executing, Returned
    <2>3. Settled(k, "consumed")
      BY <1>4 DEF Settled, Consume
    <2>4. approval'[k] = "consumed" /\ status' = status
      BY <1>4 DEF Consume, command, Typed, TypeOK
    <2>5. DeciderOK("consumed", j)'
      BY <1>1, <1>2, <2>2, <2>4 DEF DeciderOK, Deciding, Executing, Returned
    <2>6. QED
      BY <1>4, <2>3, <2>5, SettleStep
  <1>5. QED
    BY <1>1, <1>2, <1>3, <1>4 DEF Consume, Goto

LEMMA ApproveStep ==
    ASSUME Typed, Typed', CommandInv, NEW p \in Procs, Approve(p)
    PROVE  CommandInv'
  <1>1. ASSUME pc[p] \in {"refusing", "consumed"}
        PROVE  /\ local[p].key \in Keys
               /\ pc[p] = "consumed" => approval[local[p].key] = "consumed"
               /\ \A q \in Procs :
                     /\ local[q].key = local[p].key
                     /\ CanMove(local[p].key, "rejected") \/ CanMove(local[p].key, "authorized")
                     => pc[q] \notin Deciding
    <2>1. local[p].key \in Keys
      BY <1>1, KeyType
    <2>2. DeciderOK(pc[p], local[p]) /\ \A q \in Procs : DeciderOK(pc[q], local[q])
      BY Parts DEF PartsOK
    <2>3. status[local[p].key] # "validating" /\ Successors("cancelled") = {}
      BY <1>1, <2>2 DEF DeciderOK, Successors
    <2>4. QED
      BY <1>1, <2>1, <2>2, <2>3 DEF DeciderOK, CanMove
  <1>2. CASE RefuseApproved(p)
    <2>1. Transition(p, "rejected", "idle") /\ UNCHANGED <<authority, execution>>
      BY <1>2 DEF RefuseApproved
    <2>2. CASE Raise(p) /\ UNCHANGED command
      BY <2>1, <2>2, RaiseStep
    <2>3. CASE CanMove(local[p].key, "rejected")
      <3>1. CanMove(local[p].key, "rejected") /\ Move(local[p].key, "rejected")
            => Moved(local[p].key, "rejected")
        BY <2>1 DEF Moved, authority
      <3>2. \A q \in Procs : local[q].key = local[p].key => pc[q] \notin Deciding
        BY <1>1, <1>2, <2>3 DEF RefuseApproved
      <3>3. local[p].key \in Keys /\ "rejected" \in Status
        BY <1>1, <1>2 DEF RefuseApproved, Status, Terminal
      <3>4. QED
        BY <2>1, <3>1, <3>2, <3>3, TransitionEnds
    <2>4. QED
      BY <2>1, <2>2, <2>3 DEF Transition
  <1>3. CASE AuthorizeApproved(p)
    <2>1. Transition(p, "authorized", "authorized") /\ UNCHANGED <<authority, execution>>
      BY <1>3 DEF AuthorizeApproved
    <2>2. CASE Raise(p) /\ UNCHANGED command
      BY <2>1, <2>2, RaiseStep
    <2>3. CASE CanMove(local[p].key, "authorized")
      <3>1. PICK k \in Keys : k = local[p].key
        BY <1>1, <1>3 DEF AuthorizeApproved
      <3>2. KeyOK(k)
        BY Parts DEF PartsOK
      <3>3. policy[k] # "deny" /\ approval[k] = "consumed"
        BY <1>1, <1>3, <3>1, <3>2 DEF AuthorizeApproved, KeyOK
      <3>4. \A q \in Procs : local[q].key = k => pc[q] \notin Deciding
        BY <1>1, <1>3, <2>3, <3>1 DEF AuthorizeApproved
      <3>5. QED
        BY <2>1, <3>1, <3>3, <3>4, AuthorizedStep
    <2>4. QED
      BY <2>1, <2>2, <2>3 DEF Transition
  <1>4. QED
    BY <1>2, <1>3, CheckApprovalStep, ConsumeStep DEF Approve

\* A step of the process that executes command k.
LEMMA ExecutingStep ==
    ASSUME Typed, Typed', CommandInv, NEW p \in Procs, NEW k \in Keys, k = local[p].key,
           pc[p] \in Executing, NEW l \in Executing, NEW j, Continue(p, l, j), j.key = k,
           UNCHANGED <<command, authority>>,
           \A i \in Keys : i # k => Same(i),
           KeyOK(k)', ExecutorOK(l, j)'
    PROVE  CommandInv'
  <1>1. /\ pc'[p] = l /\ local'[p] = j
        /\ \A q \in Procs : q # p => pc'[q] = pc[q] /\ local'[q] = local[q]
    BY OnlyP
  <1>2. UNCHANGED <<status, started, policy, approval, bound>>
    BY DEF command, authority
  <1>3. \A q \in Procs : q # p /\ local[q].key = k =>
           DeciderOK(pc[q], local[q])' /\ ExecutorOK(pc[q], local[q])'
    <2>1. ASSUME NEW q \in Procs, q # p, local[q].key = k
          PROVE  DeciderOK(pc[q], local[q])' /\ ExecutorOK(pc[q], local[q])'
      <3>1. DeciderOK(pc[q], local[q]) /\ ~Clash(pc[q], pc[p])
        BY <2>1, Parts DEF PartsOK
      <3>2. pc[q] \notin Executing
        BY <3>1 DEF Clash
      <3>3. DeciderOK(pc[q], local[q])'
        BY <1>1, <1>2, <2>1, <3>1 DEF DeciderOK
      <3>4. ExecutorOK(pc[q], local[q])'
        BY <1>1, <2>1, <3>2 DEF ExecutorOK, Executing, Returned
      <3>5. QED
        BY <3>3, <3>4
    <2>2. QED
      BY <2>1
  <1>4. DeciderOK(pc[p], local[p])' /\ ExecutorOK(pc[p], local[p])'
    <2>1. DeciderOK(pc[p], local[p])'
      BY <1>1 DEF DeciderOK, Deciding, Executing, Returned
    <2>2. ExecutorOK(pc[p], local[p])'
      BY <1>1 DEF ExecutorOK
    <2>3. QED
      BY <2>1, <2>2
  <1>5. \A q \in Procs : q # p /\ local[q].key = k => ~Clash(l, pc[q]) /\ ~Clash(pc[q], l)
    BY NoClashStays
  <1>6. QED
    BY <1>1, <1>3, <1>4, <1>5, StepOf

LEMMA StartRunningStep ==
    ASSUME Typed, Typed', CommandInv, NEW p \in Procs, StartRunning(p)
    PROVE  CommandInv'
  <1>1. PICK k \in Keys : k = local[p].key
    BY KeyType DEF StartRunning
  <1>2. PICK j : j = local[p]
    OBVIOUS
  <1>3. pc[p] = "authorized" /\ UNCHANGED <<authority, execution>>
    BY DEF StartRunning
  <1>4. CASE Raise(p) /\ UNCHANGED command
    BY <1>3, <1>4, RaiseStep
  <1>5. CASE CanMove(k, "running") /\ Move(k, "running") /\ Continue(p, "running", j)
    <2>1. KeyOK(k) /\ status[k] = "authorized"
      BY <1>5, SuccessorFacts, Parts DEF PartsOK, CanMove, Typed, TypeOK
    <2>2. k \notin started /\ calls[k] = 0
      BY <2>1 DEF KeyOK, Unstarted, Typed, TypeOK
    <2>3. Moved(k, "running") /\ "running" \in Status
      BY <1>3, <1>5 DEF Moved, authority, Status
    <2>4. status'[k] = "running" /\ k \in started' /\ calls'[k] = calls[k]
      BY <1>3, <1>5 DEF Move, execution, Typed, TypeOK
    <2>5. DeciderOK("running", j)' /\ ExecutorOK("running", j)'
      BY <1>1, <1>2, <2>2, <2>4 DEF DeciderOK, ExecutorOK, Deciding, Executing, Returned
    <2>6. ASSUME NEW q \in Procs, q # p, local[q].key = k
          PROVE  pc[q] \notin Deciding /\ ~Clash("running", pc[q]) /\ ~Clash(pc[q], "running")
      <3>1. pc[q] \notin Deciding
        BY <1>1, <1>3, <2>6, DecidesAlone
      <3>2. pc[q] \notin Executing
        BY <2>2, <2>6, Parts DEF PartsOK, ExecutorOK
      <3>3. QED
        BY <3>1, <3>2 DEF Clash, Deciding, Executing, Returned
    <2>7. QED
      BY <1>1, <1>2, <1>5, <2>3, <2>5, <2>6, MoveStep
  <1>6. QED
    BY <1>1, <1>2, <1>4, <1>5 DEF StartRunning, Transition, Goto

LEMMA CallExecutorStep ==
    ASSUME Typed, Typed', CommandInv, NEW p \in Procs, CallExecutor(p)
    PROVE  CommandInv'
  <1>1. PICK k \in Keys : k = local[p].key
    BY KeyType DEF CallExecutor
  <1>2. PICK j : j = local[p]
    OBVIOUS
  <1>3. /\ pc[p] = "running" /\ Continue(p, "executing", j)
        /\ calls' = [calls EXCEPT ![k] = @ + 1]
        /\ UNCHANGED <<command, authority>>
        /\ UNCHANGED <<status, started, policy, approval, bound, artifacts, outcome>>
    BY <1>1, <1>2 DEF CallExecutor, Goto, command, authority
  <1>4. ExecutorOK(pc[p], local[p]) /\ KeyOK(k)
    BY <1>1, Parts DEF PartsOK
  <1>5. k \in started /\ calls[k] = 0 /\ outcome[k] = "none"
    BY <1>1, <1>3, <1>4 DEF ExecutorOK, KeyOK, Executing
  <1>6. calls'[k] = 1 /\ \A i \in Keys : i # k => Same(i)
    BY <1>3, <1>5 DEF Same, Typed, TypeOK
  <1>7. KeyOK(k)'
    BY <1>3, <1>4, <1>5, <1>6 DEF KeyOK
  <1>8. ExecutorOK("executing", j)'
    BY <1>1, <1>2, <1>3, <1>5, <1>6 DEF ExecutorOK, Executing, Returned
  <1>9. "executing" \in Executing /\ pc[p] \in Executing /\ j.key = k
    BY <1>1, <1>2, <1>3 DEF Executing
  <1>10. QED
    BY <1>1, <1>3, <1>6, <1>7, <1>8, <1>9, ExecutingStep

LEMMA ExecutorReturnsStep ==
    ASSUME Typed, Typed', CommandInv, NEW p \in Procs, ExecutorReturns(p)
    PROVE  CommandInv'
  <1>1. PICK k \in Keys : k = local[p].key
    BY KeyType DEF ExecutorReturns
  <1>2. PICK o \in Results : /\ outcome' = [outcome EXCEPT ![k] = o]
                             /\ Continue(p, "stdout", [local[p] EXCEPT !.result = o])
    BY <1>1 DEF ExecutorReturns
  <1>3. PICK j : j = [local[p] EXCEPT !.result = o]
    OBVIOUS
  <1>4. j.key = k /\ j.result = o
    BY <1>1, <1>3 DEF Typed, TypeOK, Job
  <1>5. /\ pc[p] = "executing" /\ Continue(p, "stdout", j)
        /\ UNCHANGED <<command, authority>>
        /\ UNCHANGED <<status, started, policy, approval, bound, artifacts, calls>>
    BY <1>2, <1>3 DEF ExecutorReturns, command, authority
  <1>6. ExecutorOK(pc[p], local[p]) /\ KeyOK(k)
    BY <1>1, Parts DEF PartsOK
  <1>7. k \in started /\ calls[k] = 1 /\ outcome[k] = "none"
    BY <1>1, <1>5, <1>6 DEF ExecutorOK, Executing
  <1>8. outcome'[k] = o /\ \A i \in Keys : i # k => Same(i)
    BY <1>2, <1>5 DEF Same, Typed, TypeOK
  <1>9. KeyOK(k)'
    BY <1>5, <1>6, <1>7, <1>8 DEF KeyOK
  <1>10. ExecutorOK("stdout", j)'
    BY <1>4, <1>5, <1>7, <1>8 DEF ExecutorOK, Executing, Returned
  <1>11. "stdout" \in Executing /\ pc[p] \in Executing
    BY <1>5 DEF Executing, Returned
  <1>12. QED
    BY <1>1, <1>4, <1>5, <1>8, <1>9, <1>10, <1>11, ExecutingStep

LEMMA RecordStreamsStep ==
    ASSUME Typed, Typed', CommandInv, NEW p \in Procs, RecordStreams(p)
    PROVE  CommandInv'
  <1>1. PICK k \in Keys : k = local[p].key
    BY KeyType DEF RecordStreams
  <1>2. PICK j : j = local[p]
    OBVIOUS
  <1>3. PICK l \in {"stderr", "recording"} :
           /\ Continue(p, l, j)
           /\ l = "stderr" <=> pc[p] = "stdout"
    BY <1>2 DEF RecordStreams, Goto
  <1>4. /\ pc[p] \in {"stdout", "stderr"}
        /\ artifacts' = [artifacts EXCEPT ![k] = @ \cup {pc[p]}]
        /\ UNCHANGED <<command, authority>>
        /\ UNCHANGED <<status, started, policy, approval, bound, outcome, calls>>
    BY <1>1 DEF RecordStreams, command, authority
  <1>5. ExecutorOK(pc[p], local[p]) /\ KeyOK(k)
    BY <1>1, Parts DEF PartsOK
  <1>6. k \in started /\ calls[k] = 1 /\ outcome[k] = j.result
    BY <1>1, <1>2, <1>4, <1>5 DEF ExecutorOK, Executing, Returned
  <1>7. /\ artifacts'[k] = artifacts[k] \cup {pc[p]}
        /\ artifacts[k] \subseteq {"stdout", "stderr"}
        /\ \A i \in Keys : i # k => Same(i)
    BY <1>4 DEF Same, Typed, TypeOK
  <1>8. KeyOK(k)'
    <2>1. (status[k] \in {"succeeded", "timed_out"} => artifacts[k] = {"stdout", "stderr"})'
      BY <1>4, <1>5, <1>7 DEF KeyOK
    <2>2. QED
      BY <1>4, <1>5, <2>1 DEF KeyOK
  <1>9. ExecutorOK(l, j)'
    <2>1. CASE pc[p] = "stdout"
      BY <1>1, <1>2, <1>3, <1>4, <1>6, <1>7, <2>1 DEF ExecutorOK, Executing, Returned
    <2>2. CASE pc[p] = "stderr"
      <3>1. artifacts'[k] = {"stdout", "stderr"}
        BY <1>1, <1>5, <1>7, <2>2 DEF ExecutorOK
      <3>2. QED
        BY <1>1, <1>2, <1>3, <1>4, <1>6, <2>2, <3>1 DEF ExecutorOK, Executing, Returned
    <2>3. QED
      BY <1>4, <2>1, <2>2
  <1>10. l \in Executing /\ pc[p] \in Executing /\ j.key = k
    BY <1>1, <1>2, <1>4 DEF Executing, Returned
  <1>11. QED
    BY <1>1, <1>3, <1>4, <1>7, <1>8, <1>9, <1>10, ExecutingStep

LEMMA RecordOutcomeStep ==
    ASSUME Typed, Typed', CommandInv, NEW p \in Procs, RecordOutcome(p)
    PROVE  CommandInv'
  <1>1. PICK k \in Keys : k = local[p].key
    BY KeyType DEF RecordOutcome
  <1>2. PICK target : target = Recorded(local[p].result)
    OBVIOUS
  <1>3. ExecutorOK(pc[p], local[p]) /\ local[p].result \in Results
    BY Parts DEF PartsOK, RecordOutcome, Typed, JobOK, Returned
  <1>4. /\ k \in started /\ outcome[k] = local[p].result
        /\ artifacts[k] = {"stdout", "stderr"}
    BY <1>1, <1>3 DEF RecordOutcome, ExecutorOK, Executing, Returned
  <1>5. /\ target \in Status \ {"authorized"}
        /\ target = "succeeded" => outcome[k] = "zero"
        /\ target = "timed_out" => outcome[k] = "timeout"
    BY <1>2, <1>3, <1>4 DEF Recorded, Results, Status, Terminal
  <1>6. Transition(p, target, "idle") /\ UNCHANGED <<authority, execution>>
    BY <1>2 DEF RecordOutcome
  <1>7. CanMove(k, target) /\ Move(k, target) => Moved(k, target)
    BY <1>4, <1>5, <1>6 DEF Moved, authority
  <1>8. ASSUME NEW q \in Procs, local[q].key = k
        PROVE  pc[q] \notin Deciding
    <2>1. DeciderOK(pc[q], local[q]) /\ KeyOK(k)
      BY Parts DEF PartsOK
    <2>2. QED
      BY <1>4, <1>8, <2>1 DEF DeciderOK, KeyOK, Unstarted
  <1>9. QED
    BY <1>1, <1>5, <1>6, <1>7, <1>8, TransitionEnds

LEMMA RunStep ==
    ASSUME Typed, Typed', CommandInv, NEW p \in Procs, Run(p)
    PROVE  CommandInv'
  BY StartRunningStep, CallExecutorStep, ExecutorReturnsStep, RecordStreamsStep, RecordOutcomeStep
     DEF Run

\* A recovery has no command of its own.
LEMMA RecoveryJob ==
    ASSUME Typed, CommandInv, NEW p \in Procs, pc[p] \in {"expiring", "interrupting"},
           NEW l \in {"expiring", "interrupting"}, NEW todo
    PROVE  /\ [local[p] EXCEPT !.todo = todo].guarded = FALSE
           /\ DeciderOK(l, [local[p] EXCEPT !.todo = todo])
           /\ ExecutorOK(l, [local[p] EXCEPT !.todo = todo])
           /\ \A m : ~Clash(l, m) /\ ~Clash(m, l)
  <1>1. DeciderOK(pc[p], local[p]) /\ local[p] \in Job
    BY Parts DEF PartsOK, Typed, TypeOK
  <1>2. ~local[p].guarded
    BY <1>1 DEF DeciderOK, Deciding, Executing, Returned
  <1>3. [local[p] EXCEPT !.todo = todo].guarded = FALSE
    BY <1>1, <1>2 DEF Job
  <1>4. QED
    BY <1>3 DEF DeciderOK, ExecutorOK, Clash, Deciding, Executing, Returned

LEMMA RecoverStep ==
    ASSUME Typed, Typed', CommandInv, NEW p \in Procs, StartRecovery(p) \/ Recover(p)
    PROVE  CommandInv'
  <1>1. CASE StartRecovery(p)
    <2>1. PICK todo : Continue(p, "expiring", [NoJob EXCEPT !.cmd = "recover", !.todo = todo])
      BY <1>1 DEF StartRecovery
    <2>2. PICK j : j = [NoJob EXCEPT !.cmd = "recover", !.todo = todo]
      OBVIOUS
    <2>3. /\ DeciderOK("expiring", j) /\ ExecutorOK("expiring", j)
          /\ \A m : ~Clash("expiring", m) /\ ~Clash(m, "expiring")
      BY <2>2 DEF DeciderOK, ExecutorOK, NoJob, Clash, Deciding, Executing, Returned
    <2>4. UNCHANGED <<command, authority, execution>>
      BY <1>1 DEF StartRecovery
    <2>5. QED
      BY <2>1, <2>2, <2>3, <2>4, QuietStep
  <1>2. CASE ListRunning(p)
    <2>1. PICK todo : Continue(p, "interrupting", [local[p] EXCEPT !.todo = todo])
      BY <1>2 DEF ListRunning
    <2>2. pc[p] = "expiring" /\ UNCHANGED <<command, authority, execution>>
      BY <1>2 DEF ListRunning
    <2>3. QED
      BY <2>1, <2>2, RecoveryJob, QuietStep
  <1>3. CASE EndRecovery(p)
    BY <1>3, ReturnStep DEF EndRecovery
  <1>4. CASE ExpireApproval(p)
    <2>1. PICK k \in Keys :
             /\ approval' = [approval EXCEPT ![k] = Expired(approval[k])]
             /\ Continue(p, "expiring", [local[p] EXCEPT !.todo = local[p].todo \ {k}])
      BY <1>4 DEF ExpireApproval, Typed, TypeOK, Job
    <2>2. PICK todo : todo = local[p].todo \ {k}
      OBVIOUS
    <2>3. PICK j : j = [local[p] EXCEPT !.todo = todo]
      OBVIOUS
    <2>4. /\ DeciderOK("expiring", j) /\ ExecutorOK("expiring", j) /\ ~j.guarded
          /\ \A m : ~Clash("expiring", m) /\ ~Clash(m, "expiring")
      BY <1>4, <2>3, RecoveryJob DEF ExpireApproval
    <2>5. UNCHANGED <<command, policy, bound, execution>> /\ Continue(p, "expiring", j)
      BY <1>4, <2>1, <2>2, <2>3 DEF ExpireApproval
    <2>6. CASE UNCHANGED approval
      BY <1>4, <2>4, <2>5, <2>6, QuietStep DEF ExpireApproval, authority
    <2>7. CASE approval' # approval
      <3>1. Settled(k, "expired")
        BY <2>1, <2>5, <2>7 DEF Settled, Expired, Typed, TypeOK
      <3>2. DeciderOK("expiring", j)'
        BY <2>4 DEF DeciderOK, Deciding, Executing, Returned
      <3>3. QED
        BY <2>5, <3>1, <3>2, SettleStep
    <2>8. QED
      BY <2>6, <2>7
  <1>5. CASE \E k \in Keys : Interrupt(p, k)
    <2>1. PICK k \in Keys : Interrupt(p, k)
      BY <1>5
    <2>2. pc[p] = "interrupting" /\ UNCHANGED <<authority, execution>>
      BY <2>1 DEF Interrupt
    <2>3. CASE Return(p) /\ UNCHANGED command
      BY <2>2, <2>3, ReturnStep
    <2>4. CASE CanMove(k, "interrupted") /\ Move(k, "interrupted")
               /\ Continue(p, "interrupting", [local[p] EXCEPT !.todo = local[p].todo \ {k}])
      <3>1. PICK todo : todo = local[p].todo \ {k}
        OBVIOUS
      <3>2. PICK j : j = [local[p] EXCEPT !.todo = todo]
        OBVIOUS
      <3>3. /\ ~j.guarded
            /\ \A m : ~Clash("interrupting", m) /\ ~Clash(m, "interrupting")
        BY <2>2, <3>2, RecoveryJob
      <3>4. DeciderOK("interrupting", j)' /\ ExecutorOK("interrupting", j)'
        BY <3>3 DEF DeciderOK, ExecutorOK, Deciding, Executing, Returned
      <3>5. status[k] = "running"
        BY <2>4, SuccessorFacts DEF CanMove, Typed, TypeOK
      <3>6. \A q \in Procs : local[q].key = k => pc[q] \notin Deciding
        BY <3>5, Parts DEF PartsOK, DeciderOK
      <3>7. Moved(k, "interrupted") /\ "interrupted" \in Status
        BY <2>2, <2>4 DEF Moved, authority, Status, Terminal
      <3>8. Continue(p, "interrupting", j)
        BY <2>4, <3>1, <3>2
      <3>9. QED
        BY <3>3, <3>4, <3>6, <3>7, <3>8, MoveStep
    <2>5. QED
      BY <2>1, <2>3, <2>4 DEF Interrupt
  <1>6. QED
    BY <1>1, <1>2, <1>3, <1>4, <1>5 DEF Recover

\* The invariant after a step that leaves the processes where they are.
LEMMA TableStep ==
    ASSUME Typed, Typed', CommandInv, NEW k \in Keys, UNCHANGED <<pc, local>>,
           KeyOK(k)', \A i \in Keys : i # k => Same(i),
           \A q \in Procs : local[q].key = k =>
               DeciderOK(pc[q], local[q])' /\ ExecutorOK(pc[q], local[q])'
    PROVE  CommandInv'
  <1>1. CASE Procs = {}
    <2>1. ASSUME NEW i \in Keys, i # k
          PROVE  KeyOK(i)'
      <3>1. KeyOK(i)
        BY Parts DEF PartsOK
      <3>2. QED
        BY <2>1, <3>1 DEF KeyOK, Same
    <2>2. QED
      BY <1>1, <2>1, PartsNext DEF PartsOK
  <1>2. ASSUME NEW p \in Procs
        PROVE  CommandInv'
    <2>1. \A q \in Procs : q # p /\ local[q].key = local[p].key =>
             ~Clash(pc[p], pc[q]) /\ ~Clash(pc[q], pc[p])
      BY Parts DEF PartsOK
    <2>2. DeciderOK(pc[p], local[p])' /\ ExecutorOK(pc[p], local[p])'
      <3>1. DeciderOK(pc[p], local[p]) /\ ExecutorOK(pc[p], local[p]) /\ JobOK(pc[p], local[p])
        BY Parts DEF PartsOK, Typed
      <3>2. CASE local[p].key = k
        BY <3>2
      <3>3. CASE local[p].key \in Keys \ {k}
        <4>1. Same(local[p].key)
          BY <3>3
        <4>2. DeciderOK(pc[p], local[p])'
          BY <3>1, <4>1 DEF Same, DeciderOK
        <4>3. ExecutorOK(pc[p], local[p])'
          BY <3>1, <4>1 DEF Same, ExecutorOK
        <4>4. QED
          BY <4>2, <4>3
      <3>4. CASE local[p].key \notin Keys
        BY <3>1, <3>4 DEF JobOK, DeciderOK, ExecutorOK, Deciding, Executing, Returned
      <3>5. QED
        BY <3>2, <3>3, <3>4
    <2>3. QED
      BY <2>1, <2>2, StepOf
  <1>3. QED
    BY <1>1, <1>2

LEMMA OutsideStep ==
    ASSUME Typed, Typed', CommandInv, NEW k \in Keys,
           DecideApproval(k) \/ Cancel(k) \/ Lapse(k)
    PROVE  CommandInv'
  <1>1. KeyOK(k)
    BY Parts DEF PartsOK
  <1>2. CASE DecideApproval(k)
    <2>1. PICK d \in {"approved", "denied"} : approval' = [approval EXCEPT ![k] = d]
      BY <1>2 DEF DecideApproval
    <2>2. Settled(k, d) /\ UNCHANGED <<pc, local>>
      BY <1>2, <2>1 DEF DecideApproval, Settled
    <2>3. QED
      BY <1>1, <2>2, SettledKey, SettledOthers, TableStep
  <1>3. CASE Cancel(k)
    <2>1. Moved(k, "cancelled") /\ UNCHANGED <<pc, local>> /\ "cancelled" \in Status
      BY <1>3 DEF Cancel, Moved, authority, Status, Terminal
    <2>2. QED
      BY <1>1, <2>1, MovedKey, MovedOthers, TableStep
  <1>4. CASE Lapse(k)
    <2>1. UNCHANGED <<pc, local, status, started, policy, approval, bound, artifacts, calls, outcome>>
      BY <1>4 DEF Lapse, command, execution
    <2>2. \A i \in Keys : Same(i)
      BY <2>1 DEF Same
    <2>3. KeyOK(k)'
      BY <1>1, <2>1 DEF KeyOK
    <2>4. ASSUME NEW q \in Procs
          PROVE  DeciderOK(pc[q], local[q])' /\ ExecutorOK(pc[q], local[q])'
      <3>1. DeciderOK(pc[q], local[q]) /\ ExecutorOK(pc[q], local[q])
        BY Parts DEF PartsOK
      <3>2. DeciderOK(pc[q], local[q])'
        BY <2>1, <3>1 DEF DeciderOK
      <3>3. ExecutorOK(pc[q], local[q])'
        BY <2>1, <3>1 DEF ExecutorOK
      <3>4. QED
        BY <3>2, <3>3
    <2>5. QED
      BY <2>1, <2>2, <2>3, <2>4, TableStep
  <1>5. QED
    BY <1>2, <1>3, <1>4

LEMMA InitInv == Init => CommandInv
  <1> SUFFICES ASSUME Init
               PROVE  CommandInv
    OBVIOUS
  <1>1. ASSUME NEW k \in Keys
        PROVE  KeyOK(k)
    <2>1. /\ status[k] = "none" /\ policy[k] = "none" /\ approval[k] = "none"
          /\ calls[k] = 0 /\ outcome[k] = "none"
          /\ started = {} /\ bound = {}
      BY DEF Init
    <2>2. QED
      BY <2>1 DEF KeyOK
  <1>2. \A p \in Procs : DeciderOK(pc[p], local[p]) /\ ExecutorOK(pc[p], local[p])
    BY DEF Init, NoJob, DeciderOK, ExecutorOK, Deciding, Executing, Returned
  <1>3. \A p, q \in Procs : local[p].key = local[q].key /\ Clash(pc[p], pc[q]) => p = q
    BY DEF Init, Clash, Deciding, Executing, Returned
  <1>4. QED
    BY <1>1, <1>2, <1>3, InitTyped, Parts DEF PartsOK

\* The invariant behind the safety properties holds in every reachable state.
THEOREM CommandInvariant == Spec => []CommandInv
  <1>1. Typed /\ Typed' /\ CommandInv /\ [Next]_vars => CommandInv'
    <2>1. ASSUME Typed, Typed', CommandInv, UNCHANGED vars
          PROVE  CommandInv'
      <3>1. UNCHANGED <<status, started, policy, approval, bound, artifacts, calls, outcome,
                        pc, local>>
        BY <2>1 DEF vars
      <3>2. \A k \in Keys : KeyOK(k)'
        BY <2>1, <3>1, Parts DEF PartsOK, KeyOK
      <3>3. \A q \in Procs : DeciderOK(pc[q], local[q])'
        BY <2>1, <3>1, Parts DEF PartsOK, DeciderOK
      <3>4. \A q \in Procs : ExecutorOK(pc[q], local[q])'
        BY <2>1, <3>1, Parts DEF PartsOK, ExecutorOK
      <3>5. \A q, r \in Procs : (local[q].key = local[r].key /\ Clash(pc[q], pc[r]) => q = r)'
        BY <2>1, <3>1, Parts DEF PartsOK
      <3>6. QED
        BY <2>1, <3>2, <3>3, <3>4, <3>5, PartsNext DEF PartsOK
    <2>2. ASSUME Typed, Typed', CommandInv, NEW p \in Procs, Refused(p) \/ Die(p)
          PROVE  CommandInv'
      BY <2>2, RaiseStep, ReturnStep DEF Refused, Die
    <2>3. QED
      BY <2>1, <2>2, PlanStep, ValidateStep, StartApprovedStep, JudgeStep, ApproveStep, RunStep,
         RecoverStep, OutsideStep DEF Next
  <1>2. QED
    BY <1>1, InitInv, TypedInvariant, PTL DEF Spec

\* However many processes race for it, a command is executed at most once.
THEOREM ExecutedOnce == Spec => []ExecutedAtMostOnce
  <1>1. CommandInv => ExecutedAtMostOnce
    BY DEF CommandInv
  <1>2. QED
    BY <1>1, CommandInvariant, PTL

\* The executor only gets commands whose start is durable and that were never
\* refused.
THEOREM JournalFirst == Spec => []JournaledBeforeExecuted
  <1>1. Typed /\ CommandInv => JournaledBeforeExecuted
    BY DEF CommandInv, StartInv, JournaledBeforeExecuted, Typed, TypeOK, Status, Terminal,
           Unstarted
  <1>2. QED
    BY <1>1, CommandInvariant, TypedInvariant, PTL

\* What was started was permitted, by an approval where one was required.
THEOREM Authorized == Spec => []StartIsAuthorized
  <1>1. Typed /\ CommandInv => StartIsAuthorized
    BY DEF CommandInv, DecisionsInv, StartIsAuthorized, Typed, TypeOK
  <1>2. QED
    BY <1>1, CommandInvariant, TypedInvariant, PTL

\* A recorded success or timeout is how the executor's call ended.
THEOREM ResultsAreTrue == Spec => []ResultIsTrue
  <1>1. CommandInv => ResultIsTrue
    BY DEF CommandInv
  <1>2. QED
    BY <1>1, CommandInvariant, PTL

\* Approvals are settled once: by the operator, the clock, or their use.
THEOREM ApprovalsSettle == Spec => ApprovalSettlesOnce
  <1> DEFINE Settles == \A k \in Keys : approval[k] \in {"denied", "expired", "consumed"}
                                        => approval'[k] = approval[k]
  <1>1. Typed /\ CommandInv /\ [Next]_vars => Settles
    <2> SUFFICES ASSUME Typed, CommandInv, [Next]_vars,
                        NEW k \in Keys, approval[k] \in {"denied", "expired", "consumed"}
                 PROVE  approval'[k] = approval[k]
      OBVIOUS
    <2>1. ASSUME NEW i \in Keys, NEW a, approval' = [approval EXCEPT ![i] = a],
                 approval[i] \notin {"denied", "expired", "consumed"}
          PROVE  approval'[k] = approval[k]
      BY <2>1 DEF Typed, TypeOK
    <2>2. ASSUME NEW i \in Keys, approval' = [approval EXCEPT ![i] = Expired(@)]
          PROVE  approval'[k] = approval[k]
      BY <2>2 DEF Typed, TypeOK, Expired
    <2>3. CASE UNCHANGED approval
      BY <2>3
    <2>4. ASSUME NEW p \in Procs, RequestApproval(p)
          PROVE  approval'[k] = approval[k]
      <3>1. PICK i \in Keys : i = local[p].key
        BY <2>4, KeyType DEF RequestApproval
      <3>2. approval[i] = "none"
        BY <2>4, <3>1, Parts DEF PartsOK, DeciderOK, RequestApproval
      <3>3. QED
        BY <2>1, <2>4, <3>1, <3>2 DEF RequestApproval
    <2>5. ASSUME NEW p \in Procs, CheckApproval(p) \/ Consume(p)
          PROVE  approval'[k] = approval[k]
      <3>1. PICK i \in Keys : i = local[p].key
        BY <2>5, KeyType DEF CheckApproval, Consume
      <3>2. QED
        BY <2>1, <2>2, <2>5, <3>1 DEF CheckApproval, Consume
    <2>6. ASSUME NEW p \in Procs, ExpireApproval(p)
          PROVE  approval'[k] = approval[k]
      BY <2>2, <2>6 DEF ExpireApproval, Typed, TypeOK, Job
    <2>7. ASSUME NEW i \in Keys, DecideApproval(i)
          PROVE  approval'[k] = approval[k]
      BY <2>1, <2>7 DEF DecideApproval
    <2>8. ASSUME NEW p \in Procs, Judge(p), ~RequestApproval(p)
          PROVE  UNCHANGED approval
      BY <2>8 DEF Judge, BeginValidation, Consult, Evaluate, Reject, Authorize, AwaitApproval,
                  FailValidation, authority
    <2>9. ASSUME NEW p \in Procs, \/ Approve(p) /\ ~CheckApproval(p) /\ ~Consume(p)
                                  \/ Run(p)
          PROVE  UNCHANGED approval
      BY <2>9 DEF Approve, RefuseApproved, AuthorizeApproved, Run, StartRunning, CallExecutor,
                  ExecutorReturns, RecordStreams, RecordOutcome, authority
    <2>10. ASSUME NEW p \in Procs, \/ StartRecovery(p)
                                   \/ Recover(p) /\ ~ExpireApproval(p)
                                   \/ Refused(p) \/ Die(p)
           PROVE  UNCHANGED approval
      BY <2>10 DEF StartRecovery, Recover, ListRunning, EndRecovery, Interrupt, Refused, Die,
                   authority
    <2>11. ASSUME NEW i \in Keys,
                  \/ Cancel(i) \/ Lapse(i)
                  \/ \E p \in Procs : Plan(p, i) \/ Validate(p, i) \/ StartApproved(p, i)
           PROVE  UNCHANGED approval
      BY <2>11 DEF Cancel, Lapse, Plan, Validate, StartApproved, authority
    <2>12. UNCHANGED vars => UNCHANGED approval
      BY DEF vars
    <2>13. QED
      BY <2>3, <2>4, <2>5, <2>6, <2>7, <2>8, <2>9, <2>10, <2>11, <2>12 DEF Next
  <1>2. Typed /\ CommandInv /\ [Next]_vars => [Settles]_vars
    BY <1>1
  <1>3. QED
    BY <1>2, TypedInvariant, CommandInvariant, PTL DEF Spec, ApprovalSettlesOnce

-----------------------------------------------------------------------------
(* Refinement                                                              *)

\* A step that the abstract specification allows.
PromiseKept == [Promise!Next]_Promise!vars

\* A change of status is a step of the abstract specification.
LEMMA MoveKept ==
    ASSUME Typed, NEW k \in Keys, NEW target \in Status,
           \/ status[k] = "none" /\ target = "planned"
           \/ CanMove(k, target),
           Move(k, target), UNCHANGED calls,
           target = "succeeded" => calls[k] > 0
    PROVE  PromiseKept
  <1> DEFINE phase == [i \in Keys |-> Phase(status[i])]
  <1>1. status' = [status EXCEPT ![k] = target] /\ status[k] \in Status
    BY DEF Move, Typed, TypeOK
  <1>2. phase' = [phase EXCEPT ![k] = Phase(target)] /\ phase[k] = Phase(status[k])
    BY <1>1 DEF Typed, TypeOK
  <1>3. calls' = calls
    OBVIOUS
  <1>4. started' = IF target = "running" THEN started \cup {k} ELSE started
    BY DEF Move
  <1>5. \/ Phase(target) = Phase(status[k]) /\ target # "running"
        \/ Phase(status[k]) = "unknown" /\ Phase(target) = "considered" /\ target # "running"
        \/ Phase(status[k]) = "considered" /\ Phase(target) = "permitted" /\ target # "running"
        \/ Phase(status[k]) = "permitted" /\ Phase(target) = "started" /\ target = "running"
        \/ /\ Phase(status[k]) \in {"considered", "permitted"}
           /\ Phase(target) = "refused" /\ target # "running"
        \/ /\ Phase(status[k]) \in {"considered", "permitted", "started"}
           /\ Phase(target) = "failed" /\ target # "running"
        \/ /\ Phase(status[k]) = "started" /\ Phase(target) = "succeeded"
           /\ target # "running" /\ calls[k] > 0
    BY <1>1 DEF CanMove, Successors, Phase, Status, Terminal
  <1>6. CASE Phase(target) = Phase(status[k]) /\ target # "running"
    <2>1. phase' = phase /\ started' = started
      BY <1>2, <1>4, <1>6
    <2>2. QED
      BY <1>3, <2>1 DEF PromiseKept, Promise!vars
  <1>7. CASE Phase(target) # Phase(status[k])
    <2>1. \/ Promise!Consider(k) \/ Promise!Permit(k) \/ Promise!Start(k) \/ Promise!Refuse(k)
          \/ Promise!Fail(k) \/ Promise!Succeed(k)
      BY <1>2, <1>3, <1>4, <1>5, <1>7
         DEF Promise!Consider, Promise!Permit, Promise!Start, Promise!Refuse, Promise!Fail,
             Promise!Succeed, Promise!Step
    <2>2. QED
      BY <2>1 DEF PromiseKept, Promise!Next
  <1>8. QED
    BY <1>5, <1>6, <1>7

LEMMA StillKept ==
    ASSUME UNCHANGED <<command, calls>>
    PROVE  PromiseKept
  <1>1. UNCHANGED <<status, started, calls>>
    BY DEF command
  <1>2. QED
    BY <1>1 DEF PromiseKept, Promise!vars

LEMMA TransitionKept ==
    ASSUME Typed, NEW p \in Procs, NEW target \in Status, NEW l, Transition(p, target, l),
           local[p].key \in Keys, UNCHANGED calls,
           target = "succeeded" => calls[local[p].key] > 0
    PROVE  PromiseKept
  BY MoveKept, StillKept DEF Transition

LEMMA NextKept ==
    ASSUME Typed, CommandInv, [Next]_vars
    PROVE  PromiseKept
  <1>1. ASSUME NEW k \in Keys,
               Cancel(k) \/ \E p \in Procs : Plan(p, k) \/ Validate(p, k) \/ Interrupt(p, k)
        PROVE  PromiseKept
    BY <1>1, MoveKept, StillKept
       DEF Cancel, Plan, Validate, Interrupt, Status, Terminal, execution
  <1>2. ASSUME NEW p \in Procs, BeginValidation(p)
        PROVE  PromiseKept
    BY <1>2, KeyType, MoveKept, StillKept DEF BeginValidation, Status, execution
  <1>3. ASSUME NEW p \in Procs,
               \/ Reject(p) \/ Authorize(p) \/ AwaitApproval(p) \/ FailValidation(p)
               \/ RefuseApproved(p) \/ AuthorizeApproved(p) \/ StartRunning(p)
        PROVE  PromiseKept
    <2>1. PICK target \in {"rejected", "authorized", "approval_required", "failed", "running"} :
             \E l : Transition(p, target, l)
      BY <1>3 DEF Reject, Authorize, AwaitApproval, FailValidation, RefuseApproved,
                  AuthorizeApproved, StartRunning
    <2>2. local[p].key \in Keys /\ UNCHANGED calls
      BY <1>3, KeyType DEF Reject, Authorize, AwaitApproval, FailValidation, RefuseApproved,
                           AuthorizeApproved, StartRunning, execution
    <2>3. QED
      BY <2>1, <2>2, TransitionKept DEF Status, Terminal
  <1>4. ASSUME NEW p \in Procs, RecordOutcome(p)
        PROVE  PromiseKept
    <2>1. local[p].key \in Keys /\ local[p].result \in Results
      BY <1>4, KeyType DEF RecordOutcome, Typed, JobOK, Returned
    <2>2. ExecutorOK(pc[p], local[p])
      BY Parts DEF PartsOK
    <2>3. calls[local[p].key] = 1
      BY <1>4, <2>2 DEF RecordOutcome, ExecutorOK, Executing, Returned
    <2>4. Recorded(local[p].result) \in Status
      BY <2>1 DEF Recorded, Results, Status, Terminal
    <2>5. QED
      BY <1>4, <2>1, <2>3, <2>4, TransitionKept DEF RecordOutcome, execution
  <1>5. ASSUME NEW p \in Procs, CallExecutor(p)
        PROVE  PromiseKept
    <2>1. PICK k \in Keys : k = local[p].key
      BY <1>5, KeyType DEF CallExecutor
    <2>2. ExecutorOK(pc[p], local[p])
      BY Parts DEF PartsOK
    <2>3. k \in started /\ calls[k] = 0
      BY <1>5, <2>1, <2>2 DEF CallExecutor, ExecutorOK, Executing
    <2>4. UNCHANGED <<status, started>> /\ calls' = [calls EXCEPT ![k] = 1]
      BY <1>5, <2>1, <2>3 DEF CallExecutor, command
    <2>5. Promise!Call(k)
      BY <2>3, <2>4 DEF Promise!Call
    <2>6. QED
      BY <2>5 DEF PromiseKept, Promise!Next
  <1>6. ASSUME NEW p \in Procs,
               \/ Consult(p) \/ Evaluate(p) \/ RequestApproval(p)
               \/ CheckApproval(p) \/ Consume(p) \/ ExecutorReturns(p) \/ RecordStreams(p)
               \/ StartRecovery(p) \/ ExpireApproval(p) \/ ListRunning(p) \/ EndRecovery(p)
               \/ Refused(p) \/ Die(p) \/ \E k \in Keys : StartApproved(p, k)
        PROVE  UNCHANGED <<command, calls>>
    BY <1>6 DEF Consult, Evaluate, RequestApproval, CheckApproval, Consume, ExecutorReturns,
       RecordStreams, StartRecovery, ExpireApproval, ListRunning, EndRecovery, Refused, Die,
       StartApproved, execution
  <1>7. ASSUME \/ \E k \in Keys : DecideApproval(k) \/ Lapse(k)
               \/ UNCHANGED vars
        PROVE  UNCHANGED <<command, calls>>
    BY <1>7 DEF DecideApproval, Lapse, vars, command, execution
  <1>8. QED
    BY <1>1, <1>2, <1>3, <1>4, <1>5, <1>6, <1>7, StillKept DEF Next, Judge, Approve, Run, Recover

\* The journal keeps the promise of GovernedCommand.
THEOREM Refinement == Spec => ImplementsGovernedCommand
  <1>1. Init => Promise!Init
    BY DEF Init, Promise!Init, Phase
  <1>2. Typed /\ CommandInv /\ [Next]_vars => PromiseKept
    BY NextKept
  <1>3. QED
    BY <1>1, <1>2, TypedInvariant, CommandInvariant, PTL
       DEF Spec, PromiseKept, ImplementsGovernedCommand, Promise!Spec

-----------------------------------------------------------------------------
(* Who may still change the status of a command that runs                  *)

\* Locations from which a command is started, executed or failed.
Owning == {"authorized", "failing"} \cup Executing

\* What the place of a process says of its command's status.
Owner(l, s) ==
    /\ l \in Executing => s \in {"running", "interrupted"}
    /\ l = "authorized" => s \in {"authorized", "failed", "cancelled"}
    /\ l = "failing" => s # "approval_required"

\* Two processes may not be at these locations with the same command.
Rival(l, m) == l \in {"authorized", "failing"} /\ m \in {"authorized"} \cup Executing

\* One process starts, executes or fails a command, and until it records a
\* result only a recovery changes its status.
OwnersInv ==
    /\ \A p \in Procs : Owner(pc[p], status[local[p].key])
    /\ \A p, q \in Procs : local[p].key = local[q].key /\ Rival(pc[p], pc[q]) => p = q

\* The invariant after a step of p that may change the status of command k.
LEMMA OwnersOf ==
    ASSUME Typed, OwnersInv, NEW p \in Procs, NEW l, NEW j, Continue(p, l, j), NEW k,
           \A i \in Keys : i # k => status'[i] = status[i],
           Owner(l, status'[j.key]),
           \A q \in Procs : q # p /\ local[q].key = k /\ pc[q] \in Owning
                            => Owner(pc[q], status'[k]),
           l \in Owning => \A q \in Procs : q # p /\ local[q].key = j.key =>
                              ~Rival(l, pc[q]) /\ ~Rival(pc[q], l)
    PROVE  OwnersInv'
  <1>1. /\ pc'[p] = l /\ local'[p] = j
        /\ \A q \in Procs : q # p => pc'[q] = pc[q] /\ local'[q] = local[q]
    BY OnlyP
  <1>2. ASSUME NEW q \in Procs, q # p
        PROVE  Owner(pc'[q], status'[local'[q].key])
    <2>1. CASE pc[q] \notin Owning
      BY <1>1, <1>2, <2>1 DEF Owner, Owning
    <2>2. CASE pc[q] \in Owning /\ local[q].key # k
      <3>1. local[q].key \in Keys
        BY <2>2, KeyType DEF Owning, Executing, Returned
      <3>2. QED
        BY <1>1, <1>2, <2>2, <3>1 DEF OwnersInv
    <2>3. QED
      BY <1>1, <1>2, <2>1, <2>2
  <1>3. \A m : (Rival(l, m) \/ Rival(m, l)) => l \in Owning
    BY DEF Rival, Owning
  <1>4. \A q, r \in Procs : local'[q].key = local'[r].key /\ Rival(pc'[q], pc'[r]) => q = r
    BY <1>1, <1>3 DEF OwnersInv
  <1>5. QED
    BY <1>1, <1>2, <1>4 DEF OwnersInv

\* A step of p to a place from which it changes no status.
LEMMA LeavesOwners ==
    ASSUME Typed, OwnersInv, NEW p \in Procs, NEW l, NEW j, Continue(p, l, j),
           l \notin Owning, UNCHANGED status
    PROVE  OwnersInv'
  <1>1. Owner(l, status'[j.key])
    BY DEF Owner, Owning
  <1>2. \A q \in Procs : Owner(pc[q], status'[local[q].key])
    BY DEF OwnersInv
  <1>3. QED
    BY <1>1, <1>2, OwnersOf

\* Who decides on a command is alone with it.
LEMMA DeciderOwns ==
    ASSUME Typed, CommandInv, OwnersInv, NEW p \in Procs, pc[p] \in Deciding,
           NEW q \in Procs, q # p, local[q].key = local[p].key
    PROVE  pc[q] \notin Owning
  <1>1. ~Clash(pc[p], pc[q]) /\ DeciderOK(pc[p], local[p]) /\ Owner(pc[q], status[local[q].key])
    BY Parts DEF PartsOK, OwnersInv
  <1>2. QED
    BY <1>1 DEF Clash, DeciderOK, Owner, Owning

\* Who executes a command, is about to, or records it as failed, is alone.
LEMMA ExecutorOwns ==
    ASSUME Typed, CommandInv, OwnersInv, NEW p \in Procs,
           pc[p] \in {"authorized"} \cup Executing,
           NEW q \in Procs, q # p, local[q].key = local[p].key
    PROVE  pc[q] \notin Owning
  <1>1. ~Clash(pc[p], pc[q]) /\ ~Rival(pc[p], pc[q]) /\ ~Rival(pc[q], pc[p])
    BY Parts DEF PartsOK, OwnersInv
  <1>2. Owner(pc[p], status[local[p].key]) /\ Owner(pc[q], status[local[q].key])
    BY DEF OwnersInv
  <1>3. QED
    BY <1>1, <1>2 DEF Clash, Rival, Owner, Owning

\* A command whose approval is being resumed is not yet executed by anyone.
LEMMA ResumedUnowned ==
    ASSUME Typed, OwnersInv, NEW k \in Keys, status[k] \in {"none", "planned", "approval_required"},
           NEW q \in Procs, local[q].key = k, pc[q] \in Owning
    PROVE  pc[q] = "failing" /\ status[k] # "approval_required"
  BY DEF OwnersInv, Owner, Owning

LEMMA RaiseOwners ==
    ASSUME Typed, CommandInv, OwnersInv, NEW p \in Procs, Raise(p), UNCHANGED status
    PROVE  OwnersInv'
  <1>1. CASE local[p].guarded
    <2> DEFINE j == [local[p] EXCEPT !.guarded = FALSE]
    <2>1. local[p] \in Job /\ j.key = local[p].key
      BY <1>1 DEF Typed, TypeOK, JobOK, Job
    <2>2. DeciderOK(pc[p], local[p]) /\ Owner(pc[p], status[local[p].key])
      BY Parts DEF PartsOK, OwnersInv
    <2>3. pc[p] \in Deciding \cup {"authorized"} \cup Executing
      BY <1>1, <2>2 DEF DeciderOK
    <2>4. Owner("failing", status'[j.key])
      BY <2>1, <2>2, <2>3 DEF DeciderOK, Owner, Executing, Returned
    <2>5. \A q \in Procs : q # p /\ local[q].key = j.key => pc[q] \notin Owning
      BY <2>1, <2>3, DeciderOwns, ExecutorOwns
    <2>6. \A q \in Procs : Owner(pc[q], status'[local[q].key])
      BY DEF OwnersInv
    <2>7. \A m : (Rival("failing", m) \/ Rival(m, "failing")) => m \in Owning
      BY DEF Rival, Owning
    <2>8. Continue(p, "failing", j)
      BY <1>1 DEF Raise
    <2> HIDE DEF j
    <2> QED
      BY <2>4, <2>5, <2>6, <2>7, <2>8, OwnersOf
  <1>2. CASE ~local[p].guarded
    <2>1. "idle" \notin Owning
      BY DEF Owning, Executing, Returned
    <2> QED
      BY <1>2, <2>1, LeavesOwners DEF Raise, Return
  <1>3. QED
    BY <1>1, <1>2

\* A transition of p's command, after which p goes to l.
LEMMA TransitionOwners ==
    ASSUME Typed, CommandInv, OwnersInv, NEW p \in Procs, local[p].key \in Keys,
           NEW target \in Status, NEW l, Transition(p, target, l),
           Owner(l, target),
           \A q \in Procs : q # p /\ local[q].key = local[p].key /\ pc[q] \in Owning
                            => (CanMove(local[p].key, target) => l = "idle" /\ Owner(pc[q], target))
    PROVE  OwnersInv'
  <1> DEFINE k == local[p].key
  <1>1. CASE Raise(p) /\ UNCHANGED command
    BY <1>1, RaiseOwners DEF command
  <1>2. CASE CanMove(k, target) /\ Move(k, target) /\ Goto(p, l)
    <2>1. status'[k] = target /\ \A i \in Keys : i # k => status'[i] = status[i]
      BY <1>2 DEF Move, Typed, TypeOK
    <2>2. CASE l = "idle"
      <3>1. "idle" \notin Owning /\ Owner("idle", status'[NoJob.key])
        BY DEF Owner, Owning, Executing, Returned
      <3>2. Continue(p, "idle", NoJob)
        BY <1>2, <2>2 DEF Goto, Return
      <3> HIDE DEF k
      <3> QED
        BY <1>2, <2>1, <3>1, <3>2, OwnersOf DEF k
    <2>3. CASE l # "idle"
      <3>1. PICK j : j = local[p]
        OBVIOUS
      <3>2. Continue(p, l, j) /\ j.key = k
        BY <1>2, <2>3, <3>1 DEF Goto
      <3>3. \A q \in Procs : q # p /\ local[q].key = k => pc[q] \notin Owning
        BY <1>2, <2>3
      <3>4. \A m : (Rival(l, m) \/ Rival(m, l)) => m \in Owning
        BY DEF Rival, Owning
      <3> HIDE DEF k
      <3> QED
        BY <2>1, <3>2, <3>3, <3>4, OwnersOf
    <2> QED
      BY <2>2, <2>3
  <1> QED
    BY <1>1, <1>2 DEF Transition

\* The transitions of a process that decides, approves, fails or executes.
LEMMA TransitionsOwners ==
    ASSUME Typed, CommandInv, OwnersInv, NEW p \in Procs,
           \/ Reject(p) \/ Authorize(p) \/ AwaitApproval(p) \/ FailValidation(p)
           \/ StartRunning(p) \/ RecordOutcome(p) \/ RefuseApproved(p) \/ AuthorizeApproved(p)
    PROVE  OwnersInv'
  <1> DEFINE k == local[p].key
  <1>1. k \in Keys /\ DeciderOK(pc[p], local[p])
    BY KeyType, Parts DEF PartsOK, Reject, Authorize, AwaitApproval, FailValidation, StartRunning,
       RecordOutcome, RefuseApproved, AuthorizeApproved
  <1>2. CASE Reject(p) \/ Authorize(p) \/ AwaitApproval(p)
    <2>1. PICK target \in {"rejected", "authorized", "approval_required"}, l \in {"idle", "authorized"} :
             Transition(p, target, l) /\ (l = "authorized" => target = "authorized")
      BY <1>2 DEF Reject, Authorize, AwaitApproval
    <2>2. pc[p] \in Deciding
      BY <1>2 DEF Reject, Authorize, AwaitApproval, Deciding
    <2>3. target \in Status /\ Owner(l, target)
      BY <2>1 DEF Status, Terminal, Owner, Executing, Returned
    <2> QED
      BY <1>1, <2>1, <2>2, <2>3, DeciderOwns, TransitionOwners
  <1>3. CASE FailValidation(p)
    <2>1. Transition(p, "failed", "idle") /\ pc[p] = "failing"
      BY <1>3 DEF FailValidation
    <2>2. "failed" \in Status /\ Owner("idle", "failed")
      BY DEF Status, Terminal, Owner, Executing, Returned
    <2>3. ASSUME NEW q \in Procs, q # p, local[q].key = k, pc[q] \in Owning
          PROVE  Owner(pc[q], "failed")
      BY <2>1, <2>3 DEF OwnersInv, Owning, Rival, Owner, Executing, Returned
    <2> QED
      BY <1>1, <2>1, <2>2, <2>3, TransitionOwners
  <1>4. CASE StartRunning(p) \/ RecordOutcome(p)
    <2>1. PICK target \in Status, l \in {"idle", "running"} :
             Transition(p, target, l) /\ (l = "running" => target = "running")
      BY <1>1, <1>4, KeyType DEF StartRunning, RecordOutcome, Recorded, Status, Terminal,
         Typed, TypeOK, JobOK, Returned, Results
    <2>2. pc[p] \in {"authorized"} \cup Executing
      BY <1>4 DEF StartRunning, RecordOutcome, Executing, Returned
    <2>3. Owner(l, target)
      BY <2>1 DEF Owner, Executing, Returned
    <2> QED
      BY <1>1, <2>1, <2>2, <2>3, ExecutorOwns, TransitionOwners
  <1>5. CASE RefuseApproved(p) \/ AuthorizeApproved(p)
    <2>1. PICK target \in {"rejected", "authorized"}, l \in {"idle", "authorized"} :
             Transition(p, target, l) /\ (l = "authorized" => target = "authorized")
      BY <1>5 DEF RefuseApproved, AuthorizeApproved
    <2>2. target \in Status /\ Owner(l, target)
      BY <2>1 DEF Status, Terminal, Owner, Executing, Returned
    <2>3. CanMove(k, target) => status[k] = "approval_required"
      BY <1>1, <1>5, <2>1 DEF RefuseApproved, AuthorizeApproved, DeciderOK, CanMove, Successors,
         Typed, TypeOK, Status, Terminal
    <2> QED
      BY <1>1, <2>1, <2>2, <2>3, ResumedUnowned, TransitionOwners
  <1> QED
    BY <1>2, <1>3, <1>4, <1>5

\* A step of the process that executes a command to the next place.
LEMMA ExecutionOwners ==
    ASSUME Typed, CommandInv, OwnersInv, NEW p \in Procs,
           CallExecutor(p) \/ ExecutorReturns(p) \/ RecordStreams(p)
    PROVE  OwnersInv'
  <1>1. pc[p] \in Executing /\ local[p] \in Job /\ UNCHANGED status
    BY KeyType DEF CallExecutor, ExecutorReturns, RecordStreams, Executing, Returned, command
  <1>2. PICK l, j : l \in Executing /\ Continue(p, l, j) /\ j.key = local[p].key
    <2>1. CASE CallExecutor(p) \/ RecordStreams(p)
      <3>1. Continue(p, "executing", local[p]) \/ Continue(p, "stderr", local[p])
              \/ Continue(p, "recording", local[p])
        BY <2>1 DEF CallExecutor, RecordStreams, Goto
      <3> QED
        BY <3>1 DEF Executing, Returned
    <2>2. CASE ExecutorReturns(p)
      <3>1. PICK o : Continue(p, "stdout", [local[p] EXCEPT !.result = o])
        BY <2>2 DEF ExecutorReturns
      <3>2. PICK j : j = [local[p] EXCEPT !.result = o]
        OBVIOUS
      <3>3. j.key = local[p].key
        BY <1>1, <3>2 DEF Job
      <3> QED
        BY <3>1, <3>2, <3>3 DEF Executing, Returned
    <2> QED
      BY <1>1, <2>1, <2>2
  <1>3. Owner(l, status'[j.key]) /\ \A q \in Procs : Owner(pc[q], status'[local[q].key])
    BY <1>1, <1>2 DEF OwnersInv, Owner, Executing, Returned
  <1>4. \A q \in Procs : q # p /\ local[q].key = j.key => pc[q] \notin Owning
    BY <1>1, <1>2, ExecutorOwns
  <1>5. \A m : (Rival(l, m) \/ Rival(m, l)) => m \in Owning
    BY <1>2 DEF Rival, Owning
  <1> QED
    BY <1>1, <1>2, <1>3, <1>4, <1>5, OwnersOf

\* A command begins, or is interrupted.
LEMMA MovedOwners ==
    ASSUME Typed, CommandInv, OwnersInv, NEW p \in Procs, NEW k \in Keys,
           Plan(p, k) \/ Validate(p, k) \/ BeginValidation(p) \/ Interrupt(p, k)
    PROVE  OwnersInv'
  <1>1. PICK l, j : Continue(p, l, j) /\ l \notin Owning
    <2>1. \E l \in {"idle", "planned", "validating", "decided", "interrupting"} :
             \E j : Continue(p, l, j)
      BY Zenon DEF Plan, Validate, BeginValidation, Interrupt, Return
    <2> QED
      BY <2>1 DEF Owning, Executing, Returned
  <1>2. Owner(l, status'[j.key])
    BY <1>1 DEF Owner, Owning
  <1>3. CASE UNCHANGED status
    BY <1>1, <1>3, LeavesOwners
  <1>4. CASE \E i \in Keys, target \in {"planned", "validating"} :
                Move(i, target) /\ status[i] \in {"none", "planned"}
    <2> PICK i \in Keys, target \in {"planned", "validating"} :
                Move(i, target) /\ status[i] \in {"none", "planned"}
      BY <1>4
    <2>1. status'[i] = target /\ \A h \in Keys : h # i => status'[h] = status[h]
      BY DEF Move, Typed, TypeOK
    <2>2. \A q \in Procs : local[q].key = i /\ pc[q] \in Owning => Owner(pc[q], status'[i])
      BY <2>1, ResumedUnowned DEF Owner, Executing, Returned
    <2> QED
      BY <1>1, <1>2, <2>1, <2>2, OwnersOf
  <1>5. CASE Move(k, "interrupted") /\ status[k] = "running"
    <2>1. status'[k] = "interrupted" /\ \A h \in Keys : h # k => status'[h] = status[h]
      BY <1>5 DEF Move, Typed, TypeOK
    <2>2. \A q \in Procs : local[q].key = k /\ pc[q] \in Owning => Owner(pc[q], status'[k])
      BY <1>5, <2>1 DEF OwnersInv, Owner
    <2> QED
      BY <1>1, <1>2, <2>1, <2>2, OwnersOf
  <1>6. \A h \in Keys : status[h] \in Status
    BY DEF Typed, TypeOK
  <1>7. \A s \in Status : /\ "validating" \in Successors(s) => s = "planned"
                          /\ "interrupted" \in Successors(s) => s = "running"
    BY SuccessorFacts
  <1>8. BeginValidation(p) => local[p].key \in Keys
    BY KeyType DEF BeginValidation
  <1> QED
    BY <1>3, <1>4, <1>5, <1>6, <1>7, <1>8
       DEF Plan, Validate, BeginValidation, Interrupt, CanMove, command

\* Until the result of a command is recorded, only a recovery can have
\* changed its status, and nobody else can start or fail it.
THEOREM OwnersInvariant == Spec => []OwnersInv
  <1>1. Init => OwnersInv
    BY DEF Init, OwnersInv, Owner, Rival, Executing, Returned
  <1>2. ASSUME Typed, CommandInv, OwnersInv, [Next]_vars
        PROVE  OwnersInv'
    <2>1. CASE UNCHANGED <<status, pc, local>>
      BY <1>2, <2>1 DEF OwnersInv
    <2>2. ASSUME NEW k \in Keys, Cancel(k)
          PROVE  OwnersInv'
      <3>1. /\ status'[k] = "cancelled" /\ \A h \in Keys : h # k => status'[h] = status[h]
            /\ status[k] \notin {"running", "interrupted"} /\ UNCHANGED <<pc, local>>
        BY <1>2, <2>2 DEF Cancel, CanMove, Successors, Move, Typed, TypeOK
      <3>2. ASSUME NEW q \in Procs
            PROVE  Owner(pc[q], status'[local[q].key])
        <4>1. pc[q] \in Owning => local[q].key \in Keys
          BY <1>2, KeyType DEF Owning, Executing, Returned
        <4>2. Owner(pc[q], status[local[q].key])
          BY <1>2 DEF OwnersInv
        <4> QED
          BY <3>1, <4>1, <4>2 DEF Owner, Owning
      <3> QED
        BY <1>2, <3>1, <3>2 DEF OwnersInv
    <2>3. ASSUME NEW p \in Procs, Refused(p) \/ Die(p)
          PROVE  OwnersInv'
      <3>1. "idle" \notin Owning
        BY DEF Owning, Executing, Returned
      <3> QED
        BY <1>2, <2>3, <3>1, RaiseOwners, LeavesOwners DEF Refused, Die, Return, command
    <2>4. ASSUME NEW p \in Procs,
                 \/ StartRecovery(p) \/ ExpireApproval(p) \/ ListRunning(p) \/ EndRecovery(p)
                 \/ Consult(p) \/ Evaluate(p) \/ RequestApproval(p) \/ CheckApproval(p)
                 \/ Consume(p) \/ \E k \in Keys : StartApproved(p, k)
          PROVE  OwnersInv'
      <3>1. PICK l, j : Continue(p, l, j) /\ l \notin Owning
        <4>1. CASE RequestApproval(p) \/ CheckApproval(p) \/ Consume(p) \/ EndRecovery(p)
          <5>1. \E l \in {"idle", "requested", "refusing", "consuming", "consumed"} :
                   Continue(p, l, NoJob) \/ Continue(p, l, local[p])
            BY <4>1 DEF RequestApproval, CheckApproval, Consume, EndRecovery, Goto, Return
          <5> QED
            BY <5>1 DEF Owning, Executing, Returned
        <4>2. CASE StartRecovery(p) \/ ExpireApproval(p) \/ ListRunning(p)
                     \/ Consult(p) \/ Evaluate(p)
          <5>1. \E l \in {"expiring", "interrupting", "decided"} : \E j : Continue(p, l, j)
            BY Zenon, <4>2 DEF StartRecovery, ExpireApproval, ListRunning, Consult, Evaluate
          <5> QED
            BY <5>1 DEF Owning, Executing, Returned
        <4>3. ASSUME NEW k \in Keys, StartApproved(p, k)
              PROVE  \E l, j : Continue(p, l, j) /\ l \notin Owning
          <5>1. \E l \in {"approving", "refusing"} : \E j : Continue(p, l, j)
            BY <4>3 DEF StartApproved
          <5> QED
            BY <5>1 DEF Owning, Executing, Returned
        <4> QED
          BY <2>4, <4>1, <4>2, <4>3
      <3>2. UNCHANGED status
        BY <2>4 DEF StartRecovery, ExpireApproval, ListRunning, EndRecovery, Consult, Evaluate,
           RequestApproval, CheckApproval, Consume, StartApproved, command
      <3> QED
        BY <1>2, <3>1, <3>2, LeavesOwners
    <2> QED
      <3>1. ASSUME NEW p \in Procs, Judge(p) \/ Approve(p) \/ Run(p) \/ Recover(p)
            PROVE  OwnersInv'
        <4>1. CASE BeginValidation(p)
          <5>1. local[p].key \in Keys
            BY <1>2, <4>1, KeyType DEF BeginValidation
          <5> QED
            BY <1>2, <4>1, <5>1, MovedOwners
        <4> QED
          BY <1>2, <2>4, <3>1, <4>1, TransitionsOwners, ExecutionOwners, MovedOwners
             DEF Judge, Approve, Run, Recover
      <3>2. ASSUME NEW k \in Keys, DecideApproval(k) \/ Lapse(k)
            PROVE  OwnersInv'
        BY <2>1, <3>2 DEF DecideApproval, Lapse, command
      <3>3. CASE UNCHANGED vars
        BY <2>1, <3>3 DEF vars
      <3>4. ASSUME NEW p \in Procs,
                   (\E k \in Keys : Plan(p, k) \/ Validate(p, k) \/ StartApproved(p, k))
                   \/ StartRecovery(p)
            PROVE  OwnersInv'
        BY <1>2, <2>4, <3>4, MovedOwners
      <3> QED
        BY <1>2, <2>2, <2>3, <3>1, <3>2, <3>3, <3>4 DEF Next
  <1>3. QED
    BY <1>1, <1>2, TypedInvariant, CommandInvariant, PTL DEF Spec

-----------------------------------------------------------------------------
(* Where a status comes from                                               *)

\* Commands stay started, a command is started from "authorized" only, and
\* gets there by a decision or by an approval.
LEMMA StartedStep ==
    ASSUME Typed, [Next]_vars, NEW k \in Keys
    PROVE  /\ k \in started => k \in started'
           /\ k \in started' => k \in started \/ status[k] = "authorized"
           /\ status'[k] = "authorized" =>
                 \/ status[k] = "authorized"
                 \/ \E p \in Procs : local[p].key = k /\ (Authorize(p) \/ AuthorizeApproved(p))
  <1> DEFINE Kept == /\ k \in started => k \in started'
                     /\ k \in started' => k \in started \/ status[k] = "authorized"
                     /\ status'[k] = "authorized" => status[k] = "authorized"
  <1>1. ASSUME UNCHANGED command
        PROVE  Kept
    BY <1>1 DEF command
  <1>2. ASSUME NEW i \in Keys, NEW target \in Status \ {"authorized", "running"}, Move(i, target)
        PROVE  Kept
    BY <1>2 DEF Move, Typed, TypeOK
  <1>3. ASSUME NEW i \in Keys, CanMove(i, "running"), Move(i, "running")
        PROVE  Kept
    <2>1. status[i] = "authorized"
      BY <1>3, SuccessorFacts DEF CanMove, Typed, TypeOK
    <2> QED
      BY <1>3, <2>1 DEF Move, Typed, TypeOK
  <1>4. ASSUME NEW p \in Procs, Authorize(p) \/ AuthorizeApproved(p)
        PROVE  /\ k \in started' <=> k \in started
               /\ k # local[p].key => status'[k] = status[k] \/ UNCHANGED command
               /\ status'[k] = status[k] \/ k = local[p].key
    <2>1. local[p].key \in Keys
      BY <1>4, KeyType DEF Authorize, AuthorizeApproved
    <2>2. \/ UNCHANGED command
          \/ Move(local[p].key, "authorized")
      BY <1>4 DEF Authorize, AuthorizeApproved, Transition
    <2> QED
      BY <2>1, <2>2 DEF Move, command, Typed, TypeOK
  <1>5. ASSUME NEW p \in Procs,
               Reject(p) \/ AwaitApproval(p) \/ FailValidation(p) \/ RefuseApproved(p)
               \/ RecordOutcome(p) \/ StartRunning(p)
        PROVE  Kept
    <2>1. local[p].key \in Keys
      BY <1>5, KeyType DEF Reject, AwaitApproval, FailValidation, RefuseApproved, RecordOutcome,
         StartRunning
    <2>2. PICK target \in (Status \ {"authorized"}), l \in {"idle", "running"} :
             Transition(p, target, l)
      BY <1>5, KeyType DEF Reject, AwaitApproval, FailValidation, RefuseApproved, RecordOutcome,
         StartRunning, Recorded, Status, Terminal, Typed, TypeOK, JobOK, Returned, Results
    <2> QED
      BY <1>1, <1>2, <1>3, <2>1, <2>2 DEF Transition
  <1>6. ASSUME NEW p \in Procs, NEW i \in Keys,
               Plan(p, i) \/ Validate(p, i) \/ Interrupt(p, i) \/ BeginValidation(p)
        PROVE  Kept
    <2>1. BeginValidation(p) => local[p].key \in Keys
      BY KeyType DEF BeginValidation
    <2>2. {"planned", "validating", "interrupted"} \subseteq Status \ {"authorized", "running"}
      BY DEF Status, Terminal
    <2> QED
      BY <1>1, <1>2, <1>6, <2>1, <2>2 DEF Plan, Validate, Interrupt, BeginValidation
  <1>7. ASSUME NEW p \in Procs,
               \/ StartRecovery(p) \/ ExpireApproval(p) \/ ListRunning(p) \/ EndRecovery(p)
               \/ Consult(p) \/ Evaluate(p) \/ RequestApproval(p) \/ CheckApproval(p)
               \/ Consume(p) \/ CallExecutor(p) \/ ExecutorReturns(p) \/ RecordStreams(p)
               \/ Refused(p) \/ Die(p) \/ \E i \in Keys : StartApproved(p, i)
        PROVE  Kept
    <2>1. UNCHANGED command
      BY <1>7 DEF StartRecovery, ExpireApproval, ListRunning, EndRecovery, Consult, Evaluate,
           RequestApproval, CheckApproval, Consume, CallExecutor, ExecutorReturns, RecordStreams,
           Refused, Die, StartApproved
    <2> QED
      BY <1>1, <2>1
  <1>8. ASSUME NEW i \in Keys, DecideApproval(i) \/ Lapse(i)
        PROVE  Kept
    BY <1>1, <1>8 DEF DecideApproval, Lapse
  <1>9. (UNCHANGED vars) => Kept
    BY <1>1 DEF vars, command
  <1>10. ASSUME NEW p \in Procs, BeginValidation(p)
         PROVE  Kept
    BY <1>6, <1>10, KeyType DEF BeginValidation
  <1> HIDE DEF Kept
  <1>11. ASSUME NEW p \in Procs, Judge(p) \/ Approve(p) \/ Run(p) \/ Recover(p)
         PROVE  Kept \/ Authorize(p) \/ AuthorizeApproved(p)
    BY <1>5, <1>6, <1>7, <1>10, <1>11 DEF Judge, Approve, Run, Recover
  <1>12. ASSUME NEW i \in Keys, DecideApproval(i) \/ Cancel(i) \/ Lapse(i)
         PROVE  Kept
    <2>1. "cancelled" \in Status \ {"authorized", "running"}
      BY DEF Status, Terminal
    <2> QED
      BY <1>2, <1>8, <1>12, <2>1 DEF Cancel
  <1>13. ASSUME NEW p \in Procs, NEW i \in Keys, Plan(p, i) \/ Validate(p, i) \/ StartApproved(p, i)
         PROVE  Kept
    BY <1>6, <1>7, <1>13
  <1>14. ASSUME NEW p \in Procs, StartRecovery(p) \/ Refused(p) \/ Die(p)
         PROVE  Kept
    BY <1>7, <1>14
  <1>15. Kept \/ \E p \in Procs : Authorize(p) \/ AuthorizeApproved(p)
    BY <1>9, <1>11, <1>12, <1>13, <1>14 DEF Next
  <1> QED
    BY <1>4, <1>15 DEF Kept

\* A command that was started gets a result only by the process that records
\* it, or by one that failed; otherwise it is interrupted.
LEMMA EndedStep ==
    ASSUME Typed, [Next]_vars, NEW k \in Keys, status[k] \in {"running", "interrupted"},
           status'[k] \notin {"running", "interrupted"}
    PROVE  \E p \in Procs : local[p].key = k /\ pc[p] \in {"recording", "failing"}
  <1> DEFINE Ends == \E p \in Procs : local[p].key = k /\ pc[p] \in {"recording", "failing"}
  <1>1. ASSUME UNCHANGED command
        PROVE  FALSE
    BY <1>1 DEF command
  <1>2. ASSUME NEW i \in Keys, NEW target \in Status \ {"succeeded", "failed", "timed_out"},
               Move(i, target), CanMove(i, target) \/ status[i] = "none"
        PROVE  FALSE
    <2>1. i = k
      BY <1>2 DEF Move, Typed, TypeOK
    <2>2. target = "interrupted"
      <3>1. target \in Successors(status[k]) /\ status[k] \in Status
        BY <1>2, <2>1 DEF CanMove, Typed, TypeOK
      <3> QED
        BY <3>1, SuccessorFacts DEF Status, Terminal, Unstarted
    <2> QED
      BY <1>2, <2>1, <2>2 DEF Move, Typed, TypeOK
  <1>3. ASSUME NEW p \in Procs, RecordOutcome(p) \/ FailValidation(p)
        PROVE  Ends
    <2>1. PICK target, l : Transition(p, target, l)
      BY <1>3 DEF RecordOutcome, FailValidation
    <2>2. local[p].key \in Keys /\ pc[p] \in {"recording", "failing"}
      BY <1>3, KeyType DEF RecordOutcome, FailValidation
    <2>3. local[p].key = k
      BY <1>1, <2>1, <2>2 DEF Transition, Move, Typed, TypeOK
    <2> QED
      BY <2>2, <2>3
  <1>4. ASSUME NEW p \in Procs,
               \/ Reject(p) \/ AwaitApproval(p) \/ RefuseApproved(p) \/ StartRunning(p)
               \/ Authorize(p) \/ AuthorizeApproved(p)
        PROVE  FALSE
    <2>1. local[p].key \in Keys
      BY <1>4, KeyType DEF Reject, AwaitApproval, RefuseApproved, StartRunning, Authorize,
         AuthorizeApproved
    <2>2. PICK target, l : /\ target \in {"rejected", "approval_required", "running", "authorized"}
                           /\ Transition(p, target, l)
      BY <1>4 DEF Reject, AwaitApproval, RefuseApproved, StartRunning, Authorize,
         AuthorizeApproved
    <2>3. target \in Status \ {"succeeded", "failed", "timed_out"}
      BY <2>2 DEF Status, Terminal
    <2> QED
      BY <1>1, <1>2, <2>1, <2>2, <2>3 DEF Transition
  <1>5. ASSUME NEW p \in Procs, NEW i \in Keys, Plan(p, i) \/ Validate(p, i) \/ Interrupt(p, i)
        PROVE  FALSE
    <2>1. {"planned", "validating", "interrupted"} \subseteq Status \ {"succeeded", "failed", "timed_out"}
      BY DEF Status, Terminal
    <2> QED
      BY <1>1, <1>2, <1>5, <2>1 DEF Plan, Validate, Interrupt
  <1>6. ASSUME NEW p \in Procs, BeginValidation(p)
        PROVE  FALSE
    <2>1. local[p].key \in Keys /\ "validating" \in Status \ {"succeeded", "failed", "timed_out"}
      BY <1>6, KeyType DEF BeginValidation, Status, Terminal
    <2> QED
      BY <1>1, <1>2, <1>6, <2>1 DEF BeginValidation
  <1>7. ASSUME NEW p \in Procs,
               \/ StartRecovery(p) \/ ExpireApproval(p) \/ ListRunning(p) \/ EndRecovery(p)
               \/ Consult(p) \/ Evaluate(p) \/ RequestApproval(p) \/ CheckApproval(p)
               \/ Consume(p) \/ CallExecutor(p) \/ ExecutorReturns(p) \/ RecordStreams(p)
               \/ Refused(p) \/ Die(p) \/ \E i \in Keys : StartApproved(p, i)
        PROVE  FALSE
    <2>1. UNCHANGED command
      BY <1>7 DEF StartRecovery, ExpireApproval, ListRunning, EndRecovery, Consult, Evaluate,
           RequestApproval, CheckApproval, Consume, CallExecutor, ExecutorReturns, RecordStreams,
           Refused, Die, StartApproved
    <2> QED
      BY <1>1, <2>1
  <1>8. ASSUME NEW i \in Keys, DecideApproval(i) \/ Cancel(i) \/ Lapse(i)
        PROVE  FALSE
    <2>1. "cancelled" \in Status \ {"succeeded", "failed", "timed_out"}
      BY DEF Status, Terminal
    <2> QED
      BY <1>1, <1>2, <1>8, <2>1 DEF DecideApproval, Cancel, Lapse
  <1>9. ~UNCHANGED vars
    BY <1>1 DEF vars, command
  <1> HIDE DEF Ends
  <1>10. ASSUME NEW p \in Procs, Judge(p) \/ Approve(p) \/ Run(p) \/ Recover(p)
         PROVE  Ends
    BY <1>3, <1>4, <1>5, <1>6, <1>7, <1>10 DEF Judge, Approve, Run, Recover
  <1>11. ASSUME NEW p \in Procs, NEW i \in Keys, Plan(p, i) \/ Validate(p, i) \/ StartApproved(p, i)
         PROVE  FALSE
    BY <1>5, <1>7, <1>11
  <1>12. ASSUME NEW p \in Procs, StartRecovery(p) \/ Refused(p) \/ Die(p)
         PROVE  FALSE
    BY <1>7, <1>12
  <1>13. Ends
    BY <1>8, <1>9, <1>10, <1>11, <1>12 DEF Next
  <1> QED
    BY <1>13 DEF Ends
=============================================================================
