----------------------- MODULE GatewayExecutionProofs -----------------------
(***************************************************************************)
(* Proofs about GatewayExecution: type correctness, the inductive          *)
(* invariant behind at-most-one send, the refinement of SingleBroadcast,   *)
(* that what is recorded and answered is true of the cluster, and what     *)
(* holds for the quiet callers of GatewayCallers; for any number of        *)
(* requests, authorizations, plans and processes.                          *)
(***************************************************************************)
EXTENDS GatewayCallers, TLAPS

\* A job of a process is well typed wherever the handlers put it.
LEMMA NoJobType == NoJob \in Job
  BY DEF NoJob, Job, AttemptStates

\* Returning from a handler keeps pc and local well typed.
LEMMA ReturnType ==
    ASSUME NEW p \in Procs, TypeOK, Return(p)
    PROVE  /\ pc' \in [Procs -> Locations]
           /\ local' \in [Procs -> Job]
  BY NoJobType DEF Return, Continue, TypeOK, Locations

\* Continuing at a known location with a job keeps pc and local well typed.
LEMMA ContinueType ==
    ASSUME NEW p \in Procs, NEW l \in Locations, NEW j \in Job, TypeOK, Continue(p, l, j)
    PROVE  /\ pc' \in [Procs -> Locations]
           /\ local' \in [Procs -> Job]
  BY DEF Continue, TypeOK

\* recover's answers are verdicts.
LEMMA AnswerType ==
    ASSUME NEW r \in Requests, NEW o \in Outcomes, NEW b \in BOOLEAN,
           TypeOK, Answer(r, o, b)
    PROVE  verdicts' \subseteq Verdict
  BY DEF Answer, TypeOK, Verdict


-----------------------------------------------------------------------------
(* Type correctness                                                        *)

\* What a handler needs of its local variables at the points where it uses
\* them: a request that exists, the plan to be saved, the authorization to
\* be claimed under, the observation to be recorded.
JobOK ==
    \A p \in Procs : pc[p] # "idle" =>
        /\ local[p].req \in Requests
        /\ pc[p] = "compiling" => local[p].plan \in Plans
        /\ pc[p] \in {"checking", "validated"} => local[p].auth \in Auths
        /\ pc[p] = "observed" => local[p].finding # "none" /\ local[p].value # "none"

Typed == TypeOK /\ JobOK

LEMMA InitTyped == Init => Typed
  BY NoJobType DEF Init, Typed, TypeOK, JobOK, PrepRow, AttemptRow, AttemptStates,
                   ChainStates, Locations, NoPreparation, NoAttempt

\* Leaving the handler keeps JobOK: the other processes keep their jobs.
LEMMA ReturnJob ==
    ASSUME NEW p \in Procs, Typed, Return(p)
    PROVE  JobOK'
  BY DEF Typed, TypeOK, JobOK, Return, Continue

\* Continuing keeps JobOK when the new job is right for the new location.
LEMMA ContinueJob ==
    ASSUME NEW p \in Procs, NEW l, NEW j, Typed, Continue(p, l, j),
           j.req \in Requests,
           l = "compiling" => j.plan \in Plans,
           l \in {"checking", "validated"} => j.auth \in Auths,
           l = "observed" => j.finding # "none" /\ j.value # "none"
    PROVE  JobOK'
  BY DEF Typed, TypeOK, JobOK, Continue

\* Expiring a preparation keeps the table well typed.
LEMMA ExpireType ==
    ASSUME NEW r \in Requests, TypeOK, Expire(r)
    PROVE  prep' \in [Requests -> PrepRow]
  BY DEF Expire, TypeOK, PrepRow

LEMMA PrepareTyped ==
    ASSUME Typed, NEW p \in Procs, NEW r \in Requests, NEW plan \in Plans,
           StartPrepare(p, r, plan) \/ SavePreparation(p)
    PROVE  Typed'
  <1>1. CASE StartPrepare(p, r, plan)
    <2> DEFINE j == [NoJob EXCEPT !.req = r, !.plan = plan, !.cmd = "prepare"]
    <2>1. j \in Job /\ j.req = r /\ j.plan = plan
      BY NoJobType DEF Job, NoJob
    <2>2. Continue(p, "compiling", j)
      BY <1>1 DEF StartPrepare
    <2>3. "compiling" \in Locations
      BY DEF Locations
    <2>4. pc' \in [Procs -> Locations] /\ local' \in [Procs -> Job]
      BY <2>1, <2>2, <2>3, ContinueType DEF Typed
    <2>5. JobOK'
      BY <2>1, <2>2, ContinueJob
    <2>6. QED
      BY <1>1, <2>4, <2>5 DEF StartPrepare, Typed, TypeOK, clock, network
  <1>2. CASE SavePreparation(p)
    <2>1. local[p].req \in Requests /\ local[p].plan \in Plans
      BY <1>2 DEF SavePreparation, Typed, JobOK
    <2>2. prep' \in [Requests -> PrepRow]
      BY <1>2, <2>1 DEF SavePreparation, Typed, TypeOK, PrepRow
    <2>3. JobOK' /\ pc' \in [Procs -> Locations] /\ local' \in [Procs -> Job]
      BY <1>2, ReturnJob, ReturnType DEF SavePreparation, Typed
    <2>4. QED
      BY <1>2, <2>2, <2>3 DEF SavePreparation, Typed, TypeOK, clock, network
  <1>3. QED
    BY <1>1, <1>2

LEMMA StartExecuteTyped ==
    ASSUME Typed, NEW p \in Procs, NEW r \in Requests, NEW a \in Auths,
           StartExecute(p, r, a)
    PROVE  Typed'
  <1>1. CASE r \in late
    BY <1>1, ExpireType DEF StartExecute, Typed, TypeOK, JobOK, clock, network
  <1>2. CASE r \notin late
    <2> DEFINE j == [NoJob EXCEPT !.req = r, !.auth = a, !.cmd = "execute"]
    <2>1. j \in Job /\ j.req = r /\ j.auth = a
      BY NoJobType DEF Job, NoJob
    <2>2. Continue(p, "checking", j)
      BY <1>2 DEF StartExecute
    <2>3. "checking" \in Locations
      BY DEF Locations
    <2>4. pc' \in [Procs -> Locations] /\ local' \in [Procs -> Job]
      BY <2>1, <2>2, <2>3, ContinueType DEF Typed
    <2>5. JobOK'
      BY <2>1, <2>2, ContinueJob
    <2>6. QED
      BY <1>2, <2>4, <2>5 DEF StartExecute, Typed, TypeOK, clock, network
  <1>3. QED
    BY <1>1, <1>2

LEMMA CheckHeightTyped ==
    ASSUME Typed, NEW p \in Procs, CheckHeight(p)
    PROVE  Typed'
  <1> DEFINE r == local[p].req
  <1>1. r \in Requests /\ local[p].auth \in Auths /\ local[p] \in Job
    BY DEF CheckHeight, Typed, TypeOK, JobOK
  <1>2. CASE r \in stale
    BY <1>1, <1>2, ExpireType, ReturnType, ReturnJob
    DEF CheckHeight, Typed, TypeOK, clock, network
  <1>3. CASE r \notin stale
    <2>1. Continue(p, "validated", local[p]) /\ "validated" \in Locations
      BY <1>3 DEF CheckHeight, Locations
    <2>2. JobOK'
      BY <1>1, <2>1, ContinueJob
    <2>3. QED
      BY <1>1, <1>3, <2>1, <2>2, ContinueType DEF CheckHeight, Typed, TypeOK, clock, network
  <1>4. QED
    BY <1>2, <1>3

LEMMA ClaimTyped ==
    ASSUME Typed, NEW p \in Procs, Claim(p)
    PROVE  Typed'
  <1> DEFINE r == local[p].req
             a == local[p].auth
             j == [local[p] EXCEPT !.auth = None]
  <1>1. r \in Requests /\ a \in Auths /\ local[p] \in Job
    BY DEF Claim, Typed, TypeOK, JobOK
  <1>2. CASE Taken(r, a)
    BY <1>2, ReturnType, ReturnJob DEF Claim, Typed, TypeOK, clock, network
  <1>3. CASE ~Taken(r, a)
    <2>1. j \in Job /\ j.req = r
      BY <1>1 DEF Job
    <2>2. Continue(p, "claimed", j) /\ "claimed" \in Locations
      BY <1>3 DEF Claim, Locations
    <2> DEFINE row == [NoAttempt EXCEPT !.state = "broadcast_started", !.auth = a]
    <2>3. attempt' \in [Requests -> AttemptRow]
      <3>1. row \in AttemptRow
        BY <1>1 DEF AttemptRow, AttemptStates, NoAttempt
      <3>2. attempt' = [attempt EXCEPT ![r] = row]
        BY <1>3 DEF Claim
      <3>3. QED
        BY <3>1, <3>2 DEF Typed, TypeOK
    <2>4. JobOK'
      BY <1>1, <2>1, <2>2, ContinueJob
    <2>5. QED
      BY <1>3, <2>1, <2>2, <2>3, <2>4, ContinueType
      DEF Claim, Typed, TypeOK, clock, network
  <1>4. QED
    BY <1>2, <1>3

LEMMA SendTyped ==
    ASSUME Typed, NEW p \in Procs, Send(p)
    PROVE  Typed'
  <1> DEFINE r == local[p].req
  <1>1. r \in Requests /\ local[p] \in Job
    BY DEF Send, Typed, TypeOK, JobOK
  <1>2. PICK answer \in {"answered", "rejected", "unknown"} :
           /\ Continue(p, answer, local[p])
           /\ chain' = [chain EXCEPT ![r] = "pending"] \/ chain' = chain
    BY DEF Send
  <1>3. answer \in Locations
    BY DEF Locations
  <1>4. pc' \in [Procs -> Locations] /\ local' \in [Procs -> Job]
    BY <1>1, <1>2, <1>3, ContinueType DEF Typed
  <1>5. JobOK'
    BY <1>1, <1>2, ContinueJob
  <1>6. sends' \in [Requests -> Nat] /\ chain' \in [Requests -> ChainStates]
    BY <1>1, <1>2 DEF Send, Typed, TypeOK, ChainStates
  <1>7. QED
    BY <1>4, <1>5, <1>6 DEF Send, Typed, TypeOK, clock

LEMMA RecordTyped ==
    ASSUME Typed, NEW p \in Procs,
           RecordSubmitted(p) \/ StorageBusy(p) \/ RecordRejection(p) \/ MarkNeedsRecovery(p)
    PROVE  Typed'
  <1>1. local[p].req \in Requests /\ local[p] \in Job
    BY DEF RecordSubmitted, StorageBusy, RecordRejection, MarkNeedsRecovery, Typed, TypeOK, JobOK
  <1>2. attempt' \in [Requests -> AttemptRow]
    <2> USE <1>1 DEF Typed, TypeOK, AttemptRow, AttemptStates
    <2>1. CASE RecordSubmitted(p)
      BY <2>1 DEF RecordSubmitted
    <2>2. CASE StorageBusy(p)
      BY <2>2 DEF StorageBusy
    <2>3. CASE RecordRejection(p)
      BY <2>3 DEF RecordRejection
    <2>4. CASE MarkNeedsRecovery(p)
      BY <2>4 DEF MarkNeedsRecovery
    <2>5. QED
      BY <2>1, <2>2, <2>3, <2>4
  <1>3. CASE StorageBusy(p)
    <2>1. Continue(p, "unknown", local[p]) /\ "unknown" \in Locations
      BY <1>3 DEF StorageBusy, Locations
    <2>2. JobOK'
      BY <1>1, <2>1, ContinueJob
    <2>3. QED
      BY <1>1, <1>3, <2>1, <2>2, ContinueType DEF StorageBusy, Typed, TypeOK, clock, network
  <1>4. CASE ~StorageBusy(p)
    <2>1. Return(p)
      BY <1>4 DEF RecordSubmitted, RecordRejection, MarkNeedsRecovery
    <2>2. QED
      BY <1>2, <1>4, <2>1, ReturnType, ReturnJob
      DEF RecordSubmitted, RecordRejection, MarkNeedsRecovery, Typed, TypeOK, clock, network
  <1>5. QED
    BY <1>3, <1>4

LEMMA StartInspectionTyped ==
    ASSUME Typed, NEW p \in Procs, NEW r \in Requests, NEW cmd \in {"status", "recover"},
           StartInspection(p, r, cmd)
    PROVE  Typed'
  <1> DEFINE j == [NoJob EXCEPT !.req = r, !.cmd = cmd, !.seen = attempt[r].state]
  <1>1. attempt[r].state \in AttemptStates
    BY DEF Typed, TypeOK, AttemptRow
  <1>2. j \in Job /\ j.req = r
    BY <1>1, NoJobType DEF Job, NoJob
  <1>3. verdicts' \subseteq Verdict
    BY AnswerType DEF StartInspection, AnswerTerminal, Typed, TypeOK, Outcomes
  <1>4. CASE attempt[r].state \in Terminal
    BY <1>3, <1>4 DEF StartInspection, Terminal, Typed, TypeOK, JobOK, clock, network
  <1>5. CASE attempt[r].state \notin Terminal
    <2>1. PICK l \in {"inspecting", "second_look", "querying"} : Continue(p, l, j)
      BY <1>5 DEF StartInspection
    <2>2. l \in Locations
      BY DEF Locations
    <2>3. JobOK'
      BY <1>2, <2>1, ContinueJob
    <2>4. QED
      BY <1>2, <1>3, <2>1, <2>2, <2>3, ContinueType
      DEF StartInspection, Typed, TypeOK, clock, network
  <1>6. QED
    BY <1>4, <1>5

LEMMA SecondLookTyped ==
    ASSUME Typed, NEW p \in Procs, SecondLook(p)
    PROVE  Typed'
  <1> DEFINE r == local[p].req
             j == [local[p] EXCEPT !.cmd = "fallback", !.seen = attempt[r].state]
  <1>1. r \in Requests /\ local[p] \in Job
    BY DEF SecondLook, Typed, TypeOK, JobOK
  <1>2. attempt[r].state \in AttemptStates
    BY <1>1 DEF Typed, TypeOK, AttemptRow
  <1>3. j \in Job /\ j.req = r
    BY <1>1, <1>2 DEF Job
  <1>4. verdicts' \subseteq Verdict
    BY <1>1, AnswerType DEF SecondLook, Typed, TypeOK, Outcomes
  <1>5. CASE Return(p)
    BY <1>4, <1>5, ReturnType, ReturnJob DEF SecondLook, Typed, TypeOK, clock, network
  <1>6. CASE ~Return(p)
    <2>1. PICK l \in {"inspecting", "querying"} : Continue(p, l, j)
      BY <1>6 DEF SecondLook
    <2>2. l \in Locations
      BY DEF Locations
    <2>3. JobOK'
      BY <1>3, <1>1, <2>1, ContinueJob
    <2>4. QED
      BY <1>3, <1>4, <2>1, <2>2, <2>3, ContinueType
      DEF SecondLook, Typed, TypeOK, clock, network
  <1>7. QED
    BY <1>5, <1>6

LEMMA InspectTyped ==
    ASSUME Typed, NEW p \in Procs, Inspect(p)
    PROVE  Typed'
  <1> DEFINE r == local[p].req
             expired == prep[r].state = "expired" \/ r \in late \cup stale
  <1>1. r \in Requests
    BY DEF Inspect, Typed, TypeOK, JobOK
  <1>2. verdicts' \subseteq Verdict
    <2>1. expired \in BOOLEAN /\ "failed_before_broadcast" \in Outcomes
      BY DEF Outcomes
    <2>2. verdicts' = verdicts \/ Answer(r, "failed_before_broadcast", expired)
      BY DEF Inspect
    <2>3. QED
      BY <1>1, <2>1, <2>2, AnswerType DEF Typed, TypeOK
  <1>3. prep' \in [Requests -> PrepRow]
    BY <1>1, ExpireType DEF Inspect, Typed, TypeOK
  <1>4. Return(p)
    BY DEF Inspect
  <1>5. QED
    BY <1>2, <1>3, <1>4, ReturnType, ReturnJob DEF Inspect, Typed, TypeOK, clock, network

\* A handler never derives the absence of an attempt.
LEMMA DerivedStateType ==
    ASSUME NEW v \in {"null", "processed", "err", "confirmed"}, NEW s
    PROVE  DerivedState(v, s) \in AttemptStates \ {"none"}
  BY DEF DerivedState, AttemptStates

LEMMA ObservableType ==
    ASSUME NEW r \in Requests, TypeOK
    PROVE  Observable(r) \subseteq {"null", "processed", "err", "confirmed"}
  BY DEF Observable, TypeOK, ChainStates

LEMMA QueryTyped ==
    ASSUME Typed, NEW p \in Procs, Query(p)
    PROVE  Typed'
  <1> DEFINE r == local[p].req
             j(v) == [local[p] EXCEPT !.seen = "none",
                                      !.finding = DerivedState(v, local[p].seen),
                                      !.value = IF v = "null" THEN "null" ELSE "value"]
  <1>1. r \in Requests /\ local[p] \in Job
    BY DEF Query, Typed, TypeOK, JobOK
  <1>2. PICK v \in Observable(r) : Continue(p, "observed", j(v))
    BY DEF Query
  <1>3. DerivedState(v, local[p].seen) \in AttemptStates \ {"none"}
    BY <1>1, <1>2, ObservableType, DerivedStateType DEF Typed
  <1>4. j(v) \in Job /\ j(v).req = r /\ j(v).finding # "none" /\ j(v).value # "none"
    BY <1>1, <1>3 DEF Job, AttemptStates
  <1>5. "observed" \in Locations
    BY DEF Locations
  <1>6. JobOK'
    BY <1>1, <1>2, <1>4, ContinueJob
  <1>7. QED
    BY <1>2, <1>4, <1>5, <1>6, ContinueType DEF Query, Typed, TypeOK, clock, network

LEMMA RecordObservationTyped ==
    ASSUME Typed, NEW p \in Procs, RecordObservation(p)
    PROVE  Typed'
  <1> DEFINE r == local[p].req
             j == [NoJob EXCEPT !.req = r, !.cmd = local[p].cmd]
  <1>1. r \in Requests /\ local[p] \in Job /\ local[p].value # "none"
    BY DEF RecordObservation, Typed, TypeOK, JobOK
  <1>2. j \in Job /\ j.req = r
    BY <1>1, NoJobType DEF Job, NoJob
  <1>3. Continue(p, "reread", j) /\ "reread" \in Locations
    BY DEF RecordObservation, Locations
  <1>4. JobOK'
    BY <1>1, <1>2, <1>3, ContinueJob
  <1>5. attempt' \in [Requests -> AttemptRow]
    <2> DEFINE row == [attempt[r] EXCEPT !.state = local[p].finding,
                                         !.obs = local[p].value,
                                         !.receipt = IF local[p].finding \in Terminal
                                                     THEN local[p].finding ELSE @]
    <2>1. attempt[r] \in AttemptRow
      BY <1>1 DEF Typed, TypeOK
    <2>2. local[p].finding \in AttemptStates /\ local[p].value \in {"null", "value"}
      BY <1>1 DEF Job
    <2>3. row \in AttemptRow
      BY <2>1, <2>2 DEF AttemptRow, Terminal
    <2>4. attempt' = [attempt EXCEPT ![r] = row]
      BY DEF RecordObservation
    <2>5. QED
      BY <2>3, <2>4 DEF Typed, TypeOK
  <1>6. QED
    BY <1>2, <1>3, <1>4, <1>5, ContinueType DEF RecordObservation, Typed, TypeOK, clock, network

LEMMA RereadTyped ==
    ASSUME Typed, NEW p \in Procs, Reread(p)
    PROVE  Typed'
  <1> DEFINE r == local[p].req
  <1>1. r \in Requests /\ local[p] \in Job
    BY DEF Reread, Typed, TypeOK, JobOK
  <1>2. verdicts' \subseteq Verdict
    BY <1>1, AnswerType DEF Reread, AnswerTerminal, Typed, TypeOK, Outcomes, Job
  <1>3. Return(p) \/ Continue(p, "deciding", local[p])
    BY DEF Reread
  <1>4. "deciding" \in Locations
    BY DEF Locations
  <1>5. JobOK' /\ pc' \in [Procs -> Locations] /\ local' \in [Procs -> Job]
    BY <1>1, <1>3, <1>4, ReturnType, ReturnJob, ContinueType, ContinueJob DEF Typed
  <1>6. QED
    BY <1>2, <1>5 DEF Reread, Typed, TypeOK, clock, network

LEMMA DecideByHeightTyped ==
    ASSUME Typed, NEW p \in Procs, DecideByHeight(p)
    PROVE  Typed'
  <1> DEFINE r == local[p].req
  <1>1. r \in Requests
    BY DEF DecideByHeight, Typed, TypeOK, JobOK
  <1>2. verdicts' \subseteq Verdict
    BY <1>1, AnswerType DEF DecideByHeight, Typed, Outcomes
  <1>3. attempt' \in [Requests -> AttemptRow]
    <2> DEFINE row == [attempt[r] EXCEPT !.state = "needs_recovery", !.obs = "null"]
    <2>1. row \in AttemptRow
      <3>1. attempt[r] \in AttemptRow
        BY <1>1 DEF Typed, TypeOK
      <3>2. QED
        BY <3>1 DEF AttemptRow, AttemptStates
    <2>2. CASE r \in stale
      <3>1. attempt' = [attempt EXCEPT ![r] = row]
        BY <2>2 DEF DecideByHeight
      <3>2. QED
        BY <2>1, <3>1 DEF Typed, TypeOK
    <2>3. CASE r \notin stale
      BY <2>3 DEF DecideByHeight, Typed, TypeOK
    <2>4. QED
      BY <2>2, <2>3
  <1>4. Return(p)
    BY DEF DecideByHeight
  <1>5. QED
    BY <1>2, <1>3, <1>4, ReturnType, ReturnJob DEF DecideByHeight, Typed, TypeOK, clock, network

LEMMA EnvironmentTyped ==
    ASSUME Typed, NEW r \in Requests, Environment(r)
    PROVE  Typed'
  <1> USE DEF Typed, TypeOK, JobOK, clock, network
  <1>1. CASE BecomeLate(r) \/ BecomeStale(r)
    BY <1>1 DEF BecomeLate, BecomeStale
  <1>2. ASSUME NEW from, NEW to \in ChainStates, Cluster(r, from, to)
        PROVE  Typed'
    BY <1>2 DEF Cluster
  <1>3. {"processed", "reverted", "confirmed", "failed", "pending", "dropped"} \subseteq ChainStates
    BY DEF ChainStates
  <1>4. CASE Include(r) \/ SettleBlock(r) \/ Drop(r)
    BY <1>2, <1>3, <1>4 DEF Include, SettleBlock, SettledAs, Drop
  <1>5. QED
    BY <1>1, <1>4 DEF Environment

LEMMA NextTyped == Typed /\ [Next]_vars => Typed'
  <1> SUFFICES ASSUME Typed, [Next]_vars
               PROVE  Typed'
    OBVIOUS
  <1>1. CASE UNCHANGED vars
    BY <1>1 DEF vars, Typed, TypeOK, JobOK
  <1>2. ASSUME NEW p \in Procs, Abandon(p)
        PROVE  Typed'
    BY <1>2, ReturnType, ReturnJob DEF Abandon, Typed, TypeOK, clock, network
  <1>3. ASSUME NEW p \in Procs, Execute(p)
        PROVE  Typed'
    BY <1>3, CheckHeightTyped, ClaimTyped, SendTyped, RecordTyped DEF Execute
  <1>4. ASSUME NEW p \in Procs, Recover(p)
        PROVE  Typed'
    BY <1>4, SecondLookTyped, InspectTyped, QueryTyped, RecordObservationTyped,
       RereadTyped, DecideByHeightTyped DEF Recover
  <1>5. ASSUME NEW p \in Procs, NEW r \in Requests, NEW plan \in Plans, StartPrepare(p, r, plan)
        PROVE  Typed'
    BY <1>5, PrepareTyped
  <1>6. ASSUME NEW p \in Procs, SavePreparation(p)
        PROVE  Typed'
    <2>1. local[p].req \in Requests /\ local[p].plan \in Plans
      BY <1>6 DEF SavePreparation, Typed, JobOK
    <2>2. QED
      BY <1>6, <2>1, PrepareTyped
  <1>7. QED
    BY <1>1, <1>2, <1>3, <1>4, <1>5, <1>6, StartExecuteTyped, StartInspectionTyped,
       EnvironmentTyped DEF Next

LEMMA TypedInvariant == Spec => []Typed
  BY InitTyped, NextTyped, PTL DEF Spec

\* Every reachable state is well typed.
THEOREM TypeCorrect == Spec => []TypeOK
  <1>1. Typed => TypeOK
    BY DEF Typed
  <1>2. QED
    BY <1>1, TypedInvariant, PTL

-----------------------------------------------------------------------------
(* At most one send                                                        *)

\* The step leaves every claim as it is.
SameClaims ==
    \A r \in Requests :
        /\ attempt'[r].auth = attempt[r].auth
        /\ attempt'[r].state = "none" <=> attempt[r].state = "none"

LEMMA InitBroadcast == Init => BroadcastInv
  BY DEF Init, BroadcastInv, AuthorizationSingleUse, AfterClaim, NoAttempt, NoJob

\* A handler step that neither claims nor sends, and reaches a location
\* after the claim only for a request that has an attempt.
LEMMA QuietStep ==
    ASSUME Typed, BroadcastInv, NEW p \in Procs, NEW l, NEW j,
           Continue(p, l, j), l # "claimed",
           l \in AfterClaim => j.req \in Requests /\ attempt[j.req].state # "none",
           SameClaims, sends' = sends, chain' = chain
    PROVE  BroadcastInv'
  <1> USE DEF BroadcastInv, SameClaims, Typed, TypeOK, Continue
  <1>1. \A q \in Procs : q # p => pc'[q] = pc[q] /\ local'[q] = local[q]
    OBVIOUS
  <1>2. pc'[p] = l /\ local'[p] = j
    OBVIOUS
  <1>3. \A q \in Procs : pc[q] \in AfterClaim => local[q].req \in Requests
    BY DEF JobOK, AfterClaim
  <1>4. \A q \in Procs : pc'[q] \in AfterClaim => attempt'[local'[q].req].state # "none"
    BY <1>1, <1>2, <1>3
  <1>5. \A q \in Procs : pc'[q] = "claimed" => q # p /\ pc[q] = "claimed" /\ local'[q] = local[q]
    BY <1>1, <1>2
  <1>6. AuthorizationSingleUse'
    BY DEF AuthorizationSingleUse
  <1>7. QED
    BY <1>4, <1>5, <1>6

\* Returning is such a step.
LEMMA QuietReturn ==
    ASSUME Typed, BroadcastInv, NEW p \in Procs, Return(p),
           SameClaims, sends' = sends, chain' = chain
    PROVE  BroadcastInv'
  BY QuietStep DEF Return, AfterClaim

\* So is a step that changes neither the processes nor the claims.
LEMMA QuietStutter ==
    ASSUME Typed, BroadcastInv, UNCHANGED <<pc, local, attempt, sends>>,
           \A r \in Requests : chain'[r] # "unsent" => chain[r] # "unsent"
    PROVE  BroadcastInv'
  BY DEF BroadcastInv, AuthorizationSingleUse

\* The claim itself: the request had no attempt, so nobody was about to send
\* for it and nothing had been sent.
LEMMA ClaimBroadcast ==
    ASSUME Typed, BroadcastInv, NEW p \in Procs, Claim(p)
    PROVE  BroadcastInv'
  <1> DEFINE r == local[p].req
             a == local[p].auth
             row == [NoAttempt EXCEPT !.state = "broadcast_started", !.auth = a]
             j == [local[p] EXCEPT !.auth = None]
  <1>1. r \in Requests /\ a \in Auths /\ a # None /\ local[p] \in Job
    BY NoneIsFresh DEF Claim, Typed, TypeOK, JobOK
  <1>2. CASE Taken(r, a)
    BY <1>2, QuietReturn DEF Claim, network, SameClaims
  <1>3. CASE ~Taken(r, a)
    <2>1. /\ attempt' = [attempt EXCEPT ![r] = row]
          /\ pc' = [pc EXCEPT ![p] = "claimed"]
          /\ local' = [local EXCEPT ![p] = j]
          /\ sends' = sends /\ chain' = chain
      BY <1>3 DEF Claim, Continue, network
    <2>2. row.state = "broadcast_started" /\ row.auth = a /\ j.req = r
      BY <1>1 DEF NoAttempt, Job
    <2>3. attempt[r].state = "none" /\ \A q \in Requests : attempt[q].auth # a
      BY <1>1, <1>3 DEF Taken, BroadcastInv
    <2>4. /\ attempt'[r] = row
          /\ \A q \in Requests : q # r => attempt'[q] = attempt[q]
      BY <1>1, <2>1 DEF Typed, TypeOK
    <2>5. /\ pc'[p] = "claimed" /\ local'[p].req = r
          /\ \A q \in Procs : q # p => pc'[q] = pc[q] /\ local'[q] = local[q]
      BY <2>1, <2>2 DEF Typed, TypeOK
    <2>6. sends[r] = 0
      BY <1>1, <2>3 DEF BroadcastInv
    <2>7. \A q \in Procs : pc[q] \in AfterClaim => local[q].req \in Requests /\ local[q].req # r
      BY <2>3 DEF BroadcastInv, Typed, JobOK, AfterClaim
    <2>8. \A q \in Procs : pc'[q] \in AfterClaim => attempt'[local'[q].req].state # "none"
      <3>1. attempt'[local'[p].req].state # "none"
        BY <2>2, <2>4, <2>5
      <3>2. ASSUME NEW q \in Procs, q # p, pc'[q] \in AfterClaim
            PROVE  attempt'[local'[q].req].state # "none"
        <4>1. pc[q] \in AfterClaim /\ local'[q] = local[q]
          BY <2>5, <3>2
        <4>2. attempt'[local[q].req] = attempt[local[q].req]
          BY <2>4, <2>7, <4>1
        <4>3. QED
          BY <4>1, <4>2 DEF BroadcastInv
      <3>3. QED
        BY <3>1, <3>2
    <2>9. \A q \in Procs : pc'[q] = "claimed" => sends'[local'[q].req] = 0
      BY <2>1, <2>5, <2>6 DEF BroadcastInv
    <2>10. \A q, t \in Procs :
             pc'[q] = "claimed" /\ pc'[t] = "claimed" /\ local'[q].req = local'[t].req => q = t
      BY <2>5, <2>7 DEF BroadcastInv, AfterClaim
    <2>11. AuthorizationSingleUse'
      <3>1. attempt'[r].auth = a /\ \A q \in Requests : q # r => attempt'[q].auth # a
        BY <2>2, <2>3, <2>4
      <3>2. \A q, t \in Requests :
               /\ q # r /\ t # r
               /\ attempt'[q].auth # None /\ attempt'[q].auth = attempt'[t].auth
               => q = t
        BY <2>4 DEF BroadcastInv, AuthorizationSingleUse
      <3>3. QED
        BY <3>1, <3>2 DEF AuthorizationSingleUse
    <2>12. \A q \in Requests : /\ attempt'[q].state = "none" <=> attempt'[q].auth = None
                               /\ attempt'[q].state = "none" => sends'[q] = 0
      BY <1>1, <2>1, <2>2, <2>4 DEF BroadcastInv
    <2>13. QED
      BY <2>1, <2>8, <2>9, <2>10, <2>11, <2>12 DEF BroadcastInv
  <1>4. QED
    BY <1>2, <1>3

\* The send: the sender was alone and becomes nobody.
LEMMA SendBroadcast ==
    ASSUME Typed, BroadcastInv, NEW p \in Procs, Send(p)
    PROVE  BroadcastInv'
  <1> DEFINE r == local[p].req
  <1>1. r \in Requests /\ pc[p] = "claimed" /\ sends[r] = 0 /\ attempt[r].state # "none"
    BY DEF Send, Typed, JobOK, BroadcastInv, AfterClaim
  <1>2. PICK l \in {"answered", "rejected", "unknown"} :
           /\ Continue(p, l, local[p])
           /\ chain' = [chain EXCEPT ![r] = "pending"] \/ chain' = chain
    BY DEF Send
  <1>3. sends' = [sends EXCEPT ![r] = 1] /\ attempt' = attempt
    BY <1>1 DEF Send
  <1>4. /\ pc'[p] = l /\ local' = local
        /\ \A q \in Procs : q # p => pc'[q] = pc[q]
    BY <1>2 DEF Continue, Typed, TypeOK
  <1>5. /\ sends'[r] = 1
        /\ \A q \in Requests : q # r => sends'[q] = sends[q] /\ chain'[q] = chain[q]
    BY <1>1, <1>2, <1>3 DEF Typed, TypeOK
  <1>6. \A q \in Procs : pc'[q] = "claimed" => q # p /\ pc[q] = "claimed" /\ local[q].req # r
    BY <1>1, <1>4 DEF BroadcastInv
  <1>7. \A q \in Procs : pc'[q] = "claimed" => sends'[local'[q].req] = 0
    BY <1>4, <1>5, <1>6 DEF BroadcastInv, Typed, JobOK
  <1>8. \A q \in Procs : pc'[q] \in AfterClaim => attempt'[local'[q].req].state # "none"
    BY <1>1, <1>3, <1>4 DEF BroadcastInv
  <1>9. AuthorizationSingleUse'
    BY <1>3 DEF BroadcastInv, AuthorizationSingleUse
  <1>10. \A q, t \in Procs :
            pc'[q] = "claimed" /\ pc'[t] = "claimed" /\ local'[q].req = local'[t].req => q = t
    BY <1>4, <1>6 DEF BroadcastInv
  <1>11. \A q \in Requests : /\ attempt'[q].state = "none" <=> attempt'[q].auth = None
                             /\ attempt'[q].state = "none" => sends'[q] = 0
                             /\ sends'[q] <= 1
                             /\ chain'[q] # "unsent" => sends'[q] = 1
    BY <1>1, <1>3, <1>5 DEF BroadcastInv
  <1>12. QED
    BY <1>7, <1>8, <1>9, <1>10, <1>11 DEF BroadcastInv


\* An attempt row that keeps its authorization and does not become "none"
\* is the same claim.
LEMMA RewriteSameClaims ==
    ASSUME Typed, NEW r \in Requests, NEW row,
           attempt[r].state # "none", row.state # "none", row.auth = attempt[r].auth,
           attempt' = [attempt EXCEPT ![r] = row]
    PROVE  SameClaims
  BY DEF SameClaims, Typed, TypeOK

LEMMA PrepareBroadcast ==
    ASSUME Typed, BroadcastInv, NEW p \in Procs,
           \/ \E r \in Requests, plan \in Plans : StartPrepare(p, r, plan)
           \/ SavePreparation(p)
           \/ \E r \in Requests, a \in Auths : StartExecute(p, r, a)
           \/ CheckHeight(p)
           \/ StorageBusy(p)
           \/ Abandon(p)
    PROVE  BroadcastInv'
  <1> USE DEF network
  <1>1. CASE \E r \in Requests, plan \in Plans : StartPrepare(p, r, plan)
    BY <1>1, QuietStep DEF StartPrepare, AfterClaim, SameClaims
  <1>2. CASE SavePreparation(p)
    BY <1>2, QuietReturn DEF SavePreparation, SameClaims
  <1>3. ASSUME NEW r \in Requests, NEW a \in Auths, StartExecute(p, r, a)
        PROVE  BroadcastInv'
    <2>1. CASE UNCHANGED <<pc, local>>
      BY <1>3, <2>1, QuietStutter DEF StartExecute
    <2>2. CASE Continue(p, "checking", [NoJob EXCEPT !.req = r, !.auth = a, !.cmd = "execute"])
      BY <1>3, <2>2, QuietStep DEF StartExecute, AfterClaim, SameClaims
    <2>3. QED
      BY <1>3, <2>1, <2>2 DEF StartExecute
  <1>4. CASE CheckHeight(p)
    <2>1. CASE Return(p)
      BY <1>4, <2>1, QuietReturn DEF CheckHeight, SameClaims
    <2>2. CASE Continue(p, "validated", local[p])
      BY <1>4, <2>2, QuietStep DEF CheckHeight, AfterClaim, SameClaims
    <2>3. QED
      BY <1>4, <2>1, <2>2 DEF CheckHeight
  <1>5. CASE StorageBusy(p)
    <2>1. local[p].req \in Requests /\ attempt[local[p].req].state # "none"
      BY <1>5 DEF StorageBusy, Typed, JobOK, BroadcastInv, AfterClaim
    <2>2. QED
      BY <1>5, <2>1, QuietStep DEF StorageBusy, SameClaims
  <1>6. CASE Abandon(p)
    BY <1>6, QuietReturn DEF Abandon, SameClaims
  <1>7. QED
    BY <1>1, <1>2, <1>3, <1>4, <1>5, <1>6

LEMMA RecordBroadcast ==
    ASSUME Typed, BroadcastInv, NEW p \in Procs,
           RecordSubmitted(p) \/ RecordRejection(p) \/ MarkNeedsRecovery(p)
    PROVE  BroadcastInv'
  <1> DEFINE r == local[p].req
  <1> USE DEF network
  <1>1. r \in Requests /\ attempt[r].state # "none" /\ attempt[r] \in AttemptRow
    BY DEF RecordSubmitted, RecordRejection, MarkNeedsRecovery, Typed, TypeOK, JobOK,
           BroadcastInv, AfterClaim
  <1>2. CASE attempt' = attempt
    BY <1>2, QuietReturn DEF RecordSubmitted, RecordRejection, MarkNeedsRecovery, SameClaims
  <1>3. ASSUME NEW row \in AttemptRow,
               row.state # "none", row.auth = attempt[r].auth,
               attempt' = [attempt EXCEPT ![r] = row]
        PROVE  BroadcastInv'
    BY <1>1, <1>3, RewriteSameClaims, QuietReturn
       DEF RecordSubmitted, RecordRejection, MarkNeedsRecovery
  <1>4. CASE RecordSubmitted(p) /\ attempt' # attempt
    <2> DEFINE row == [attempt[r] EXCEPT !.state = "submitted", !.receipt = "submitted"]
    <2>1. attempt' = [attempt EXCEPT ![r] = row]
      BY <1>1, <1>4 DEF RecordSubmitted, Typed, TypeOK
    <2>2. row \in AttemptRow /\ row.state # "none" /\ row.auth = attempt[r].auth
      BY <1>1 DEF AttemptRow, AttemptStates
    <2>3. QED
      BY <1>3, <2>1, <2>2
  <1>5. CASE RecordRejection(p) /\ attempt' # attempt
    <2> DEFINE row == [attempt[r] EXCEPT !.state = "failed", !.obs = "rejection"]
    <2>1. attempt' = [attempt EXCEPT ![r] = row]
      BY <1>1, <1>5 DEF RecordRejection, Typed, TypeOK
    <2>2. row \in AttemptRow /\ row.state # "none" /\ row.auth = attempt[r].auth
      BY <1>1 DEF AttemptRow, AttemptStates
    <2>3. QED
      BY <1>3, <2>1, <2>2
  <1>6. CASE MarkNeedsRecovery(p) /\ attempt' # attempt
    <2> DEFINE row == [attempt[r] EXCEPT !.state = "needs_recovery"]
    <2>1. attempt' = [attempt EXCEPT ![r] = row]
      BY <1>1, <1>6 DEF MarkNeedsRecovery, Typed, TypeOK
    <2>2. row \in AttemptRow /\ row.state # "none" /\ row.auth = attempt[r].auth
      BY <1>1 DEF AttemptRow, AttemptStates
    <2>3. QED
      BY <1>3, <2>1, <2>2
  <1>7. QED
    BY <1>2, <1>4, <1>5, <1>6

LEMMA InspectionBroadcast ==
    ASSUME Typed, BroadcastInv, NEW p \in Procs,
           \/ \E r \in Requests, cmd \in {"status", "recover"} : StartInspection(p, r, cmd)
           \/ SecondLook(p)
           \/ Inspect(p)
           \/ Query(p)
           \/ Reread(p)
    PROVE  BroadcastInv'
  <1> USE DEF network
  <1>1. ASSUME NEW r \in Requests, NEW cmd \in {"status", "recover"},
               StartInspection(p, r, cmd)
        PROVE  BroadcastInv'
    <2> DEFINE job == [NoJob EXCEPT !.req = r, !.cmd = cmd, !.seen = attempt[r].state]
    <2>1. attempt' = attempt /\ sends' = sends /\ chain' = chain /\ SameClaims
      BY <1>1 DEF StartInspection, SameClaims
    <2>2. job.req = r
      BY DEF NoJob
    <2>3. CASE UNCHANGED <<pc, local>>
      BY <2>1, <2>3, QuietStutter
    <2>4. CASE Continue(p, IF cmd = "status" THEN "inspecting" ELSE "second_look", job)
      <3> DEFINE l == IF cmd = "status" THEN "inspecting" ELSE "second_look"
      <3>1. l # "claimed" /\ l \notin AfterClaim
        BY DEF AfterClaim
      <3> HIDE DEF l, job
      <3>2. QED
        BY <2>1, <2>4, <3>1, QuietStep DEF l
    <2>5. CASE attempt[r].state # "none" /\ Continue(p, "querying", job)
      BY <2>1, <2>2, <2>5, QuietStep
    <2>6. QED
      BY <1>1, <2>3, <2>4, <2>5 DEF StartInspection
  <1>2. CASE SecondLook(p)
    <2> DEFINE r == local[p].req
               job == [local[p] EXCEPT !.cmd = "fallback", !.seen = attempt[r].state]
    <2>1. attempt' = attempt /\ sends' = sends /\ chain' = chain /\ SameClaims
      BY <1>2 DEF SecondLook, SameClaims
    <2>2. r \in Requests /\ job.req = r
      BY <1>2 DEF SecondLook, Typed, TypeOK, JobOK, Job
    <2>3. CASE Return(p)
      BY <2>1, <2>3, QuietReturn
    <2>4. CASE Continue(p, "inspecting", job)
      BY <2>1, <2>4, QuietStep DEF AfterClaim
    <2>5. CASE attempt[r].state # "none" /\ Continue(p, "querying", job)
      BY <2>1, <2>2, <2>5, QuietStep
    <2>6. QED
      BY <1>2, <2>3, <2>4, <2>5 DEF SecondLook
  <1>3. CASE Inspect(p)
    BY <1>3, QuietReturn DEF Inspect, SameClaims
  <1>4. ASSUME Query(p)
        PROVE  BroadcastInv'
    <2> DEFINE r == local[p].req
               job(v) == [local[p] EXCEPT !.seen = "none",
                              !.finding = DerivedState(v, local[p].seen),
                              !.value = IF v = "null" THEN "null" ELSE "value"]
    <2>1. PICK v \in Observable(r) : Continue(p, "observed", job(v))
      BY <1>4 DEF Query
    <2>2. r \in Requests /\ attempt[r].state # "none" /\ local[p] \in Job
      BY <1>4 DEF Query, Typed, TypeOK, JobOK, BroadcastInv, AfterClaim
    <2>3. job(v).req = r
      BY <2>2 DEF Job
    <2>4. attempt' = attempt /\ sends' = sends /\ chain' = chain /\ SameClaims
      BY <1>4 DEF Query, SameClaims
    <2> HIDE DEF job
    <2>5. QED
      BY <2>1, <2>2, <2>3, <2>4, QuietStep
  <1>5. CASE Reread(p)
    <2>1. local[p].req \in Requests /\ attempt[local[p].req].state # "none"
      BY <1>5 DEF Reread, Typed, JobOK, BroadcastInv, AfterClaim
    <2>2. attempt' = attempt /\ sends' = sends /\ chain' = chain /\ SameClaims
      BY <1>5 DEF Reread, SameClaims
    <2>3. CASE Return(p)
      BY <2>2, <2>3, QuietReturn
    <2>4. CASE Continue(p, "deciding", local[p])
      BY <2>1, <2>2, <2>4, QuietStep
    <2>5. QED
      BY <1>5, <2>3, <2>4 DEF Reread
  <1>6. QED
    BY <1>1, <1>2, <1>3, <1>4, <1>5

LEMMA RecordObservationBroadcast ==
    ASSUME Typed, BroadcastInv, NEW p \in Procs, RecordObservation(p)
    PROVE  BroadcastInv'
  <1> DEFINE r == local[p].req
             s == local[p].finding
             row == [attempt[r] EXCEPT !.state = s, !.obs = local[p].value,
                                       !.receipt = IF s \in Terminal THEN s ELSE @]
             job == [NoJob EXCEPT !.req = r, !.cmd = local[p].cmd]
  <1>1. r \in Requests /\ attempt[r].state # "none" /\ attempt[r] \in AttemptRow /\ s # "none"
    BY DEF RecordObservation, Typed, TypeOK, JobOK, BroadcastInv, AfterClaim
  <1>2. attempt' = [attempt EXCEPT ![r] = row] /\ Continue(p, "reread", job)
        /\ sends' = sends /\ chain' = chain
    BY <1>1 DEF RecordObservation, network, Typed, TypeOK
  <1>3. row.state # "none" /\ row.auth = attempt[r].auth /\ job.req = r
    BY <1>1 DEF AttemptRow, NoJob
  <1> HIDE DEF row, job
  <1>4. SameClaims
    BY <1>1, <1>2, <1>3, RewriteSameClaims
  <1>5. QED
    BY <1>1, <1>2, <1>3, <1>4, QuietStep

LEMMA DecideBroadcast ==
    ASSUME Typed, BroadcastInv, NEW p \in Procs, DecideByHeight(p)
    PROVE  BroadcastInv'
  <1> DEFINE r == local[p].req
             row == [attempt[r] EXCEPT !.state = "needs_recovery", !.obs = "null"]
  <1>1. r \in Requests /\ attempt[r].state # "none" /\ attempt[r] \in AttemptRow
    BY DEF DecideByHeight, Typed, TypeOK, JobOK, BroadcastInv, AfterClaim
  <1>2. Return(p) /\ sends' = sends /\ chain' = chain
    BY DEF DecideByHeight, network
  <1>3. CASE attempt' = attempt
    BY <1>2, <1>3, QuietReturn DEF SameClaims
  <1>4. CASE attempt' = [attempt EXCEPT ![r] = row]
    <2>1. row.state # "none" /\ row.auth = attempt[r].auth
      BY <1>1 DEF AttemptRow
    <2> HIDE DEF row
    <2>2. SameClaims
      BY <1>1, <1>4, <2>1, RewriteSameClaims
    <2>3. QED
      BY <1>2, <2>2, QuietReturn
  <1>5. attempt' = attempt \/ attempt' = [attempt EXCEPT ![r] = row]
    BY <1>1 DEF DecideByHeight, Typed, TypeOK
  <1>6. QED
    BY <1>3, <1>4, <1>5

\* The cluster only moves transactions that were sent.
LEMMA EnvironmentBroadcast ==
    ASSUME Typed, BroadcastInv, NEW r \in Requests, Environment(r)
    PROVE  BroadcastInv'
  <1>1. UNCHANGED <<pc, local, attempt, sends>>
    BY DEF Environment, BecomeLate, BecomeStale, Include, SettleBlock, SettledAs, Drop, Cluster, network
  <1>2. \A q \in Requests : chain'[q] # "unsent" => chain[q] # "unsent"
    BY DEF Environment, BecomeLate, BecomeStale, Include, SettleBlock, SettledAs, Drop, Cluster,
           network, Typed, TypeOK
  <1>3. QED
    BY <1>1, <1>2, QuietStutter

LEMMA NextBroadcast == Typed /\ BroadcastInv /\ [Next]_vars => BroadcastInv'
  <1> SUFFICES ASSUME Typed, BroadcastInv, [Next]_vars PROVE BroadcastInv'
    OBVIOUS
  <1>1. CASE UNCHANGED vars
    BY <1>1, QuietStutter DEF vars
  <1>2. ASSUME NEW p \in Procs, Execute(p)
        PROVE  BroadcastInv'
    BY <1>2, PrepareBroadcast, ClaimBroadcast, SendBroadcast, RecordBroadcast DEF Execute
  <1>3. ASSUME NEW p \in Procs, Recover(p)
        PROVE  BroadcastInv'
    BY <1>3, InspectionBroadcast, RecordObservationBroadcast, DecideBroadcast DEF Recover
  <1>4. QED
    BY <1>1, <1>2, <1>3, PrepareBroadcast, InspectionBroadcast, EnvironmentBroadcast DEF Next

\* Only the process that claimed a request can be about to send for it, it is
\* the only one, and it has not sent.
THEOREM BroadcastInvariant == Spec => []BroadcastInv
  BY InitBroadcast, NextBroadcast, TypedInvariant, PTL DEF Spec

\* However many processes race, crash and retry, sendTransaction is called at
\* most once for a request.
THEOREM SendOnce == Spec => []AtMostOneSend
  <1>1. BroadcastInv => AtMostOneSend
    BY DEF BroadcastInv, AtMostOneSend
  <1>2. QED
    BY <1>1, BroadcastInvariant, PTL

\* A transaction on the network always has its attempt row, with signature
\* and authorization.
THEOREM SignatureFirst == Spec => []SignatureBeforeSend
  <1>1. Typed /\ BroadcastInv => SignatureBeforeSend
    BY DEF BroadcastInv, SignatureBeforeSend, Typed, TypeOK
  <1>2. QED
    BY <1>1, BroadcastInvariant, TypedInvariant, PTL

\* No authorization is consumed twice.
THEOREM AuthorizationConsumedOnce == Spec => []AuthorizationSingleUse
  <1>1. BroadcastInv => AuthorizationSingleUse
    BY DEF BroadcastInv
  <1>2. QED
    BY <1>1, BroadcastInvariant, PTL

-----------------------------------------------------------------------------
(* One active preparation                                                  *)

\* Only SavePreparation makes a preparation active, and it looks first.
LEMMA SaveOneActive ==
    ASSUME Typed, OneActivePreparation, NEW p \in Procs, SavePreparation(p)
    PROVE  OneActivePreparation'
  <1> DEFINE r == local[p].req
             plan == local[p].plan
             row == [state |-> "prepared", plan |-> plan]
  <1>1. r \in Requests
    BY DEF SavePreparation, Typed, JobOK
  <1>2. CASE Blocking(r, plan.obligation) # {}
    BY <1>2 DEF SavePreparation, OneActivePreparation
  <1>3. CASE Blocking(r, plan.obligation) = {}
    <2>1. /\ prep'[r] = row
          /\ \A q \in Requests : q # r => prep'[q] = prep[q]
      BY <1>1, <1>3 DEF SavePreparation, Typed, TypeOK
    <2>2. \A q \in Requests :
             prep[q].state = "prepared" => prep[q].plan.obligation # plan.obligation
      BY <1>3 DEF Blocking
    <2>3. QED
      BY <2>1, <2>2 DEF OneActivePreparation
  <1>4. QED
    BY <1>2, <1>3

\* Every other step leaves each row as it is or expires it.
LEMMA OtherOneActive ==
    ASSUME Typed, OneActivePreparation,
           \/ UNCHANGED prep
           \/ \E r \in Requests : Expire(r)
    PROVE  OneActivePreparation'
  <1>1. CASE UNCHANGED prep
    BY <1>1 DEF OneActivePreparation
  <1>2. ASSUME NEW r \in Requests, Expire(r)
        PROVE  OneActivePreparation'
    <2> DEFINE row == [prep[r] EXCEPT !.state = "expired"]
    <2>1. prep[r] \in PrepRow /\ row.state = "expired"
      BY DEF Typed, TypeOK, PrepRow
    <2>2. prep' = [prep EXCEPT ![r] = row]
      BY <1>2 DEF Expire
    <2>3. \A q \in Requests : prep'[q].state = "prepared" => prep'[q] = prep[q]
      BY <2>1, <2>2 DEF Typed, TypeOK
    <2>4. QED
      BY <2>3 DEF OneActivePreparation
  <1>3. QED
    BY <1>1, <1>2

\* Two processes never both leave an active preparation of one obligation.
THEOREM OneActive == Spec => []OneActivePreparation
  <1>1. Init => OneActivePreparation
    BY DEF Init, OneActivePreparation, NoPreparation
  <1>2. ASSUME Typed, OneActivePreparation, [Next]_vars
        PROVE  OneActivePreparation'
    <2>1. CASE UNCHANGED vars
      BY <1>2, <2>1, OtherOneActive DEF vars
    <2>2. ASSUME NEW p \in Procs, Execute(p)
          PROVE  OneActivePreparation'
      <3>1. CheckHeight(p) => (UNCHANGED prep \/ \E r \in Requests : Expire(r))
        BY <1>2 DEF CheckHeight, Typed, JobOK
      <3>2. QED
        BY <1>2, <2>2, <3>1, OtherOneActive
           DEF Execute, Claim, Send, RecordSubmitted, StorageBusy, RecordRejection,
               MarkNeedsRecovery
    <2>3. ASSUME NEW p \in Procs, Recover(p)
          PROVE  OneActivePreparation'
      <3>1. Inspect(p) => (UNCHANGED prep \/ \E r \in Requests : Expire(r))
        BY <1>2 DEF Inspect, Typed, JobOK
      <3>2. QED
        BY <1>2, <2>3, <3>1, OtherOneActive
           DEF Recover, SecondLook, Query, RecordObservation, Reread, DecideByHeight
    <2>4. ASSUME NEW r \in Requests, Environment(r)
          PROVE  OneActivePreparation'
      BY <1>2, <2>4, OtherOneActive
         DEF Environment, BecomeLate, BecomeStale, Include, SettleBlock, SettledAs, Drop, Cluster
    <2>5. ASSUME NEW p \in Procs, NEW r \in Requests,
                 \/ \E plan \in Plans : StartPrepare(p, r, plan)
                 \/ \E a \in Auths : StartExecute(p, r, a)
                 \/ \E cmd \in {"status", "recover"} : StartInspection(p, r, cmd)
          PROVE  OneActivePreparation'
      BY <1>2, <2>5, OtherOneActive DEF StartPrepare, StartExecute, StartInspection
    <2>6. CASE \E p \in Procs : Abandon(p)
      BY <1>2, <2>6, OtherOneActive DEF Abandon
    <2>7. QED
      BY <1>2, <2>1, <2>2, <2>3, <2>4, <2>5, <2>6, SaveOneActive DEF Next
  <1>3. QED
    BY <1>1, <1>2, TypedInvariant, PTL DEF Spec

-----------------------------------------------------------------------------
(* The execution backend implements SingleBroadcast                        *)

\* The variables of SingleBroadcast under the refinement mapping.
Holder == [r \in Requests |-> attempt[r].auth]
Applied == {r \in Requests : chain[r] = "confirmed"}

PromiseKept == [Promise!Next]_(Promise!absvars)

LEMMA StutterPromise ==
    ASSUME \A r \in Requests : attempt'[r].auth = attempt[r].auth,
           sends' = sends,
           \A r \in Requests : chain'[r] = "confirmed" <=> chain[r] = "confirmed"
    PROVE  PromiseKept
  BY DEF PromiseKept, Promise!absvars

\* A row that is rewritten with its authorization leaves the holder alone.
LEMMA RewritePromise ==
    ASSUME Typed, NEW r \in Requests, NEW row, row.auth = attempt[r].auth,
           attempt' = [attempt EXCEPT ![r] = row], UNCHANGED network
    PROVE  PromiseKept
  BY StutterPromise DEF Typed, TypeOK, network

LEMMA ClaimPromise ==
    ASSUME Typed, BroadcastInv, NEW p \in Procs, Claim(p)
    PROVE  PromiseKept
  <1>1. PICK r \in Requests, a \in Auths : r = local[p].req /\ a = local[p].auth
    BY DEF Claim, Typed, JobOK
  <1> DEFINE row == [NoAttempt EXCEPT !.state = "broadcast_started", !.auth = a]
  <1>2. CASE Taken(r, a)
    BY <1>1, <1>2, StutterPromise DEF Claim, network
  <1>3. CASE ~Taken(r, a)
    <2>1. attempt' = [attempt EXCEPT ![r] = row] /\ row.auth = a /\ UNCHANGED network
      BY <1>1, <1>3 DEF Claim, NoAttempt
    <2>2. Holder[r] = None /\ \A q \in Requests : Holder[q] # a
      BY <1>3, NoneIsFresh DEF Taken, BroadcastInv, Holder
    <2> HIDE DEF row
    <2>3. Holder' = [Holder EXCEPT ![r] = a]
      BY <1>1, <2>1 DEF Holder, Typed, TypeOK
    <2>4. UNCHANGED <<sends, Applied>>
      BY <2>1 DEF network, Applied
    <2>5. Promise!Claim(r, a)
      BY <2>2, <2>3, <2>4 DEF Promise!Claim, Holder, Applied
    <2>6. QED
      BY <2>5 DEF PromiseKept, Promise!Next
  <1>4. QED
    BY <1>2, <1>3

LEMMA SendPromise ==
    ASSUME Typed, BroadcastInv, NEW p \in Procs, Send(p)
    PROVE  PromiseKept
  <1> DEFINE r == local[p].req
  <1>1. r \in Requests /\ sends[r] = 0 /\ attempt[r].state # "none"
    BY DEF Send, Typed, JobOK, BroadcastInv, AfterClaim
  <1>2. Holder[r] # None
    BY <1>1 DEF Holder, BroadcastInv
  <1>3. sends' = [sends EXCEPT ![r] = 1] /\ UNCHANGED Holder
    BY <1>1 DEF Send, Holder
  <1>4. \A q \in Requests : chain'[q] = "confirmed" <=> chain[q] = "confirmed"
    BY <1>1 DEF Send, BroadcastInv, Typed, TypeOK
  <1>5. UNCHANGED Applied
    BY <1>4 DEF Applied
  <1>6. Promise!Broadcast(r)
    BY <1>1, <1>2, <1>3, <1>5 DEF Promise!Broadcast, Holder, Applied
  <1>7. QED
    BY <1>1, <1>6 DEF PromiseKept, Promise!Next

LEMMA RecordPromise ==
    ASSUME Typed, NEW p \in Procs,
           \/ RecordSubmitted(p) \/ RecordRejection(p) \/ MarkNeedsRecovery(p)
           \/ RecordObservation(p) \/ DecideByHeight(p)
    PROVE  PromiseKept
  <1> DEFINE r == local[p].req
  <1>1. r \in Requests /\ attempt[r] \in AttemptRow /\ UNCHANGED network
    BY DEF RecordSubmitted, RecordRejection, MarkNeedsRecovery, RecordObservation,
           DecideByHeight, Typed, TypeOK, JobOK
  <1>2. CASE attempt' = attempt
    BY <1>1, <1>2, StutterPromise DEF network
  <1>3. CASE RecordSubmitted(p) /\ attempt' # attempt
    <2> DEFINE row == [attempt[r] EXCEPT !.state = "submitted", !.receipt = "submitted"]
    <2>1. attempt' = [attempt EXCEPT ![r] = row] /\ row.auth = attempt[r].auth
      BY <1>1, <1>3 DEF RecordSubmitted, Typed, TypeOK, AttemptRow
    <2>2. QED
      BY <1>1, <2>1, RewritePromise
  <1>4. CASE RecordRejection(p) /\ attempt' # attempt
    <2> DEFINE row == [attempt[r] EXCEPT !.state = "failed", !.obs = "rejection"]
    <2>1. attempt' = [attempt EXCEPT ![r] = row] /\ row.auth = attempt[r].auth
      BY <1>1, <1>4 DEF RecordRejection, Typed, TypeOK, AttemptRow
    <2>2. QED
      BY <1>1, <2>1, RewritePromise
  <1>5. CASE MarkNeedsRecovery(p) /\ attempt' # attempt
    <2> DEFINE row == [attempt[r] EXCEPT !.state = "needs_recovery"]
    <2>1. attempt' = [attempt EXCEPT ![r] = row] /\ row.auth = attempt[r].auth
      BY <1>1, <1>5 DEF MarkNeedsRecovery, Typed, TypeOK, AttemptRow
    <2>2. QED
      BY <1>1, <2>1, RewritePromise
  <1>6. CASE RecordObservation(p)
    <2> DEFINE s == local[p].finding
               row == [attempt[r] EXCEPT !.state = s, !.obs = local[p].value,
                                         !.receipt = IF s \in Terminal THEN s ELSE @]
    <2>1. attempt' = [attempt EXCEPT ![r] = row] /\ row.auth = attempt[r].auth
      BY <1>1, <1>6 DEF RecordObservation, Typed, TypeOK, AttemptRow
    <2>2. QED
      BY <1>1, <2>1, RewritePromise
  <1>7. CASE DecideByHeight(p) /\ attempt' # attempt
    <2> DEFINE row == [attempt[r] EXCEPT !.state = "needs_recovery", !.obs = "null"]
    <2>1. attempt' = [attempt EXCEPT ![r] = row] /\ row.auth = attempt[r].auth
      BY <1>1, <1>7 DEF DecideByHeight, Typed, TypeOK, AttemptRow
    <2>2. QED
      BY <1>1, <2>1, RewritePromise
  <1>8. QED
    BY <1>2, <1>3, <1>4, <1>5, <1>6, <1>7

\* The cluster confirms a transaction only after it was sent; every other
\* move of the cluster is invisible.
LEMMA EnvironmentPromise ==
    ASSUME Typed, BroadcastInv, NEW r \in Requests, Environment(r)
    PROVE  PromiseKept
  <1>1. attempt' = attempt /\ sends' = sends
    BY DEF Environment, BecomeLate, BecomeStale, Include, SettleBlock, SettledAs, Drop, Cluster, network
  <1>2. CASE Cluster(r, {"processed"}, "confirmed")
    <2>1. sends[r] = 1
      BY <1>2 DEF Cluster, BroadcastInv
    <2>2. Applied' = Applied \cup {r}
      BY <1>2 DEF Cluster, Applied, Typed, TypeOK
    <2>3. Promise!Apply(r)
      BY <1>1, <2>1, <2>2 DEF Promise!Apply, Applied
    <2>4. QED
      BY <2>3 DEF PromiseKept, Promise!Next
  <1>3. CASE UNCHANGED chain
    BY <1>1, <1>3, StutterPromise
  <1>4. CASE \E from \in SUBSET {"pending", "processed", "reverted"},
                to \in {"processed", "reverted", "failed", "pending", "dropped"} :
                Cluster(r, from, to)
    <2>1. \A q \in Requests : chain'[q] = "confirmed" <=> chain[q] = "confirmed"
      BY <1>4 DEF Cluster, Typed, TypeOK
    <2>2. QED
      BY <1>1, <2>1, StutterPromise
  <1>5. CASE SettleBlock(r)
    <2>1. Cluster(r, {"processed"}, "confirmed") \/ Cluster(r, {"reverted"}, "failed")
             \/ Cluster(r, {"processed", "reverted"}, "pending")
      BY <1>5 DEF SettleBlock, SettledAs, Cluster
    <2>2. QED
      BY <2>1, <1>2, <1>4
  <1>6. CASE Include(r) \/ Drop(r)
    BY <1>4, <1>6 DEF Include, Drop
  <1>7. CASE BecomeLate(r) \/ BecomeStale(r)
    BY <1>3, <1>7 DEF BecomeLate, BecomeStale, network
  <1>8. QED
    BY <1>5, <1>6, <1>7 DEF Environment

\* Claim, broadcast and transfer of a request happen in this order and at
\* most once each: the execution backend implements SingleBroadcast.
THEOREM Refinement == Spec => ImplementsSingleBroadcast
  <1>1. Init => Promise!Init
    BY DEF Init, Promise!Init, NoAttempt
  <1>2. Typed /\ BroadcastInv /\ [Next]_vars => [Promise!Next]_(Promise!absvars)
    <2> SUFFICES ASSUME Typed, BroadcastInv, [Next]_vars PROVE PromiseKept
      BY DEF PromiseKept
    <2>1. CASE UNCHANGED vars
      BY <2>1, StutterPromise DEF vars
    <2>2. ASSUME NEW p \in Procs, Execute(p)
          PROVE  PromiseKept
      <3>1. CASE CheckHeight(p) \/ StorageBusy(p)
        BY <3>1, StutterPromise DEF CheckHeight, StorageBusy, network
      <3>2. QED
        BY <2>2, <3>1, ClaimPromise, SendPromise, RecordPromise DEF Execute
    <2>3. ASSUME NEW p \in Procs, Recover(p)
          PROVE  PromiseKept
      <3>1. CASE SecondLook(p) \/ Inspect(p) \/ Query(p) \/ Reread(p)
        BY <3>1, StutterPromise DEF SecondLook, Inspect, Query, Reread, network
      <3>2. QED
        BY <2>3, <3>1, RecordPromise DEF Recover
    <2>4. ASSUME NEW p \in Procs, NEW r \in Requests,
                 \/ \E plan \in Plans : StartPrepare(p, r, plan)
                 \/ \E a \in Auths : StartExecute(p, r, a)
                 \/ \E cmd \in {"status", "recover"} : StartInspection(p, r, cmd)
          PROVE  PromiseKept
      BY <2>4, StutterPromise DEF StartPrepare, StartExecute, StartInspection, network
    <2>5. ASSUME NEW p \in Procs, SavePreparation(p) \/ Abandon(p)
          PROVE  PromiseKept
      BY <2>5, StutterPromise DEF SavePreparation, Abandon, network
    <2>6. QED
      BY <2>1, <2>2, <2>3, <2>4, <2>5, EnvironmentPromise DEF Next
  <1>3. QED
    BY <1>1, <1>2, TypedInvariant, BroadcastInvariant, PTL
       DEF Spec, ImplementsSingleBroadcast, Promise!Spec

-----------------------------------------------------------------------------
(* What is recorded and told is true                                       *)

\* The transaction of r did not take effect: no node took it, or it failed in
\* a block that is not rolled back.
Undone(forks, r) == forks \/ chain[r] \in {"unsent", "reverted", "failed"}

\* What one row of execution_attempts says of the cluster.  A rejection is
\* recorded without a receipt, and only after the send; until an observation
\* or the answer to the send is recorded, there is no receipt.
RowTrue(forks, r) ==
    LET said == {attempt[r].state, attempt[r].receipt}
    IN  /\ attempt[r].state \in {"none", "broadcast_started"} => attempt[r].receipt = "none"
        /\ "submitted" \in said => chain[r] # "unsent"
        /\ "confirmed" \in said => chain[r] = "confirmed"
        /\ "failed" \in said => sends[r] = 1 /\ Undone(forks, r)
        /\ attempt[r].receipt = "failed" => chain[r] # "unsent"

\* What a handler holds, to be written later, says the same: the answer of
\* the node, the state the attempt was read in, the observation.
JobTrue(forks, p) ==
    LET r == local[p].req
    IN  /\ pc[p] = "answered" => chain[r] # "unsent"
        /\ pc[p] = "rejected" => sends[r] = 1 /\ chain[r] = "unsent"
        /\ pc[p] = "querying" /\ local[p].seen = "submitted" => chain[r] # "unsent"
        /\ pc[p] = "observed" =>
              /\ local[p].finding \in {"submitted", "needs_recovery", "confirmed", "failed"}
              /\ local[p].finding = "submitted" => chain[r] # "unsent"
              /\ local[p].finding = "confirmed" => chain[r] = "confirmed"
              /\ local[p].finding = "failed" =>
                    sends[r] = 1 /\ chain[r] # "unsent" /\ Undone(forks, r)

\* What recover told a caller of an outcome that it recovered.
VerdictTrue(forks, v) ==
    /\ v.outcome = "recovered_confirmed" => chain[v.req] = "confirmed"
    /\ v.outcome = "recovered_failed" => sends[v.req] = 1 /\ Undone(forks, v.req)

RowsTrue(forks) == \A r \in Requests : RowTrue(forks, r)
JobsTrue(forks) == \A p \in Procs : pc[p] # "idle" => JobTrue(forks, p)
VerdictsTrue(forks) == \A v \in verdicts : VerdictTrue(forks, v)

TruthInv(forks) == RowsTrue(forks) /\ JobsTrue(forks) /\ VerdictsTrue(forks)

\* What no step of the cluster or of a send takes back.
Irreversible(forks) ==
    \A r \in Requests :
        /\ chain[r] # "unsent" => chain'[r] # "unsent"
        /\ chain[r] = "confirmed" => chain'[r] = "confirmed"
        /\ sends[r] = 1 => sends'[r] = 1
        /\ sends[r] = 1 /\ chain[r] = "unsent" => chain'[r] = "unsent"
        /\ ~forks /\ chain[r] \in {"reverted", "failed"} =>
              chain'[r] \in {"reverted", "failed"}

LEMMA EnvironmentIrreversible ==
    ASSUME NEW forks, forks \/ ~ForksPossible \/ NoRollback,
           Typed, NEW r \in Requests, Environment(r)
    PROVE  Irreversible(forks)
  <1>1. sends' = sends
    BY DEF Environment, BecomeLate, BecomeStale, Include, SettleBlock, SettledAs, Drop,
           Cluster, network
  <1>2. CASE UNCHANGED chain
    BY <1>1, <1>2 DEF Irreversible
  <1>3. ASSUME NEW from \in {"pending", "processed", "reverted"},
               NEW to \in ChainStates \ {"unsent"},
               chain[r] = from, chain' = [chain EXCEPT ![r] = to],
               ~forks /\ from = "reverted" => to = "failed"
        PROVE  Irreversible(forks)
    <2>1. chain'[r] = to /\ \A q \in Requests : q # r => chain'[q] = chain[q]
      BY <1>3 DEF Typed, TypeOK
    <2>2. QED
      BY <1>1, <1>3, <2>1 DEF Irreversible, ChainStates
  <1>4. CASE Include(r) \/ Drop(r)
    BY <1>3, <1>4 DEF Include, Drop, Cluster, ChainStates
  <1>5. CASE SettleBlock(r)
    <2>1. PICK to \in SettledAs(chain[r]) :
             /\ chain[r] \in {"processed", "reverted"}
             /\ chain' = [chain EXCEPT ![r] = to]
      BY <1>5 DEF SettleBlock, Cluster
    <2>2. to \in ChainStates \ {"unsent"} /\ chain'[r] = to
      BY <2>1 DEF SettledAs, ChainStates, Typed, TypeOK
    <2>3. ~forks /\ chain[r] = "reverted" => to = "failed"
      BY <2>1, <2>2 DEF SettledAs, NoRollback
    <2>4. QED
      BY <1>3, <2>1, <2>2, <2>3
  <1>6. CASE BecomeLate(r) \/ BecomeStale(r)
    BY <1>2, <1>6 DEF BecomeLate, BecomeStale, network
  <1>7. QED
    BY <1>4, <1>5, <1>6 DEF Environment

LEMMA SendIrreversible ==
    ASSUME NEW forks, Typed, BroadcastInv, NEW p \in Procs, Send(p)
    PROVE  Irreversible(forks)
  <1> DEFINE r == local[p].req
  <1>1. r \in Requests /\ sends[r] = 0 /\ chain[r] = "unsent"
    BY DEF Send, Typed, JobOK, BroadcastInv
  <1>2. chain' = [chain EXCEPT ![r] = "pending"] \/ chain' = chain
    BY DEF Send
  <1>3. /\ sends' = [sends EXCEPT ![r] = sends[r] + 1]
        /\ \A q \in Requests : q # r => sends'[q] = sends[q] /\ chain'[q] = chain[q]
    BY <1>1, <1>2 DEF Send, Typed, TypeOK
  <1>4. QED
    BY <1>1, <1>3 DEF Irreversible

\* What a transaction has become is never taken back, unless its block is.
LEMMA NextIrreversible ==
    ASSUME NEW forks, forks \/ ~ForksPossible \/ NoRollback,
           Typed, BroadcastInv, [Next]_vars
    PROVE  Irreversible(forks)
  <1>1. CASE UNCHANGED network
    BY <1>1 DEF Irreversible, network
  <1>2. ASSUME NEW p \in Procs, Execute(p)
        PROVE  Irreversible(forks)
    BY <1>1, <1>2, SendIrreversible
       DEF Execute, CheckHeight, Claim, RecordSubmitted, StorageBusy, RecordRejection,
           MarkNeedsRecovery
  <1>3. ASSUME NEW p \in Procs, Recover(p)
        PROVE  Irreversible(forks)
    BY <1>1, <1>3
       DEF Recover, SecondLook, Inspect, Query, RecordObservation, Reread, DecideByHeight
  <1>4. ASSUME NEW p \in Procs,
               \/ \E r \in Requests, plan \in Plans : StartPrepare(p, r, plan)
               \/ \E r \in Requests, a \in Auths : StartExecute(p, r, a)
               \/ \E r \in Requests, cmd \in {"status", "recover"} : StartInspection(p, r, cmd)
               \/ SavePreparation(p)
               \/ Abandon(p)
        PROVE  Irreversible(forks)
    BY <1>1, <1>4 DEF StartPrepare, StartExecute, StartInspection, SavePreparation, Abandon
  <1>5. CASE UNCHANGED vars
    BY <1>1, <1>5 DEF vars, network
  <1>6. QED
    BY <1>2, <1>3, <1>4, <1>5, EnvironmentIrreversible DEF Next

\* So what was true of a row, a handler or a verdict that the step leaves
\* alone stays true.
LEMMA UndoneKept ==
    ASSUME NEW forks, Irreversible(forks), NEW r \in Requests, sends[r] = 1,
           Undone(forks, r)
    PROVE  Undone(forks, r)' /\ sends'[r] = 1
  BY DEF Irreversible, Undone

LEMMA RowKept ==
    ASSUME NEW forks, Irreversible(forks), NEW r \in Requests, RowTrue(forks, r),
           attempt'[r] = attempt[r]
    PROVE  RowTrue(forks, r)'
  BY UndoneKept DEF RowTrue, Irreversible

LEMMA JobKept ==
    ASSUME NEW forks, Irreversible(forks), NEW p \in Procs, JobTrue(forks, p),
           local[p].req \in Requests,
           pc'[p] = pc[p], local'[p] = local[p]
    PROVE  JobTrue(forks, p)'
  BY UndoneKept DEF JobTrue, Irreversible

LEMMA VerdictKept ==
    ASSUME NEW forks, Irreversible(forks), NEW v \in Verdict, VerdictTrue(forks, v)
    PROVE  VerdictTrue(forks, v)'
  BY UndoneKept DEF VerdictTrue, Irreversible, Verdict

\* A step keeps the invariant if what it writes, holds and answers is true
\* afterwards.
LEMMA TruthStep ==
    ASSUME NEW forks, Typed, TruthInv(forks), Irreversible(forks),
           \A r \in Requests : attempt'[r] = attempt[r] \/ RowTrue(forks, r)',
           \A q \in Procs : \/ pc'[q] = pc[q] /\ local'[q] = local[q]
                            \/ pc'[q] # "idle" => JobTrue(forks, q)',
           \A v \in verdicts' : v \in verdicts \/ VerdictTrue(forks, v)'
    PROVE  TruthInv(forks)'
  <1>1. RowsTrue(forks)'
    BY RowKept DEF TruthInv, RowsTrue
  <1>2. JobsTrue(forks)'
    <2>1. \A q \in Procs : pc[q] # "idle" => local[q].req \in Requests
      BY DEF Typed, JobOK
    <2>2. QED
      BY <2>1, JobKept DEF TruthInv, JobsTrue
  <1>3. VerdictsTrue(forks)'
    BY VerdictKept DEF TruthInv, VerdictsTrue, Typed, TypeOK
  <1>4. QED
    BY <1>1, <1>2, <1>3 DEF TruthInv

\* Where a handler goes.
LEMMA Goes ==
    ASSUME Typed, NEW p \in Procs, NEW l, NEW j, Continue(p, l, j)
    PROVE  /\ pc'[p] = l /\ local'[p] = j
           /\ \A q \in Procs : q # p => pc'[q] = pc[q] /\ local'[q] = local[q]
  BY DEF Continue, Typed, TypeOK

\* A handler that returns, leaves the rows alone and answers the truth.
LEMMA ReturnTruth ==
    ASSUME NEW forks, Typed, TruthInv(forks), Irreversible(forks), NEW p \in Procs,
           Return(p),
           \A r \in Requests : attempt'[r] = attempt[r] \/ RowTrue(forks, r)',
           \A v \in verdicts' : v \in verdicts \/ VerdictTrue(forks, v)'
    PROVE  TruthInv(forks)'
  <1>1. pc'[p] = "idle" /\ \A q \in Procs : q # p => pc'[q] = pc[q] /\ local'[q] = local[q]
    BY Goes DEF Return
  <1>2. QED
    BY <1>1, TruthStep

\* A handler that goes to a location where it holds nothing that must be true.
Plain == {"compiling", "checking", "validated", "claimed", "unknown", "second_look",
          "inspecting", "reread", "deciding"}

LEMMA PlainTruth ==
    ASSUME NEW forks, Typed, TruthInv(forks), Irreversible(forks), NEW p \in Procs,
           NEW l \in Plain, NEW j,
           Continue(p, l, j),
           \A r \in Requests : attempt'[r] = attempt[r] \/ RowTrue(forks, r)',
           \A v \in verdicts' : v \in verdicts \/ VerdictTrue(forks, v)'
    PROVE  TruthInv(forks)'
  <1>1. pc'[p] = l /\ \A q \in Procs : q # p => pc'[q] = pc[q] /\ local'[q] = local[q]
    BY Goes
  <1>2. JobTrue(forks, p)'
    BY <1>1 DEF JobTrue, Plain
  <1>3. QED
    BY <1>1, <1>2, TruthStep

\* Of the answers only the two that recover an outcome are looked at here.
LEMMA AnswerTruth ==
    ASSUME NEW forks, NEW r, NEW o, NEW b, Answer(r, o, b),
           VerdictTrue(forks, [req |-> r, outcome |-> o, remat |-> b])'
    PROVE  \A v \in verdicts' : v \in verdicts \/ VerdictTrue(forks, v)'
  BY DEF Answer

LEMMA OtherAnswerTruth ==
    ASSUME NEW forks, NEW r, NEW o, NEW b, Answer(r, o, b),
           o \notin {"recovered_confirmed", "recovered_failed"}
    PROVE  \A v \in verdicts' : v \in verdicts \/ VerdictTrue(forks, v)'
  <1>1. VerdictTrue(forks, [req |-> r, outcome |-> o, remat |-> b])'
    BY DEF VerdictTrue
  <1>2. QED
    BY <1>1, AnswerTruth

\* recover answers from a row that is true.
LEMMA AnswerTerminalTruth ==
    ASSUME NEW forks, TruthInv(forks), Irreversible(forks), NEW r \in Requests,
           attempt[r].state \in Terminal,
           AnswerTerminal(r)
    PROVE  \A v \in verdicts' : v \in verdicts \/ VerdictTrue(forks, v)'
  <1>1. RowTrue(forks, r)
    BY DEF TruthInv, RowsTrue
  <1>2. CASE attempt[r].state = "confirmed"
    <2> DEFINE v == [req |-> r, outcome |-> "recovered_confirmed", remat |-> FALSE]
    <2>1. chain'[r] = "confirmed"
      BY <1>1, <1>2 DEF RowTrue, Irreversible
    <2>2. VerdictTrue(forks, v)'
      BY <2>1 DEF VerdictTrue
    <2>3. QED
      BY <1>2, <2>2, AnswerTruth DEF AnswerTerminal
  <1>3. CASE attempt[r].state = "failed"
    <2> DEFINE v == [req |-> r, outcome |-> "recovered_failed", remat |-> TRUE]
    <2>1. Undone(forks, r)' /\ sends'[r] = 1
      BY <1>1, <1>3, UndoneKept DEF RowTrue
    <2>2. VerdictTrue(forks, v)'
      BY <2>1 DEF VerdictTrue
    <2>3. QED
      BY <1>3, <2>2, AnswerTruth DEF AnswerTerminal
  <1>4. QED
    BY <1>2, <1>3 DEF Terminal

LEMMA InitTruth ==
    ASSUME NEW forks, Init
    PROVE  TruthInv(forks)
  BY DEF Init, TruthInv, RowsTrue, RowTrue, JobsTrue, VerdictsTrue, NoAttempt

LEMMA PrepareTruth ==
    ASSUME NEW forks, Typed, TruthInv(forks), Irreversible(forks), NEW p \in Procs,
           \/ \E r \in Requests, plan \in Plans : StartPrepare(p, r, plan)
           \/ \E r \in Requests, a \in Auths : StartExecute(p, r, a)
           \/ SavePreparation(p)
           \/ CheckHeight(p)
           \/ StorageBusy(p)
           \/ Abandon(p)
    PROVE  TruthInv(forks)'
  <1>1. UNCHANGED <<attempt, verdicts>>
    BY DEF StartPrepare, StartExecute, SavePreparation, CheckHeight, StorageBusy, Abandon
  <1>2. \/ Return(p)
        \/ \E l \in Plain : \E j : Continue(p, l, j)
        \/ UNCHANGED <<pc, local>>
    BY DEF StartPrepare, StartExecute, SavePreparation, CheckHeight, StorageBusy, Abandon, Plain
  <1>3. QED
    BY <1>1, <1>2, ReturnTruth, PlainTruth, TruthStep

LEMMA ClaimTruth ==
    ASSUME NEW forks, Typed, TruthInv(forks), Irreversible(forks), NEW p \in Procs, Claim(p)
    PROVE  TruthInv(forks)'
  <1>0. PICK r \in Requests, a \in Auths : r = local[p].req /\ a = local[p].auth
    BY DEF Claim, Typed, JobOK
  <1> DEFINE row == [NoAttempt EXCEPT !.state = "broadcast_started", !.auth = a]
  <1>1. verdicts' = verdicts
    BY DEF Claim
  <1>2. CASE Taken(r, a)
    BY <1>0, <1>1, <1>2, ReturnTruth DEF Claim
  <1>3. CASE ~Taken(r, a)
    <2>1. /\ attempt'[r] = row /\ \A q \in Requests : q # r => attempt'[q] = attempt[q]
          /\ Continue(p, "claimed", [local[p] EXCEPT !.auth = None])
      BY <1>0, <1>3 DEF Claim, Typed, TypeOK
    <2>2. RowTrue(forks, r)'
      BY <2>1 DEF RowTrue, NoAttempt
    <2>3. QED
      BY <1>1, <2>1, <2>2, PlainTruth DEF Plain
  <1>4. QED
    BY <1>2, <1>3

\* The node's answer, and its JSON-RPC error, say what became of the
\* transaction.
LEMMA SendTruth ==
    ASSUME NEW forks, Typed, BroadcastInv, TruthInv(forks), Irreversible(forks),
           NEW p \in Procs, Send(p)
    PROVE  TruthInv(forks)'
  <1> DEFINE r == local[p].req
  <1>1. /\ r \in Requests /\ sends[r] = 0 /\ chain[r] = "unsent"
        /\ UNCHANGED <<attempt, verdicts>>
    BY DEF Send, Typed, JobOK, BroadcastInv
  <1>2. PICK answer \in {"answered", "rejected", "unknown"} :
           /\ Continue(p, answer, local[p])
           /\ \/ answer # "rejected" /\ chain' = [chain EXCEPT ![r] = "pending"]
              \/ answer # "answered" /\ UNCHANGED chain
    BY DEF Send
  <1>3. /\ answer = "answered" => chain'[r] # "unsent"
        /\ answer = "rejected" => sends'[r] = 1 /\ chain'[r] = "unsent"
    BY <1>1, <1>2 DEF Send, Typed, TypeOK
  <1>4. /\ pc'[p] = answer /\ local'[p] = local[p]
        /\ \A q \in Procs : q # p => pc'[q] = pc[q] /\ local'[q] = local[q]
    BY <1>2, Goes
  <1>5. JobTrue(forks, p)'
    BY <1>3, <1>4 DEF JobTrue
  <1>6. QED
    BY <1>1, <1>4, <1>5, TruthStep

\* What the sender records of its own send is true.
LEMMA RecordTruth ==
    ASSUME NEW forks, Typed, TruthInv(forks), Irreversible(forks), NEW p \in Procs,
           RecordSubmitted(p) \/ RecordRejection(p) \/ MarkNeedsRecovery(p)
    PROVE  TruthInv(forks)'
  <1>0. PICK r \in Requests : r = local[p].req
    BY DEF RecordSubmitted, RecordRejection, MarkNeedsRecovery, Typed, JobOK
  <1>1. /\ attempt[r] \in AttemptRow /\ RowTrue(forks, r) /\ JobTrue(forks, p)
        /\ verdicts' = verdicts /\ UNCHANGED network /\ Return(p)
    BY <1>0 DEF RecordSubmitted, RecordRejection, MarkNeedsRecovery, Typed, TypeOK, JobOK,
           TruthInv, RowsTrue, JobsTrue
  <1>2. SUFFICES ASSUME attempt' # attempt
                 PROVE  /\ RowTrue(forks, r)'
                        /\ \A q \in Requests : q # r => attempt'[q] = attempt[q]
    BY <1>1, ReturnTruth
  <1>3. attempt[r].state = "broadcast_started" /\ attempt[r].receipt = "none"
    BY <1>0, <1>1, <1>2 DEF RecordSubmitted, RecordRejection, MarkNeedsRecovery, RowTrue
  <1> USE DEF Typed, TypeOK, AttemptRow, RowTrue, JobTrue, network
  <1>4. CASE RecordSubmitted(p)
    BY <1>0, <1>1, <1>3, <1>4 DEF RecordSubmitted
  <1>5. CASE RecordRejection(p)
    BY <1>0, <1>1, <1>3, <1>5 DEF RecordRejection, Undone
  <1>6. CASE MarkNeedsRecovery(p)
    BY <1>0, <1>1, <1>3, <1>6 DEF MarkNeedsRecovery
  <1>7. QED
    BY <1>4, <1>5, <1>6

LEMMA InspectionTruth ==
    ASSUME NEW forks, Typed, TruthInv(forks), Irreversible(forks), NEW p \in Procs,
           \/ \E r \in Requests, cmd \in {"status", "recover"} : StartInspection(p, r, cmd)
           \/ SecondLook(p)
           \/ Inspect(p)
    PROVE  TruthInv(forks)'
  <1>1. attempt' = attempt
    BY DEF StartInspection, SecondLook, Inspect
  <1>2. ASSUME NEW r \in Requests, NEW j \in Job, j.req = r, j.seen = attempt[r].state,
               Continue(p, "querying", j), verdicts' = verdicts
        PROVE  TruthInv(forks)'
    <2>1. j.seen = "submitted" => chain'[r] # "unsent"
      BY <1>2 DEF TruthInv, RowsTrue, RowTrue, Irreversible
    <2>2. /\ pc'[p] = "querying" /\ local'[p] = j
          /\ \A q \in Procs : q # p => pc'[q] = pc[q] /\ local'[q] = local[q]
      BY <1>2, Goes
    <2>3. JobTrue(forks, p)'
      BY <1>2, <2>1, <2>2 DEF JobTrue
    <2>4. QED
      BY <1>1, <1>2, <2>2, <2>3, TruthStep
  <1>3. ASSUME NEW r \in Requests, NEW cmd \in {"status", "recover"}, StartInspection(p, r, cmd)
        PROVE  TruthInv(forks)'
    <2> DEFINE j == [NoJob EXCEPT !.req = r, !.cmd = cmd, !.seen = attempt[r].state]
    <2>1. j \in Job /\ j.req = r /\ j.seen = attempt[r].state
      BY NoJobType DEF Job, NoJob, Typed, TypeOK, AttemptRow
    <2>2. CASE attempt[r].state \in Terminal
      <3>1. UNCHANGED <<pc, local>> /\ (AnswerTerminal(r) \/ UNCHANGED verdicts)
        BY <1>3, <2>2 DEF StartInspection, Terminal
      <3>2. QED
        BY <1>1, <2>2, <3>1, AnswerTerminalTruth, TruthStep
    <2>3. CASE attempt[r].state \notin Terminal
      <3> HIDE DEF j
      <3>1. verdicts' = verdicts /\ \E l \in Plain \cup {"querying"} : Continue(p, l, j)
        BY <1>3, <2>3 DEF StartInspection, Plain, j
      <3>2. QED
        BY <1>1, <1>2, <2>1, <3>1, PlainTruth
    <2>4. QED
      BY <2>2, <2>3
  <1>4. CASE SecondLook(p)
    <2> DEFINE r == local[p].req
               j == [local[p] EXCEPT !.cmd = "fallback", !.seen = attempt[r].state]
    <2>1. r \in Requests /\ j \in Job /\ j.req = r /\ j.seen = attempt[r].state
      BY <1>4 DEF SecondLook, Job, Typed, TypeOK, JobOK, AttemptRow
    <2> HIDE DEF j
    <2>2. \/ verdicts' = verdicts /\ \E l \in Plain \cup {"querying"} : Continue(p, l, j)
          \/ Return(p) /\ \E q : Answer(q, "failed_before_broadcast", FALSE)
      BY <1>4 DEF SecondLook, Plain, j
    <2>3. CASE verdicts' = verdicts /\ Continue(p, "querying", j)
      BY <1>2, <2>1, <2>3
    <2>4. CASE verdicts' = verdicts /\ \E l \in Plain : Continue(p, l, j)
      BY <1>1, <2>4, PlainTruth
    <2>5. CASE Return(p) /\ \E q : Answer(q, "failed_before_broadcast", FALSE)
      BY <1>1, <2>5, ReturnTruth, OtherAnswerTruth
    <2>6. QED
      BY <2>2, <2>3, <2>4, <2>5
  <1>5. CASE Inspect(p)
    <2>1. Return(p) /\ (UNCHANGED verdicts \/
              \E b : Answer(local[p].req, "failed_before_broadcast", b))
      BY <1>5 DEF Inspect
    <2>2. QED
      BY <1>1, <2>1, ReturnTruth, OtherAnswerTruth
  <1>6. QED
    BY <1>3, <1>4, <1>5

\* What _refresh_attempt derives is true when it is derived.
LEMMA QueryTruth ==
    ASSUME NEW forks, Typed, BroadcastInv, TruthInv(forks), Irreversible(forks),
           NEW p \in Procs, Query(p)
    PROVE  TruthInv(forks)'
  <1> DEFINE r == local[p].req
             f(v) == DerivedState(v, local[p].seen)
             j(v) == [local[p] EXCEPT !.seen = "none", !.finding = f(v),
                                      !.value = IF v = "null" THEN "null" ELSE "value"]
  <1>1. /\ r \in Requests /\ local[p] \in Job /\ JobTrue(forks, p) /\ pc[p] = "querying"
        /\ UNCHANGED <<attempt, verdicts, chain, sends>>
    BY DEF Query, Typed, TypeOK, JobOK, TruthInv, JobsTrue, network
  <1>2. PICK v \in Observable(r) : Continue(p, "observed", j(v))
    BY DEF Query
  <1>3. v \in {"null", "processed", "err", "confirmed"}
    BY <1>1, <1>2, ObservableType DEF Typed
  <1>4. /\ v = "processed" => chain[r] = "processed"
        /\ v = "err" => chain[r] \in {"reverted", "failed"}
        /\ v = "confirmed" => chain[r] = "confirmed"
    BY <1>1, <1>2 DEF Observable, Typed, TypeOK, ChainStates
  <1>5. chain[r] # "unsent" => sends[r] = 1
    BY <1>1 DEF BroadcastInv
  <1>6. /\ f(v) \in {"submitted", "needs_recovery", "confirmed", "failed"}
        /\ f(v) = "submitted" => chain[r] # "unsent"
        /\ f(v) = "confirmed" => chain[r] = "confirmed"
        /\ f(v) = "failed" => sends[r] = 1 /\ chain[r] # "unsent" /\ Undone(forks, r)
    BY <1>1, <1>3, <1>4, <1>5 DEF DerivedState, JobTrue, Undone
  <1> HIDE DEF f
  <1>7. j(v).req = r /\ j(v).finding = f(v)
    BY <1>1 DEF Job
  <1> HIDE DEF j
  <1>8. /\ pc'[p] = "observed" /\ local'[p] = j(v)
        /\ \A q \in Procs : q # p => pc'[q] = pc[q] /\ local'[q] = local[q]
    BY <1>2, Goes
  <1>9. JobTrue(forks, p)'
    BY <1>1, <1>6, <1>7, <1>8 DEF JobTrue, Undone
  <1>10. QED
    BY <1>1, <1>8, <1>9, TruthStep

\* It is still true when it overwrites whatever the row says by then.
LEMMA RecordObservationTruth ==
    ASSUME NEW forks, Typed, TruthInv(forks), Irreversible(forks), NEW p \in Procs,
           RecordObservation(p)
    PROVE  TruthInv(forks)'
  <1>0. PICK r \in Requests, s \in AttemptStates : r = local[p].req /\ s = local[p].finding
    BY DEF RecordObservation, Typed, TypeOK, JobOK, Job
  <1>1. /\ attempt[r] \in AttemptRow /\ RowTrue(forks, r) /\ JobTrue(forks, p)
        /\ pc[p] = "observed"
        /\ UNCHANGED <<verdicts, chain, sends>>
    BY <1>0 DEF RecordObservation, Typed, TypeOK, JobOK, TruthInv, RowsTrue, JobsTrue, network
  <1>2. /\ attempt'[r].state = s
        /\ attempt'[r].receipt = IF s \in Terminal THEN s ELSE attempt[r].receipt
        /\ \A q \in Requests : q # r => attempt'[q] = attempt[q]
    BY <1>0, <1>1 DEF RecordObservation, Typed, TypeOK, AttemptRow
  <1>3. RowTrue(forks, r)'
    BY <1>0, <1>1, <1>2 DEF RowTrue, JobTrue, Terminal, Undone
  <1>4. \E j : Continue(p, "reread", j)
    BY DEF RecordObservation
  <1>5. QED
    BY <1>1, <1>2, <1>3, <1>4, PlainTruth DEF Plain

LEMMA AnswersTruth ==
    ASSUME NEW forks, Typed, TruthInv(forks), Irreversible(forks), NEW p \in Procs,
           Reread(p) \/ DecideByHeight(p)
    PROVE  TruthInv(forks)'
  <1>0. PICK r \in Requests : r = local[p].req
    BY DEF Reread, DecideByHeight, Typed, JobOK
  <1>1. attempt[r] \in AttemptRow /\ RowTrue(forks, r) /\ UNCHANGED network
    BY DEF Reread, DecideByHeight, Typed, TypeOK, TruthInv, RowsTrue
  <1>2. CASE Reread(p)
    <2>1. attempt' = attempt
      BY <1>2 DEF Reread
    <2>2. \/ Return(p) /\ \/ UNCHANGED verdicts
                          \/ Answer(r, "failed_before_broadcast", FALSE)
                          \/ attempt[r].state \in Terminal /\ AnswerTerminal(r)
                          \/ Answer(r, "submitted", FALSE)
          \/ Continue(p, "deciding", local[p]) /\ UNCHANGED verdicts
      BY <1>0, <1>2 DEF Reread
    <2>3. QED
      BY <1>1, <2>1, <2>2, ReturnTruth, PlainTruth, OtherAnswerTruth, AnswerTerminalTruth DEF Plain
  <1>3. CASE DecideByHeight(p)
    <2>1. /\ Return(p)
          /\ \E o \in {"not_found_after_expiry_needs_reconciliation", "needs_recovery"} :
                Answer(r, o, FALSE)
      BY <1>0, <1>3 DEF DecideByHeight
    <2>2. CASE attempt' # attempt
      <3> DEFINE row == [attempt[r] EXCEPT !.state = "needs_recovery", !.obs = "null"]
      <3>0. attempt' = [attempt EXCEPT ![r] = row]
        BY <1>0, <1>3, <2>2 DEF DecideByHeight, Typed, TypeOK
      <3>1. /\ attempt'[r].state = "needs_recovery" /\ attempt'[r].receipt = attempt[r].receipt
            /\ \A q \in Requests : q # r => attempt'[q] = attempt[q]
        BY <1>1, <3>0 DEF Typed, TypeOK, AttemptRow
      <3>2. RowTrue(forks, r)'
        BY <1>1, <3>1 DEF RowTrue, Undone, network
      <3>3. QED
        BY <2>1, <3>1, <3>2, ReturnTruth, OtherAnswerTruth
    <2>3. CASE attempt' = attempt
      BY <2>1, <2>3, ReturnTruth, OtherAnswerTruth
    <2>4. QED
      BY <2>2, <2>3
  <1>4. QED
    BY <1>2, <1>3

LEMMA NextTruth ==
    ASSUME NEW forks, forks \/ ~ForksPossible \/ NoRollback,
           Typed, BroadcastInv, TruthInv(forks), [Next]_vars
    PROVE  TruthInv(forks)'
  <1>1. Irreversible(forks)
    BY NextIrreversible
  <1>2. CASE UNCHANGED vars
    BY <1>1, <1>2, TruthStep DEF vars
  <1>3. ASSUME NEW p \in Procs, Execute(p)
        PROVE  TruthInv(forks)'
    BY <1>1, <1>3, PrepareTruth, ClaimTruth, SendTruth, RecordTruth DEF Execute
  <1>4. ASSUME NEW p \in Procs, Recover(p)
        PROVE  TruthInv(forks)'
    BY <1>1, <1>4, InspectionTruth, QueryTruth, RecordObservationTruth, AnswersTruth DEF Recover
  <1>5. ASSUME NEW r \in Requests, Environment(r)
        PROVE  TruthInv(forks)'
    <2>1. UNCHANGED <<attempt, pc, local, verdicts>>
      BY <1>5 DEF Environment, BecomeLate, BecomeStale, Include, SettleBlock, SettledAs, Drop,
             Cluster
    <2>2. QED
      BY <1>1, <2>1, TruthStep
  <1>6. QED
    BY <1>1, <1>2, <1>3, <1>4, <1>5, PrepareTruth, InspectionTruth DEF Next

\* Rows, handlers and verdicts say what the cluster did.
THEOREM TruthInvariant == Spec => []TruthInv(ForksPossible)
  <1>1. Init => TruthInv(ForksPossible)
    BY InitTruth
  <1>2. Typed /\ BroadcastInv /\ TruthInv(ForksPossible) /\ [Next]_vars
           => TruthInv(ForksPossible)'
    BY NextTruth, ForksAssumption
  <1>3. QED
    BY <1>1, <1>2, TypedInvariant, BroadcastInvariant, PTL DEF Spec

\* The state and the receipt that are on record are true, although any
\* observer overwrites the row without looking at it (record_observation).
THEOREM RecordsTrue == Spec => []RecordedStateIsTrue
  <1>1. TruthInv(ForksPossible) => RecordedStateIsTrue
    BY DEF TruthInv, RowsTrue, RowTrue, Undone, RecordedStateIsTrue
  <1>2. QED
    BY <1>1, TruthInvariant, PTL

\* A confirmation and a recovered failure that recover told a caller of remain
\* true, whatever overlaps, dies or is asked again.
THEOREM RecoveredTrueForever == Spec => []RecoveredOutcomesStay
  <1>1. TruthInv(ForksPossible) => RecoveredOutcomesStay
    BY DEF TruthInv, VerdictsTrue, VerdictTrue, Undone, RecoveredOutcomesStay, MayTransfer
  <1>2. QED
    BY <1>1, TruthInvariant, PTL

\* A receipt is written by the claim, by the sender while the row is in
\* broadcast_started, and by an observer that saw the end.
LEMMA ReceiptMoves ==
    ASSUME Typed, [Next]_vars, NEW r \in Requests
    PROVE  \/ attempt'[r].receipt = attempt[r].receipt
           \/ attempt[r].state \in {"none", "broadcast_started"}
           \/ attempt'[r].receipt \in Terminal
  <1>1. CASE UNCHANGED attempt
    BY <1>1
  <1>2. ASSUME NEW p \in Procs, NEW q \in Requests, q = local[p].req,
               RecordSubmitted(p) \/ RecordRejection(p) \/ MarkNeedsRecovery(p) \/ Claim(p)
        PROVE  attempt'[r] = attempt[r] \/ attempt[r].state \in {"none", "broadcast_started"}
    BY <1>2 DEF RecordSubmitted, RecordRejection, MarkNeedsRecovery, Claim, Taken, Typed, TypeOK
  <1>3. ASSUME NEW p \in Procs, NEW q \in Requests, q = local[p].req,
               RecordObservation(p) \/ DecideByHeight(p)
        PROVE  attempt'[r].receipt \in {attempt[r].receipt} \cup Terminal
    <2>1. attempt[q] \in AttemptRow
      BY DEF Typed, TypeOK
    <2>2. CASE RecordObservation(p)
      BY <1>3, <2>1, <2>2 DEF RecordObservation, Typed, TypeOK, AttemptRow
    <2>3. CASE DecideByHeight(p)
      <3> DEFINE row == [attempt[q] EXCEPT !.state = "needs_recovery", !.obs = "null"]
      <3>1. row.receipt = attempt[q].receipt
        BY <2>1 DEF AttemptRow
      <3>2. attempt' = [attempt EXCEPT ![q] = row] \/ attempt' = attempt
        BY <1>3, <2>3 DEF DecideByHeight, Typed, TypeOK
      <3>3. QED
        BY <3>1, <3>2 DEF Typed, TypeOK
    <2>4. QED
      BY <1>3, <2>2, <2>3
  <1>4. \A p \in Procs : pc[p] # "idle" => local[p].req \in Requests
    BY DEF Typed, JobOK
  <1>5. ASSUME NEW p \in Procs, Execute(p)
        PROVE  \/ UNCHANGED attempt
               \/ /\ local[p].req \in Requests
                  /\ RecordSubmitted(p) \/ RecordRejection(p) \/ MarkNeedsRecovery(p) \/ Claim(p)
    BY <1>4, <1>5 DEF Execute, CheckHeight, Claim, Send, StorageBusy, RecordSubmitted,
           RecordRejection, MarkNeedsRecovery
  <1>6. ASSUME NEW p \in Procs, Recover(p)
        PROVE  \/ UNCHANGED attempt
               \/ local[p].req \in Requests /\ (RecordObservation(p) \/ DecideByHeight(p))
    BY <1>4, <1>6 DEF Recover, SecondLook, Inspect, Query, Reread, RecordObservation, DecideByHeight
  <1>7. ASSUME NEW p \in Procs,
               \/ \E q \in Requests, plan \in Plans : StartPrepare(p, q, plan)
               \/ \E q \in Requests, a \in Auths : StartExecute(p, q, a)
               \/ \E q \in Requests, cmd \in {"status", "recover"} : StartInspection(p, q, cmd)
               \/ SavePreparation(p)
               \/ Abandon(p)
        PROVE  UNCHANGED attempt
    BY <1>7 DEF StartPrepare, StartExecute, StartInspection, SavePreparation, Abandon
  <1>8. ASSUME NEW q \in Requests, Environment(q)
        PROVE  UNCHANGED attempt
    BY <1>8 DEF Environment, BecomeLate, BecomeStale, Include, SettleBlock, SettledAs, Drop, Cluster
  <1>9. CASE UNCHANGED vars
    BY <1>9 DEF vars
  <1>10. QED
    BY <1>1, <1>2, <1>3, <1>5, <1>6, <1>7, <1>8, <1>9 DEF Next

\* prepared_executions is written by save and by expire.
LEMMA PreparationMoves ==
    ASSUME Typed, [Next]_vars
    PROVE  \/ UNCHANGED prep
           \/ \E r \in Requests : Expire(r)
           \/ \E p \in Procs : SavePreparation(p)
  <1>1. ASSUME NEW p \in Procs, CheckHeight(p) \/ Inspect(p)
        PROVE  UNCHANGED prep \/ \E r \in Requests : Expire(r)
    <2>1. local[p].req \in Requests
      BY <1>1 DEF CheckHeight, Inspect, Typed, JobOK
    <2>2. QED
      BY <1>1, <2>1 DEF CheckHeight, Inspect
  <1>2. ASSUME NEW p \in Procs, NEW r \in Requests, \E a \in Auths : StartExecute(p, r, a)
        PROVE  UNCHANGED prep \/ Expire(r)
    BY <1>2 DEF StartExecute
  <1>3. ASSUME NEW p \in Procs,
               \/ \E r \in Requests, plan \in Plans : StartPrepare(p, r, plan)
               \/ \E r \in Requests, cmd \in {"status", "recover"} : StartInspection(p, r, cmd)
               \/ Execute(p) /\ ~CheckHeight(p)
               \/ Recover(p) /\ ~Inspect(p)
               \/ Abandon(p)
        PROVE  UNCHANGED prep
    BY <1>3 DEF StartPrepare, StartInspection, Execute, Claim, Send, RecordSubmitted,
           StorageBusy, RecordRejection, MarkNeedsRecovery, Recover, SecondLook, Query,
           RecordObservation, Reread, DecideByHeight, Abandon
  <1>4. ASSUME NEW r \in Requests, Environment(r)
        PROVE  UNCHANGED prep
    BY <1>4 DEF Environment, BecomeLate, BecomeStale, Include, SettleBlock, Drop, Cluster
  <1>5. QED
    BY <1>1, <1>2, <1>3, <1>4 DEF Next, vars

\* So a stored message is never replaced by that of another plan.
LEMMA StoredPlansStay ==
    ASSUME Typed, [Next]_vars, NEW r \in Requests, prep[r].state # "none"
    PROVE  prep'[r].state # "none" /\ prep'[r].plan = prep[r].plan
  <1>1. CASE \E s \in Requests : Expire(s)
    <2>1. prep[r] \in PrepRow
      BY DEF Typed, TypeOK
    <2>2. QED
      BY <1>1, <2>1 DEF Expire, PrepRow, Typed, TypeOK
  <1>2. ASSUME NEW p \in Procs, SavePreparation(p)
        PROVE  prep'[r] = prep[r]
    BY <1>2 DEF SavePreparation, Blocking, Typed, TypeOK, JobOK
  <1>3. QED
    BY <1>1, <1>2, PreparationMoves

\* And a receipt is never taken back.
LEMMA ReceiptsStay ==
    ASSUME NEW forks, Typed, TruthInv(forks), [Next]_vars,
           NEW r \in Requests, attempt[r].receipt # "none"
    PROVE  attempt'[r].receipt # "none"
  <1>1. RowTrue(forks, r)
    BY DEF TruthInv, RowsTrue
  <1>2. QED
    BY <1>1, ReceiptMoves DEF RowTrue, Terminal

\* Where blocks are not rolled back, a final receipt is never replaced by
\* another: whatever a late observer writes, it has seen the same end.
THEOREM ReceiptNeverReplaced ==
    ASSUME ~ForksPossible
    PROVE  Spec => ReceiptDurable
  <1> DEFINE Durable == \A r \in Requests :
                attempt[r].receipt \in Final => attempt'[r].receipt = attempt[r].receipt
  <1>1. ASSUME Typed, BroadcastInv, TruthInv(ForksPossible), TruthInv(ForksPossible)', [Next]_vars
        PROVE  Durable
    <2> SUFFICES ASSUME NEW r \in Requests, attempt[r].receipt \in Final
                 PROVE  attempt'[r].receipt = attempt[r].receipt
      OBVIOUS
    <2>1. RowTrue(ForksPossible, r) /\ RowTrue(ForksPossible, r)'
      BY <1>1 DEF TruthInv, RowsTrue
    <2>2. Irreversible(ForksPossible)
      BY <1>1, NextIrreversible
    <2>3. \/ attempt'[r].receipt = attempt[r].receipt
          \/ attempt'[r].receipt \in Terminal
      BY <1>1, <2>1, ReceiptMoves DEF RowTrue, Final
    <2>4. CASE attempt[r].receipt = "confirmed"
      <3>1. chain'[r] = "confirmed"
        BY <2>1, <2>2, <2>4 DEF RowTrue, Irreversible
      <3>2. QED
        BY <2>1, <2>3, <2>4, <3>1 DEF RowTrue, Undone, Terminal
    <2>5. CASE attempt[r].receipt = "failed"
      <3>1. chain'[r] \in {"reverted", "failed"}
        BY <2>1, <2>2, <2>5 DEF RowTrue, Undone, Irreversible
      <3>2. QED
        BY <2>1, <2>3, <2>5, <3>1 DEF RowTrue, Terminal
    <2>6. QED
      BY <2>4, <2>5 DEF Final
  <1> HIDE DEF Durable
  <1>2. Typed /\ BroadcastInv /\ TruthInv(ForksPossible) /\ TruthInv(ForksPossible)' /\ [Next]_vars
           => [Durable]_vars
    BY <1>1
  <1>3. Spec => [][Durable]_vars
    BY <1>2, TypedInvariant, BroadcastInvariant, TruthInvariant, PTL DEF Spec
  <1>4. QED
    BY <1>3 DEF Durable, ReceiptDurable

-----------------------------------------------------------------------------
(* Offers, whatever overlaps                                               *)

\* No row comes back from expired.
LEMMA ExpiredStays ==
    ASSUME Typed, [Next]_vars, NEW r \in Requests, prep[r].state = "expired"
    PROVE  prep'[r].state = "expired"
  <1>1. CASE \E s \in Requests : Expire(s)
    <2>1. prep[r] \in PrepRow
      BY DEF Typed, TypeOK
    <2>2. QED
      BY <1>1, <2>1 DEF Expire, PrepRow, Typed, TypeOK
  <1>2. ASSUME NEW p \in Procs, SavePreparation(p)
        PROVE  prep'[r] = prep[r]
    BY <1>2 DEF SavePreparation, Blocking, Typed, TypeOK, JobOK
  <1>3. QED
    BY <1>1, <1>2, PreparationMoves

\* recover offers a recorded failure, or what it has marked expired itself.
OfferKnown(v) ==
    v.remat => v.outcome = "recovered_failed" \/ prep[v.req].state = "expired"

OffersKnown == \A v \in verdicts : OfferKnown(v)

LEMMA AnswerKnown ==
    ASSUME NEW r, NEW o, Answer(r, o, FALSE) \/ AnswerTerminal(r)
    PROVE  \A v \in verdicts' : v \in verdicts \/ OfferKnown(v)'
  BY DEF Answer, AnswerTerminal, OfferKnown

LEMMA InspectKnown ==
    ASSUME Typed, NEW p \in Procs, Inspect(p)
    PROVE  \A v \in verdicts' : v \in verdicts \/ OfferKnown(v)'
  <1>1. PICK r \in Requests : r = local[p].req
    BY DEF Inspect, Typed, JobOK
  <1> DEFINE expired == prep[r].state = "expired" \/ r \in late \cup stale
  <1>2. CASE expired
    <2>1. prep'[r].state = "expired"
      BY <1>1, <1>2 DEF Inspect, Expire, Typed, TypeOK, PrepRow
    <2>2. UNCHANGED verdicts \/ \E o, b : Answer(r, o, b)
      BY <1>1 DEF Inspect
    <2>3. QED
      BY <2>1, <2>2 DEF Answer, OfferKnown
  <1>3. CASE ~expired
    <2>1. UNCHANGED verdicts \/ \E o : Answer(r, o, FALSE)
      BY <1>1, <1>3 DEF Inspect
    <2>2. QED
      BY <2>1, AnswerKnown
  <1>4. QED
    BY <1>2, <1>3

LEMMA NextKnown == Typed /\ OffersKnown /\ [Next]_vars => OffersKnown'
  <1> SUFFICES ASSUME Typed, OffersKnown, [Next]_vars
               PROVE  OffersKnown'
    OBVIOUS
  <1>1. \A v \in verdicts' : v \in verdicts \/ OfferKnown(v)'
    <2>1. CASE UNCHANGED verdicts
      BY <2>1
    <2>2. ASSUME NEW p \in Procs, NEW r \in Requests,
                 \E cmd \in {"status", "recover"} : StartInspection(p, r, cmd)
          PROVE  \A v \in verdicts' : v \in verdicts \/ OfferKnown(v)'
      <3>1. UNCHANGED verdicts \/ AnswerTerminal(r)
        BY <2>2 DEF StartInspection
      <3>2. QED
        BY <3>1, AnswerKnown
    <2>3. ASSUME NEW p \in Procs, SecondLook(p) \/ Reread(p) \/ DecideByHeight(p)
          PROVE  \A v \in verdicts' : v \in verdicts \/ OfferKnown(v)'
      <3>1. UNCHANGED verdicts \/ AnswerTerminal(local[p].req)
            \/ \E o : Answer(local[p].req, o, FALSE)
        BY <2>3 DEF SecondLook, Reread, DecideByHeight
      <3>2. QED
        BY <3>1, AnswerKnown
    <2>4. ASSUME NEW p \in Procs,
                 \/ \E r \in Requests, plan \in Plans : StartPrepare(p, r, plan)
                 \/ \E r \in Requests, a \in Auths : StartExecute(p, r, a)
                 \/ SavePreparation(p) \/ Execute(p) \/ Abandon(p)
                 \/ Query(p) \/ RecordObservation(p)
          PROVE  UNCHANGED verdicts
      BY <2>4 DEF StartPrepare, StartExecute, SavePreparation, Execute, CheckHeight, Claim, Send,
             RecordSubmitted, StorageBusy, RecordRejection, MarkNeedsRecovery, Abandon, Query,
             RecordObservation
    <2>5. ASSUME NEW r \in Requests, Environment(r)
          PROVE  UNCHANGED verdicts
      BY <2>5 DEF Environment, BecomeLate, BecomeStale, Include, SettleBlock, Drop, Cluster
    <2>6. QED
      BY <2>1, <2>2, <2>3, <2>4, <2>5, InspectKnown DEF Next, Recover, vars
  <1>2. \A v \in verdicts : OfferKnown(v)'
    BY ExpiredStays DEF OffersKnown, OfferKnown, Typed, TypeOK, Verdict
  <1>3. QED
    BY <1>1, <1>2 DEF OffersKnown

LEMMA KnownInvariant == Spec => []OffersKnown
  <1>1. Init => OffersKnown
    BY DEF Init, OffersKnown
  <1>2. QED
    BY <1>1, NextKnown, TypedInvariant, PTL DEF Spec

\* Whatever overlaps: where blocks are not rolled back, an offer of recover
\* that a transfer may contradict is one of an expired preparation, and the
\* attempt is there for a status to report (_no_attempt_recovery, recover).
THEOREM MistakesShow == Spec => []MistakenOffersShow
  <1>1. Typed /\ BroadcastInv /\ TruthInv(ForksPossible) /\ OffersKnown => MistakenOffersShow
    <2> SUFFICES ASSUME Typed, BroadcastInv, TruthInv(ForksPossible), OffersKnown,
                        NEW v \in verdicts, v.remat, MayTransfer(v.req), ~ForksPossible
                 PROVE  prep[v.req].state = "expired" /\ attempt[v.req].state # "none"
      BY DEF MistakenOffersShow
    <2>1. v.req \in Requests
      BY DEF Typed, TypeOK, Verdict
    <2>2. v.outcome # "recovered_failed"
      BY DEF TruthInv, VerdictsTrue, VerdictTrue, Undone, MayTransfer
    <2>3. sends[v.req] = 1
      BY <2>1 DEF BroadcastInv, MayTransfer
    <2>4. attempt[v.req].state # "none"
      BY <2>1, <2>3 DEF BroadcastInv
    <2>5. QED
      BY <2>2, <2>4 DEF OffersKnown, OfferKnown
  <1>2. QED
    BY <1>1, TypedInvariant, BroadcastInvariant, TruthInvariant, KnownInvariant, PTL

\* Only a claim makes an attempt.
LEMMA ClaimsMakeAttempts ==
    ASSUME Typed, BroadcastInv, [Next]_vars, NEW r \in Requests,
           attempt[r].state = "none", attempt'[r] # attempt[r]
    PROVE  \E p \in Procs : pc[p] = "validated" /\ local[p].req = r
  <1>1. ASSUME NEW p \in Procs, RecordSubmitted(p) \/ RecordRejection(p) \/ MarkNeedsRecovery(p)
               \/ RecordObservation(p) \/ DecideByHeight(p)
        PROVE  attempt'[r] = attempt[r]
    BY <1>1 DEF RecordSubmitted, RecordRejection, MarkNeedsRecovery, RecordObservation,
           DecideByHeight, BroadcastInv, AfterClaim, Typed, TypeOK
  <1>2. ASSUME NEW p \in Procs, Claim(p)
        PROVE  pc[p] = "validated" /\ local[p].req = r
    BY <1>2 DEF Claim, Typed, TypeOK
  <1>3. ASSUME NEW p \in Procs,
               \/ \E q \in Requests, plan \in Plans : StartPrepare(p, q, plan)
               \/ \E q \in Requests, a \in Auths : StartExecute(p, q, a)
               \/ \E q \in Requests, cmd \in {"status", "recover"} : StartInspection(p, q, cmd)
               \/ SavePreparation(p) \/ CheckHeight(p) \/ Send(p) \/ StorageBusy(p)
               \/ SecondLook(p) \/ Inspect(p) \/ Query(p) \/ Reread(p) \/ Abandon(p)
        PROVE  UNCHANGED attempt
    BY <1>3 DEF StartPrepare, StartExecute, StartInspection, SavePreparation, CheckHeight, Send,
           StorageBusy, SecondLook, Inspect, Query, Reread, Abandon
  <1>4. ASSUME NEW q \in Requests, Environment(q)
        PROVE  UNCHANGED attempt
    BY <1>4 DEF Environment, BecomeLate, BecomeStale, Include, SettleBlock, Drop, Cluster
  <1>5. QED
    BY <1>1, <1>2, <1>3, <1>4 DEF Next, Execute, Recover, vars

\* A handler begins only on a preparation that is active.
LEMMA OnlyActiveAreChecked ==
    ASSUME Typed, [Next]_vars, NEW p \in Procs, pc'[p] \in {"checking", "validated"}
    PROVE  \/ prep[local'[p].req].state = "prepared"
           \/ pc[p] \in {"checking", "validated"} /\ local'[p].req = local[p].req
  <1>1. CASE pc'[p] = pc[p] /\ local'[p] = local[p]
    BY <1>1
  <1>2. ASSUME NEW q \in Procs, NEW l, NEW j, Continue(q, l, j), l \notin {"checking", "validated"}
        PROVE  pc'[p] = pc[p] /\ local'[p] = local[p]
    BY <1>2 DEF Continue, Typed, TypeOK
  <1>3. ASSUME NEW q \in Procs, NEW r \in Requests, NEW a \in Auths, StartExecute(q, r, a)
        PROVE  \/ pc'[p] = pc[p] /\ local'[p] = local[p]
               \/ prep[local'[p].req].state = "prepared"
    <2> DEFINE job == [NoJob EXCEPT !.req = r, !.auth = a, !.cmd = "execute"]
    <2>1. job.req = r
      BY DEF NoJob
    <2>2. UNCHANGED <<pc, local>> \/ Continue(q, "checking", job)
      BY <1>3 DEF StartExecute
    <2>3. QED
      BY <1>3, <2>1, <2>2 DEF StartExecute, Continue, Typed, TypeOK
  <1>4. ASSUME NEW q \in Procs, CheckHeight(q)
        PROVE  \/ pc'[p] = pc[p] /\ local'[p] = local[p]
               \/ pc[p] = "checking" /\ local'[p].req = local[p].req
    <2>1. Return(q) \/ Continue(q, "validated", local[q])
      BY <1>4 DEF CheckHeight
    <2>2. QED
      BY <1>2, <1>4, <2>1 DEF CheckHeight, Return, Continue, Typed, TypeOK
  <1>5. ASSUME NEW q \in Procs,
               \/ \E r \in Requests, plan \in Plans : StartPrepare(q, r, plan)
               \/ \E r \in Requests, cmd \in {"status", "recover"} : StartInspection(q, r, cmd)
               \/ SavePreparation(q) \/ Claim(q) \/ Send(q) \/ RecordSubmitted(q)
               \/ StorageBusy(q) \/ RecordRejection(q) \/ MarkNeedsRecovery(q) \/ Recover(q)
               \/ Abandon(q)
        PROVE  \/ UNCHANGED <<pc, local>>
               \/ \E l, j : Continue(q, l, j) /\ l \notin {"checking", "validated"}
    <2> DEFINE Away == \E l, j : Continue(q, l, j) /\ l \notin {"checking", "validated"}
    <2>1. CASE Return(q)
      BY <2>1 DEF Return
    <2>2. CASE \E r \in Requests, plan \in Plans : StartPrepare(q, r, plan)
      BY <2>2 DEF StartPrepare
    <2>3. ASSUME NEW r \in Requests, NEW cmd \in {"status", "recover"}, StartInspection(q, r, cmd)
          PROVE  UNCHANGED <<pc, local>> \/ Away
      BY <2>3 DEF StartInspection
    <2>4. CASE Claim(q) \/ StorageBusy(q)
      BY <2>4 DEF Claim, StorageBusy, Return
    <2>5. CASE Send(q)
      BY <2>5 DEF Send
    <2>6. CASE SecondLook(q)
      <3>1. \/ Return(q) \/ \E j : Continue(q, "inspecting", j)
            \/ \E j : Continue(q, "querying", j)
        BY <2>6 DEF SecondLook
      <3>2. QED
        BY <2>1, <3>1
    <2>7. CASE Query(q)
      <3>1. \E j : Continue(q, "observed", j)
        BY <2>7 DEF Query
      <3>2. QED
        BY <3>1
    <2>8. CASE RecordObservation(q)
      <3>1. \E j : Continue(q, "reread", j)
        BY <2>8 DEF RecordObservation
      <3>2. QED
        BY <3>1
    <2>9. CASE Reread(q)
      <3>1. Return(q) \/ \E j : Continue(q, "deciding", j)
        BY <2>9 DEF Reread
      <3>2. QED
        BY <2>1, <3>1
    <2>10. QED
      BY <1>5, <2>1, <2>2, <2>3, <2>4, <2>5, <2>6, <2>7, <2>8, <2>9
         DEF SavePreparation, RecordSubmitted, RecordRejection, MarkNeedsRecovery, Recover,
             Inspect, DecideByHeight, Abandon
  <1>6. ASSUME NEW r \in Requests, Environment(r)
        PROVE  UNCHANGED <<pc, local>>
    BY <1>6 DEF Environment, BecomeLate, BecomeStale, Include, SettleBlock, Drop, Cluster
  <1>7. CASE UNCHANGED <<pc, local>>
    BY <1>1, <1>7
  <1>8. ASSUME NEW q \in Procs, \E l, j : Continue(q, l, j) /\ l \notin {"checking", "validated"}
        PROVE  pc'[p] = pc[p] /\ local'[p] = local[p]
    BY <1>2, <1>8
  <1>9. CASE Next
    <2>1. CASE \E r \in Requests : Environment(r)
      BY <1>6, <1>7, <2>1
    <2>2. CASE \E q \in Procs : CheckHeight(q)
      BY <1>1, <1>4, <2>2
    <2>3. CASE \E q \in Procs, r \in Requests, a \in Auths : StartExecute(q, r, a)
      BY <1>1, <1>3, <2>3
    <2>4. QED
      BY <1>1, <1>5, <1>7, <1>8, <1>9, <2>1, <2>2, <2>3 DEF Next, Execute
  <1>10. QED
    BY <1>7, <1>9 DEF vars

LEMMA ClosedStays ==
    ASSUME Typed, BroadcastInv, [Next]_vars, NEW r \in Requests, Closed(r)
    PROVE  Closed(r)'
  <1>1. prep'[r].state = "expired"
    BY ExpiredStays DEF Closed
  <1>2. attempt'[r].state = "none"
    BY ClaimsMakeAttempts DEF Closed
  <1>3. ASSUME NEW p \in Procs, pc'[p] \in {"checking", "validated"}
        PROVE  local'[p].req # r
    BY <1>3, OnlyActiveAreChecked DEF Closed
  <1>4. QED
    BY <1>1, <1>2, <1>3 DEF Closed

\* A preparation that expired without an attempt, once the handlers that were
\* past their check are gone, is never sent: from then on it may be replaced.
THEOREM ClosedIsNeverSent ==
    ASSUME NEW r \in Requests
    PROVE  Spec => [](Closed(r) => [](~MayTransfer(r)))
  <1>1. Typed /\ BroadcastInv /\ Closed(r) /\ [Next]_vars => Closed(r)'
    BY ClosedStays
  <1>2. BroadcastInv /\ Closed(r) => ~MayTransfer(r)
    BY DEF BroadcastInv, Closed, MayTransfer
  <1>3. QED
    BY <1>1, <1>2, TypedInvariant, BroadcastInvariant, PTL DEF Spec

-----------------------------------------------------------------------------
(* One handler at a time, and a caller that waits                          *)

\* At most one handler is under way.
Alone == \A p, q \in Procs : pc[p] # "idle" /\ pc[q] # "idle" => p = q

\* So what a handler read of the tables is still so when it writes, and recover
\* does not meet an attempt when it looks for it again.
HandlerOK(p) ==
    LET r == local[p].req
    IN  /\ pc[p] # "compiling" => prep[r].state # "none"
        /\ pc[p] \in {"checking", "validated"} => prep[r].state = "prepared"
        /\ pc[p] \in {"second_look", "inspecting"} => attempt[r].state = "none"
        /\ pc[p] \in {"querying", "observed", "reread"} => local[p].cmd # "fallback"
        /\ pc[p] \in {"querying", "observed", "deciding"} => attempt[r].state \notin Terminal

HandlersOK == \A p \in Procs : pc[p] # "idle" => HandlerOK(p)

\* recover offers rematerialization of a recorded failure, or of a request
\* that has expired without an attempt and therefore never gets one.
OfferTrue(v) ==
    v.remat => \/ v.outcome = "recovered_failed"
               \/ prep[v.req].state = "expired" /\ attempt[v.req].state = "none"

OffersTrue == \A v \in verdicts : OfferTrue(v)

\* An attempt belongs to a preparation.
Prepared == \A r \in Requests : attempt[r].state # "none" => prep[r].state # "none"

\* Of two preparations of an obligation one has been offered for replacement.
Waited ==
    \A r, q \in Requests :
        /\ r # q /\ prep[r].state # "none" /\ prep[q].state # "none"
        /\ prep[r].plan.obligation = prep[q].plan.obligation
        => \E v \in verdicts : v.remat /\ v.req \in {r, q}

QuietInv == Alone /\ HandlersOK /\ OffersTrue /\ Prepared /\ Waited

\* What no quiet step takes back or makes up.
Careful ==
    /\ \A r \in Requests :
          /\ prep[r].state # "none" => prep'[r].state # "none" /\ prep'[r].plan = prep[r].plan
          /\ prep[r].state = "expired" => prep'[r].state = "expired"
          /\ attempt[r].state = "none" /\ attempt'[r].state # "none" =>
                prep[r].state = "prepared"
          /\ attempt[r].state \in Terminal => attempt'[r].state = attempt[r].state
    /\ verdicts \subseteq verdicts'
    /\ \A v \in verdicts' : v \in verdicts \/ OfferTrue(v)'

LEMMA CarefulTables ==
    ASSUME UNCHANGED <<prep, attempt, verdicts>>
    PROVE  Careful
  BY DEF Careful

\* recover's answers, as offers.
LEMMA AnswerOffers ==
    ASSUME NEW r, NEW o, Answer(r, o, FALSE)
    PROVE  /\ verdicts \subseteq verdicts'
           /\ \A v \in verdicts' : v \in verdicts \/ OfferTrue(v)'
  BY DEF Answer, OfferTrue

LEMMA AnswerTerminalOffers ==
    ASSUME NEW r \in Requests, AnswerTerminal(r)
    PROVE  /\ verdicts \subseteq verdicts'
           /\ \A v \in verdicts' : v \in verdicts \/ OfferTrue(v)'
  BY DEF AnswerTerminal, Answer, OfferTrue

LEMMA PrepareCareful ==
    ASSUME Typed, NEW p \in Procs, SavePreparation(p)
    PROVE  Careful
  <1>1. PICK r \in Requests, plan \in Plans : r = local[p].req /\ plan = local[p].plan
    BY DEF SavePreparation, Typed, JobOK
  <1>2. UNCHANGED <<attempt, verdicts>>
    BY DEF SavePreparation
  <1>3. CASE Blocking(r, plan.obligation) = {}
    <2>1. prep[r].state = "none"
      BY <1>3 DEF Blocking
    <2>2. \A q \in Requests : q # r => prep'[q] = prep[q]
      BY <1>1, <1>3 DEF SavePreparation, Typed, TypeOK
    <2>3. QED
      BY <1>2, <2>1, <2>2 DEF Careful
  <1>4. CASE Blocking(r, plan.obligation) # {}
    BY <1>1, <1>2, <1>4, CarefulTables DEF SavePreparation
  <1>5. QED
    BY <1>3, <1>4

\* Expiring a preparation that is there, and offering it for replacement if
\* nothing was ever sent for it.
LEMMA ExpireCareful ==
    ASSUME Typed, NEW r \in Requests, prep[r].state # "none", Expire(r), attempt' = attempt,
           \/ UNCHANGED verdicts
           \/ \E o, b : Answer(r, o, b) /\ attempt[r].state = "none"
    PROVE  Careful
  <1>1. /\ prep'[r].state = "expired" /\ prep'[r].plan = prep[r].plan
        /\ \A q \in Requests : q # r => prep'[q] = prep[q]
    BY DEF Expire, Typed, TypeOK, PrepRow
  <1>2. /\ verdicts \subseteq verdicts'
        /\ \A v \in verdicts' : v \in verdicts \/ OfferTrue(v)'
    BY <1>1 DEF Answer, OfferTrue
  <1>3. QED
    BY <1>1, <1>2 DEF Careful

\* Writes of an attempt that exists and is not at its end.
LEMMA RewriteCareful ==
    ASSUME NEW r \in Requests, attempt[r].state # "none", attempt[r].state \notin Terminal,
           \A q \in Requests : q # r => attempt'[q] = attempt[q],
           UNCHANGED prep,
           verdicts \subseteq verdicts',
           \A v \in verdicts' : v \in verdicts \/ OfferTrue(v)'
    PROVE  Careful
  BY DEF Careful

LEMMA ExecuteCareful ==
    ASSUME Typed, QuietInv, NEW p \in Procs, Execute(p)
    PROVE  Careful
  <1>1. PICK r \in Requests : r = local[p].req
    BY DEF Execute, CheckHeight, Claim, Send, RecordSubmitted, StorageBusy, RecordRejection,
           MarkNeedsRecovery, Typed, JobOK
  <1>2. UNCHANGED verdicts
    BY DEF Execute, CheckHeight, Claim, Send, RecordSubmitted, StorageBusy, RecordRejection,
           MarkNeedsRecovery
  <1>3. CASE CheckHeight(p)
    <2>1. prep[r].state = "prepared"
      BY <1>1, <1>3 DEF CheckHeight, QuietInv, HandlersOK, HandlerOK
    <2>2. CASE UNCHANGED prep
      BY <1>2, <1>3, <2>2, CarefulTables DEF CheckHeight
    <2>3. CASE Expire(r)
      BY <1>2, <1>3, <2>1, <2>3, ExpireCareful DEF CheckHeight
    <2>4. QED
      BY <1>1, <1>3, <2>2, <2>3 DEF CheckHeight
  <1>4. CASE Claim(p)
    <2>1. prep[r].state = "prepared" /\ UNCHANGED prep
      BY <1>1, <1>4 DEF Claim, QuietInv, HandlersOK, HandlerOK
    <2>2. CASE UNCHANGED attempt
      BY <1>2, <2>1, <2>2, CarefulTables
    <2>3. CASE ~Taken(r, local[p].auth)
      <3>1. attempt[r].state = "none" /\ \A q \in Requests : q # r => attempt'[q] = attempt[q]
        BY <1>1, <1>4, <2>3 DEF Claim, Taken, Typed, TypeOK
      <3>2. QED
        BY <1>2, <2>1, <3>1 DEF Careful, Terminal
    <2>4. QED
      BY <1>1, <1>4, <2>2, <2>3 DEF Claim
  <1>5. CASE Send(p) \/ StorageBusy(p)
    BY <1>2, <1>5, CarefulTables DEF Send, StorageBusy
  <1>6. CASE RecordSubmitted(p) \/ RecordRejection(p) \/ MarkNeedsRecovery(p)
    <2>1. UNCHANGED prep
      BY <1>6 DEF RecordSubmitted, RecordRejection, MarkNeedsRecovery
    <2>2. CASE UNCHANGED attempt
      BY <1>2, <2>1, <2>2, CarefulTables
    <2>3. CASE attempt' # attempt
      <3>1. /\ attempt[r].state = "broadcast_started"
            /\ \A q \in Requests : q # r => attempt'[q] = attempt[q]
        BY <1>1, <1>6, <2>3 DEF RecordSubmitted, RecordRejection, MarkNeedsRecovery, Typed, TypeOK
      <3>2. QED
        BY <1>2, <2>1, <3>1, RewriteCareful DEF Terminal
    <2>4. QED
      BY <2>2, <2>3
  <1>7. QED
    BY <1>3, <1>4, <1>5, <1>6 DEF Execute

LEMMA RecoverCareful ==
    ASSUME Typed, BroadcastInv, QuietInv, NEW p \in Procs, Recover(p)
    PROVE  Careful
  <1>1. PICK r \in Requests : r = local[p].req
    BY DEF Recover, SecondLook, Inspect, Query, RecordObservation, Reread, DecideByHeight,
           Typed, JobOK
  <1>2. CASE SecondLook(p) \/ Query(p) \/ Reread(p)
    <2>1. UNCHANGED <<prep, attempt>>
      BY <1>2 DEF SecondLook, Query, Reread
    <2>2. \/ UNCHANGED verdicts
          \/ \E o : Answer(r, o, FALSE)
          \/ AnswerTerminal(r)
      BY <1>1, <1>2 DEF SecondLook, Query, Reread
    <2>3. /\ verdicts \subseteq verdicts'
          /\ \A v \in verdicts' : v \in verdicts \/ OfferTrue(v)'
      BY <2>2, AnswerOffers, AnswerTerminalOffers
    <2>4. QED
      BY <2>1, <2>3 DEF Careful
  <1>3. CASE Inspect(p)
    <2>1. attempt[r].state = "none" /\ attempt' = attempt /\ prep[r].state # "none"
      BY <1>1, <1>3 DEF Inspect, QuietInv, HandlersOK, HandlerOK
    <2>2. CASE Expire(r)
      <3>1. UNCHANGED verdicts \/ \E o, b : Answer(r, o, b)
        BY <1>1, <1>3 DEF Inspect
      <3>2. QED
        BY <2>1, <2>2, <3>1, ExpireCareful
    <2>3. CASE UNCHANGED prep
      <3>1. prep[r].state = "expired" => Expire(r)
        BY <1>1, <1>3 DEF Inspect
      <3>2. CASE ~(prep[r].state = "expired" \/ r \in late \cup stale)
        <4>1. UNCHANGED verdicts \/ Answer(r, "failed_before_broadcast", FALSE)
          BY <1>1, <1>3, <3>2 DEF Inspect
        <4>2. QED
          BY <2>1, <2>3, <4>1, AnswerOffers DEF Careful
      <3>3. CASE prep[r].state = "expired" \/ r \in late \cup stale
        BY <1>1, <1>3, <2>2, <3>3 DEF Inspect
      <3>4. QED
        BY <3>2, <3>3
    <2>4. QED
      BY <1>1, <1>3, <2>2, <2>3 DEF Inspect
  <1>4. CASE RecordObservation(p) \/ DecideByHeight(p)
    <2>1. attempt[r].state # "none" /\ attempt[r].state \notin Terminal /\ UNCHANGED prep
      BY <1>1, <1>4 DEF RecordObservation, DecideByHeight, QuietInv, HandlersOK, HandlerOK,
             BroadcastInv, AfterClaim
    <2>2. \A q \in Requests : q # r => attempt'[q] = attempt[q]
      BY <1>1, <1>4 DEF RecordObservation, DecideByHeight, Typed, TypeOK
    <2>3. UNCHANGED verdicts \/ \E o : Answer(r, o, FALSE)
      BY <1>1, <1>4 DEF RecordObservation, DecideByHeight
    <2>4. QED
      BY <2>1, <2>2, <2>3, AnswerOffers, RewriteCareful
  <1>5. QED
    BY <1>2, <1>3, <1>4 DEF Recover

LEMMA StartCareful ==
    ASSUME Typed, NEW p \in Procs, NEW r \in Requests,
           \/ \E plan \in Plans : StartPrepare(p, r, plan)
           \/ \E a \in Auths : StartExecute(p, r, a)
           \/ \E cmd \in {"status", "recover"} : StartInspection(p, r, cmd)
    PROVE  Careful
  <1>1. CASE \E plan \in Plans : StartPrepare(p, r, plan)
    BY <1>1, CarefulTables DEF StartPrepare
  <1>2. CASE \E a \in Auths : StartExecute(p, r, a)
    <2>1. /\ prep[r].state = "prepared" /\ UNCHANGED <<attempt, verdicts>>
          /\ Expire(r) \/ UNCHANGED prep
      BY <1>2 DEF StartExecute
    <2>2. QED
      BY <2>1, CarefulTables, ExpireCareful
  <1>3. CASE \E cmd \in {"status", "recover"} : StartInspection(p, r, cmd)
    <2>1. UNCHANGED <<prep, attempt>> /\ (UNCHANGED verdicts \/ AnswerTerminal(r))
      BY <1>3 DEF StartInspection
    <2>2. QED
      BY <2>1, AnswerTerminalOffers DEF Careful
  <1>4. QED
    BY <1>1, <1>2, <1>3

LEMMA QuietCareful ==
    ASSUME Typed, BroadcastInv, QuietInv, [Next]_vars
    PROVE  Careful
  <1>1. ASSUME NEW p \in Procs, Abandon(p)
        PROVE  Careful
    BY <1>1, CarefulTables DEF Abandon
  <1>2. ASSUME NEW r \in Requests, Environment(r)
        PROVE  Careful
    BY <1>2, CarefulTables DEF Environment, BecomeLate, BecomeStale, Include, SettleBlock,
           Drop, Cluster
  <1>3. CASE UNCHANGED vars
    BY <1>3, CarefulTables DEF vars
  <1>4. QED
    BY <1>1, <1>2, <1>3, StartCareful, PrepareCareful, ExecuteCareful, RecoverCareful DEF Next

\* Under a handler that is alone nobody else changes the tables.
LEMMA AloneStep ==
    ASSUME Typed, QuietInv, NEW p \in Procs, pc[p] # "idle",
           \A q \in Procs : q # p => pc'[q] = pc[q] /\ local'[q] = local[q],
           pc'[p] # "idle" => HandlerOK(p)'
    PROVE  HandlersOK'
  BY DEF QuietInv, Alone, HandlersOK

LEMMA ExecuteHandlers ==
    ASSUME Typed, QuietInv, NEW p \in Procs, Execute(p)
    PROVE  HandlersOK'
  <1>1. PICK r \in Requests : r = local[p].req /\ pc[p] # "idle" /\ pc[p] # "compiling"
    BY DEF Execute, CheckHeight, Claim, Send, RecordSubmitted, StorageBusy, RecordRejection,
           MarkNeedsRecovery, Typed, JobOK
  <1>2. prep[r].state # "none"
    BY <1>1 DEF QuietInv, HandlersOK, HandlerOK
  <1>3. ASSUME NEW l \in {"validated", "claimed", "answered", "rejected", "unknown"}, NEW j,
               Continue(p, l, j), j.req = r, UNCHANGED prep,
               l = "validated" => prep[r].state = "prepared"
        PROVE  HandlersOK'
    <2>1. /\ pc'[p] = l /\ local'[p] = j
          /\ \A q \in Procs : q # p => pc'[q] = pc[q] /\ local'[q] = local[q]
      BY <1>3, Goes
    <2>2. HandlerOK(p)'
      BY <1>2, <1>3, <2>1 DEF HandlerOK
    <2>3. QED
      BY <1>1, <2>1, <2>2, AloneStep
  <1>4. CASE Return(p)
    BY <1>1, <1>4, Goes, AloneStep DEF Return
  <1>5. CASE CheckHeight(p) /\ Continue(p, "validated", local[p])
    <2>1. prep[r].state = "prepared"
      BY <1>1, <1>5 DEF CheckHeight, QuietInv, HandlersOK, HandlerOK
    <2>2. CASE UNCHANGED prep
      BY <1>1, <1>3, <1>5, <2>1, <2>2
    <2>3. QED
      BY <1>4, <1>5, <2>2 DEF CheckHeight
  <1>6. CASE Claim(p) /\ ~Return(p)
    <2> DEFINE j == [local[p] EXCEPT !.auth = None]
    <2>1. Continue(p, "claimed", j) /\ UNCHANGED prep
      BY <1>6 DEF Claim
    <2>2. j.req = r
      BY <1>1 DEF Typed, TypeOK, Job
    <2> HIDE DEF j
    <2>3. \E k : Continue(p, "claimed", k) /\ k.req = r
      BY <2>1, <2>2
    <2>4. QED
      BY <1>3, <2>1, <2>3
  <1>7. CASE Send(p) \/ StorageBusy(p)
    <2>1. /\ UNCHANGED prep
          /\ \E l \in {"answered", "rejected", "unknown"} : Continue(p, l, local[p])
      BY <1>7 DEF Send, StorageBusy
    <2>2. QED
      BY <1>1, <1>3, <2>1
  <1>8. CASE RecordSubmitted(p) \/ RecordRejection(p) \/ MarkNeedsRecovery(p)
    BY <1>4, <1>8 DEF RecordSubmitted, RecordRejection, MarkNeedsRecovery
  <1>9. QED
    BY <1>4, <1>5, <1>6, <1>7, <1>8 DEF Execute, CheckHeight

LEMMA RecoverHandlers ==
    ASSUME Typed, BroadcastInv, QuietInv, NEW p \in Procs, Recover(p)
    PROVE  HandlersOK'
  <1>1. PICK r \in Requests : r = local[p].req /\ pc[p] # "idle" /\ pc[p] # "compiling"
    BY DEF Recover, SecondLook, Inspect, Query, RecordObservation, Reread, DecideByHeight,
           Typed, JobOK
  <1>2. prep[r].state # "none"
    BY <1>1 DEF QuietInv, HandlersOK, HandlerOK
  <1>3. ASSUME NEW l \in {"inspecting", "querying", "observed", "reread", "deciding"}, NEW j,
               Continue(p, l, j), j.req = r, UNCHANGED prep,
               l = "inspecting" => attempt'[r].state = "none",
               l \in {"querying", "observed", "reread"} => j.cmd # "fallback",
               l \in {"querying", "observed", "deciding"} => attempt'[r].state \notin Terminal
        PROVE  HandlersOK'
    <2>1. /\ pc'[p] = l /\ local'[p] = j
          /\ \A q \in Procs : q # p => pc'[q] = pc[q] /\ local'[q] = local[q]
      BY <1>3, Goes
    <2>2. HandlerOK(p)'
      BY <1>2, <1>3, <2>1 DEF HandlerOK, Terminal
    <2>3. QED
      BY <1>1, <2>1, <2>2, AloneStep
  <1>4. CASE Return(p)
    BY <1>1, <1>4, Goes, AloneStep DEF Return
  <1>5. local[p] \in Job
    BY DEF Typed, TypeOK
  <1>6. CASE SecondLook(p) /\ ~Return(p)
    <2>1. UNCHANGED <<prep, attempt>> /\ attempt[r].state = "none"
      BY <1>1, <1>6 DEF SecondLook, QuietInv, HandlersOK, HandlerOK
    <2> DEFINE j == [local[p] EXCEPT !.cmd = "fallback", !.seen = attempt[local[p].req].state]
    <2>2. Continue(p, "inspecting", j)
      BY <1>1, <1>6, <2>1 DEF SecondLook, Terminal
    <2>3. j.req = r
      BY <1>1, <1>5 DEF Job
    <2> HIDE DEF j
    <2>4. QED
      BY <1>3, <2>1, <2>2, <2>3
  <1>7. CASE Query(p)
    <2>1. /\ UNCHANGED <<prep, attempt>> /\ attempt[r].state \notin Terminal
          /\ local[p].cmd # "fallback"
      BY <1>1, <1>7 DEF Query, QuietInv, HandlersOK, HandlerOK
    <2>2. \E f, v : Continue(p, "observed",
                        [local[p] EXCEPT !.seen = "none", !.finding = f, !.value = v])
      BY <1>7 DEF Query
    <2>3. PICK f, v : Continue(p, "observed",
                        [local[p] EXCEPT !.seen = "none", !.finding = f, !.value = v])
      BY <2>2
    <2> DEFINE j == [local[p] EXCEPT !.seen = "none", !.finding = f, !.value = v]
    <2>4. j.req = r /\ j.cmd = local[p].cmd
      BY <1>1, <1>5 DEF Job
    <2>5. Continue(p, "observed", j)
      BY <2>3
    <2> HIDE DEF j
    <2>6. QED
      BY <1>3, <2>1, <2>4, <2>5
  <1>8. CASE RecordObservation(p)
    <2> DEFINE j == [NoJob EXCEPT !.req = local[p].req, !.cmd = local[p].cmd]
    <2>1. UNCHANGED prep /\ Continue(p, "reread", j) /\ local[p].cmd # "fallback"
      BY <1>1, <1>8 DEF RecordObservation, QuietInv, HandlersOK, HandlerOK
    <2>2. j.req = r /\ j.cmd = local[p].cmd
      BY <1>1 DEF NoJob
    <2> HIDE DEF j
    <2>3. QED
      BY <1>3, <2>1, <2>2
  <1>9. CASE Reread(p) /\ ~Return(p)
    <2>1. /\ UNCHANGED <<prep, attempt>> /\ attempt[r].state \notin Terminal
          /\ Continue(p, "deciding", local[p])
      BY <1>1, <1>9 DEF Reread
    <2>2. QED
      BY <1>1, <1>3, <2>1
  <1>10. CASE Inspect(p) \/ DecideByHeight(p)
    BY <1>4, <1>10 DEF Inspect, DecideByHeight
  <1>11. QED
    BY <1>4, <1>6, <1>7, <1>8, <1>9, <1>10 DEF Recover

\* A handler starts alone.
LEMMA StartHandlers ==
    ASSUME Typed, QuietInv, Alone', OneAtATime, NEW p \in Procs, NEW r \in Requests,
           \/ \E plan \in Plans : StartPrepare(p, r, plan)
           \/ \E a \in Auths : StartExecute(p, r, a)
           \/ \E cmd \in {"status", "recover"} : StartInspection(p, r, cmd)
    PROVE  HandlersOK'
  <1>1. UNCHANGED attempt /\ pc[p] = "idle"
    BY DEF StartPrepare, StartExecute, StartInspection
  <1>2. ASSUME NEW l, NEW j, Continue(p, l, j), l # "idle", HandlerOK(p)'
        PROVE  HandlersOK'
    <2>1. pc'[p] = l
      BY <1>2, Goes
    <2>2. \A q \in Procs : q # p => pc'[q] = "idle"
      BY <1>2, <2>1 DEF Alone
    <2>3. QED
      BY <1>2, <2>2 DEF HandlersOK
  <1>3. CASE UNCHANGED <<pc, local>>
    <2>1. CASE UNCHANGED prep
      BY <1>1, <1>3, <2>1 DEF QuietInv, HandlersOK, HandlerOK
    <2>2. CASE prep' # prep
      BY <1>3, <2>2 DEF OneAtATime, HandlersOK
    <2>3. QED
      BY <2>1, <2>2
  <1>4. CASE \E plan \in Plans : StartPrepare(p, r, plan)
    <2>1. PICK j : Continue(p, "compiling", j)
      BY <1>4 DEF StartPrepare
    <2>2. HandlerOK(p)'
      BY <2>1, Goes DEF HandlerOK
    <2>3. QED
      BY <1>2, <2>1, <2>2
  <1>5. CASE \E a \in Auths : StartExecute(p, r, a) /\ r \notin late
    <2>1. PICK a \in Auths : StartExecute(p, r, a) /\ r \notin late
      BY <1>5
    <2> DEFINE j == [NoJob EXCEPT !.req = r, !.auth = a, !.cmd = "execute"]
    <2>2. prep[r].state = "prepared" /\ UNCHANGED prep /\ Continue(p, "checking", j)
      BY <2>1 DEF StartExecute
    <2>3. j.req = r
      BY DEF NoJob
    <2> HIDE DEF j
    <2>4. HandlerOK(p)'
      BY <2>2, <2>3, Goes DEF HandlerOK
    <2>5. QED
      BY <1>2, <2>2, <2>4
  <1>6. ASSUME NEW cmd \in {"status", "recover"}, StartInspection(p, r, cmd),
               attempt[r].state \notin Terminal
        PROVE  HandlersOK'
    <2>1. /\ prep[r].state # "none" /\ UNCHANGED prep
          /\ \E l \in {"inspecting", "second_look", "querying"} : \E j :
                /\ Continue(p, l, j) /\ j.req = r /\ j.cmd = cmd
                /\ l \in {"inspecting", "second_look"} => attempt[r].state = "none"
      BY <1>6 DEF StartInspection, NoJob
    <2>2. PICK l \in {"inspecting", "second_look", "querying"} : \E j :
             /\ Continue(p, l, j) /\ j.req = r /\ j.cmd = cmd
             /\ l \in {"inspecting", "second_look"} => attempt[r].state = "none"
      BY <2>1
    <2>3. HandlerOK(p)'
      BY <1>1, <1>6, <2>1, <2>2, Goes DEF HandlerOK
    <2>4. QED
      BY <1>2, <2>2, <2>3
  <1>7. QED
    BY <1>3, <1>4, <1>5, <1>6 DEF StartExecute, StartInspection, Terminal

LEMMA NextHandlers ==
    ASSUME Typed, BroadcastInv, QuietInv, Next, OneAtATime
    PROVE  Alone' /\ HandlersOK'
  <1>1. Alone'
    BY DEF OneAtATime, Alone
  <1>2. ASSUME NEW p \in Procs, NEW r \in Requests,
               \/ \E plan \in Plans : StartPrepare(p, r, plan)
               \/ \E a \in Auths : StartExecute(p, r, a)
               \/ \E cmd \in {"status", "recover"} : StartInspection(p, r, cmd)
        PROVE  HandlersOK'
    BY <1>1, <1>2, StartHandlers
  <1>3. ASSUME NEW p \in Procs, SavePreparation(p) \/ Abandon(p)
        PROVE  HandlersOK'
    <2>1. pc[p] # "idle" /\ Return(p)
      BY <1>3 DEF SavePreparation, Abandon
    <2>2. QED
      BY <2>1, Goes, AloneStep DEF Return
  <1>4. ASSUME NEW r \in Requests, Environment(r)
        PROVE  HandlersOK'
    <2>1. UNCHANGED <<prep, attempt, pc, local>>
      BY <1>4 DEF Environment, BecomeLate, BecomeStale, Include, SettleBlock, Drop, Cluster
    <2>2. QED
      BY <2>1 DEF QuietInv, HandlersOK, HandlerOK
  <1>5. QED
    BY <1>1, <1>2, <1>3, <1>4, ExecuteHandlers, RecoverHandlers DEF Next

\* An offer of a request without an attempt stays good: it never gets one.
LEMMA CarefulOffers ==
    ASSUME Typed, QuietInv, Careful
    PROVE  OffersTrue' /\ Prepared'
  <1>1. ASSUME NEW v \in verdicts
        PROVE  OfferTrue(v)'
    <2>1. v.req \in Requests
      BY DEF Typed, TypeOK, Verdict
    <2>2. OfferTrue(v)
      BY DEF QuietInv, OffersTrue
    <2>3. QED
      BY <2>1, <2>2 DEF OfferTrue, Careful
  <1>2. OffersTrue'
    BY <1>1 DEF OffersTrue, Careful
  <1>3. Prepared'
    BY DEF QuietInv, Prepared, Careful
  <1>4. QED
    BY <1>2, <1>3

\* One step writes one row of prepared_executions.
LEMMA OneRowWritten ==
    ASSUME Typed, [Next]_vars, NEW r \in Requests, NEW q \in Requests,
           prep'[r] # prep[r], prep'[q] # prep[q]
    PROVE  r = q
  <1>1. CASE \E s \in Requests : Expire(s)
    BY <1>1 DEF Expire, Typed, TypeOK
  <1>2. CASE \E p \in Procs : SavePreparation(p)
    <2>1. \E s \in Requests : \E row : prep' = [prep EXCEPT ![s] = row]
      BY <1>2 DEF SavePreparation, Typed, JobOK
    <2>2. QED
      BY <2>1 DEF Typed, TypeOK
  <1>3. QED
    BY <1>1, <1>2, PreparationMoves

LEMMA NextWaited ==
    ASSUME Typed, QuietInv, Careful, [Next]_vars, CallerDiscipline
    PROVE  Waited'
  <1> SUFFICES ASSUME NEW r \in Requests, NEW q \in Requests, r # q,
                      prep'[r].state # "none", prep'[q].state # "none",
                      prep'[r].plan.obligation = prep'[q].plan.obligation
               PROVE  \E v \in verdicts' : v.remat /\ v.req \in {r, q}
    BY DEF Waited
  <1>1. verdicts \subseteq verdicts'
    BY DEF Careful
  <1>2. CASE prep[r].state # "none" /\ prep[q].state # "none"
    BY <1>1, <1>2 DEF QuietInv, Waited, Careful
  <1>3. CASE prep[r].state = "none" /\ prep[q].state # "none"
    BY <1>1, <1>3 DEF CallerDiscipline, Careful
  <1>4. CASE prep[r].state # "none" /\ prep[q].state = "none"
    BY <1>1, <1>4 DEF CallerDiscipline, Careful
  <1>5. CASE prep[r].state = "none" /\ prep[q].state = "none"
    BY <1>5, OneRowWritten
  <1>6. QED
    BY <1>2, <1>3, <1>4, <1>5

\* In the quiet setting a processed transaction stays in its block, so that
\* records and answers are true without reservation.
QuietKept == quiet => QuietInv /\ TruthInv(FALSE)

LEMMA InitQuiet == Init => QuietKept
  <1>1. Init => QuietInv
    BY DEF Init, QuietInv, Alone, HandlersOK, OffersTrue, Prepared, Waited, NoPreparation,
           NoAttempt
  <1>2. QED
    BY <1>1, InitTruth DEF QuietKept

LEMMA NextQuiet ==
    ASSUME Typed, BroadcastInv, QuietKept, [Next /\ QuietOrBusy]_<<vars, quiet>>
    PROVE  QuietKept'
  <1>1. CASE UNCHANGED <<vars, quiet>>
    <2>1. QuietInv => QuietInv'
      BY <1>1 DEF vars, QuietInv, Alone, HandlersOK, HandlerOK, OffersTrue, OfferTrue,
             Prepared, Waited
    <2>2. NoRollback
      BY <1>1 DEF vars, NoRollback
    <2>3. TruthInv(FALSE) => TruthInv(FALSE)'
      BY <1>1, <2>2, NextTruth
    <2>4. QED
      BY <1>1, <2>1, <2>3 DEF QuietKept
  <1>2. CASE Next /\ QuietOrBusy
    <2> SUFFICES ASSUME quiet PROVE QuietInv' /\ TruthInv(FALSE)'
      BY <1>2 DEF QuietKept, QuietOrBusy
    <2>1. OneAtATime /\ NoRollback /\ CallerDiscipline /\ QuietInv /\ TruthInv(FALSE)
      BY <1>2 DEF QuietKept, QuietOrBusy
    <2>2. Careful
      BY <1>2, <2>1, QuietCareful
    <2>3. QuietInv'
      BY <1>2, <2>1, <2>2, NextHandlers, CarefulOffers, NextWaited DEF QuietInv
    <2>4. TruthInv(FALSE)'
      BY <1>2, <2>1, NextTruth
    <2>5. QED
      BY <2>3, <2>4
  <1>3. QED
    BY <1>1, <1>2

LEMMA QuietInvariant == TwoRequests => Spec /\ [](Typed /\ BroadcastInv /\ QuietKept)
  <1>1. [Next /\ QuietOrBusy]_<<vars, quiet>> => [Next]_vars
    OBVIOUS
  <1>2. TwoRequests => Spec
    BY <1>1, PTL DEF TwoRequests, Spec
  <1>3. Typed /\ BroadcastInv /\ QuietKept /\ [Next /\ QuietOrBusy]_<<vars, quiet>> => QuietKept'
    BY NextQuiet
  <1>4. QED
    BY <1>2, <1>3, InitQuiet, TypedInvariant, BroadcastInvariant, PTL DEF TwoRequests

\* When recover answers failed_before_broadcast there is no attempt.
LEMMA QuietFailures ==
    ASSUME Typed, BroadcastInv, QuietInv, [Next]_vars,
           NEW v \in verdicts' \ verdicts, v.outcome = "failed_before_broadcast"
    PROVE  sends[v.req] = 0
  <1>0. ASSUME NEW r, NEW o, NEW b, Answer(r, o, b), o # "failed_before_broadcast"
        PROVE  FALSE
    BY <1>0 DEF Answer
  <1>1. ASSUME NEW r, AnswerTerminal(r)
        PROVE  FALSE
    BY <1>0, <1>1 DEF AnswerTerminal
  <1>2. ASSUME UNCHANGED verdicts
        PROVE  FALSE
    BY <1>2
  <1>3. ASSUME NEW p \in Procs, NEW r \in Requests,
               \E cmd \in {"status", "recover"} : StartInspection(p, r, cmd)
        PROVE  FALSE
    BY <1>1, <1>2, <1>3 DEF StartInspection
  <1>4. ASSUME NEW p \in Procs, SecondLook(p)
        PROVE  FALSE
    <2>1. attempt[local[p].req].state = "none"
      BY <1>4 DEF SecondLook, QuietInv, HandlersOK, HandlerOK
    <2> QED
      BY <1>2, <1>4, <2>1 DEF SecondLook, Terminal
  <1>5. ASSUME NEW p \in Procs, Inspect(p)
        PROVE  sends[v.req] = 0
    <2>1. PICK r \in Requests : r = local[p].req
      BY <1>5 DEF Inspect, Typed, JobOK
    <2>2. sends[r] = 0
      BY <1>5, <2>1 DEF Inspect, QuietInv, HandlersOK, HandlerOK, BroadcastInv
    <2>3. UNCHANGED verdicts \/ \E o, b : Answer(r, o, b)
      BY <1>5, <2>1 DEF Inspect
    <2>4. v.req = r
      BY <1>2, <2>3 DEF Answer
    <2> QED
      BY <2>2, <2>4
  <1>6. ASSUME NEW p \in Procs, Reread(p)
        PROVE  FALSE
    <2>1. local[p].cmd # "fallback"
      BY <1>6 DEF Reread, QuietInv, HandlersOK, HandlerOK
    <2>2. UNCHANGED verdicts \/ AnswerTerminal(local[p].req)
          \/ Answer(local[p].req, "submitted", FALSE)
      BY <1>6, <2>1 DEF Reread
    <2>3. CASE Answer(local[p].req, "submitted", FALSE)
      BY <1>0, <2>3
    <2> QED
      BY <1>1, <1>2, <2>2, <2>3
  <1>7. ASSUME NEW p \in Procs, DecideByHeight(p)
        PROVE  FALSE
    <2>1. \E o \in {"not_found_after_expiry_needs_reconciliation", "needs_recovery"} :
             Answer(local[p].req, o, FALSE)
      BY <1>7 DEF DecideByHeight
    <2> QED
      BY <1>0, <2>1
  <1>8. ASSUME NEW p \in Procs,
               \/ \E r \in Requests, plan \in Plans : StartPrepare(p, r, plan)
               \/ \E r \in Requests, a \in Auths : StartExecute(p, r, a)
               \/ SavePreparation(p) \/ Execute(p) \/ Abandon(p)
               \/ Query(p) \/ RecordObservation(p)
        PROVE  UNCHANGED verdicts
    BY <1>8 DEF StartPrepare, StartExecute, SavePreparation, Execute, CheckHeight, Claim, Send,
           RecordSubmitted, StorageBusy, RecordRejection, MarkNeedsRecovery, Abandon, Query,
           RecordObservation
  <1>9. ASSUME NEW r \in Requests, Environment(r)
        PROVE  UNCHANGED verdicts
    BY <1>9 DEF Environment, BecomeLate, BecomeStale, Include, SettleBlock, Drop, Cluster
  <1>10. QED
    BY <1>2, <1>3, <1>4, <1>5, <1>6, <1>7, <1>8, <1>9 DEF Next, Recover, vars

\* An offer is made of a transaction that failed in a block that stays, or
\* of a request that was never sent.
LEMMA OfferedNeverTransfers ==
    ASSUME Typed, BroadcastInv, QuietInv, TruthInv(FALSE), NEW v \in verdicts, v.remat
    PROVE  ~MayTransfer(v.req)
  <1>1. v.req \in Requests
    BY DEF Typed, TypeOK, Verdict
  <1>2. OfferTrue(v) /\ VerdictTrue(FALSE, v)
    BY DEF QuietInv, OffersTrue, TruthInv, VerdictsTrue
  <1>3. CASE v.outcome = "recovered_failed"
    BY <1>2, <1>3 DEF VerdictTrue, Undone, MayTransfer
  <1>4. CASE attempt[v.req].state = "none"
    <2>1. sends[v.req] = 0
      BY <1>1, <1>4 DEF BroadcastInv
    <2>2. chain[v.req] = "unsent"
      BY <1>1, <2>1 DEF BroadcastInv
    <2>3. QED
      BY <2>2 DEF MayTransfer
  <1>5. QED
    BY <1>2, <1>3, <1>4 DEF OfferTrue

\* may_rematerialize is only said of a transaction that can not become a
\* transfer any more (_no_attempt_recovery, recover), whatever is lost, dies
\* or expires, as long as no other handler is under way.
THEOREM OffersAreSafe == TwoRequests => []QuietRematerialization
  <1>1. Typed /\ BroadcastInv /\ QuietKept => QuietRematerialization
    BY OfferedNeverTransfers
       DEF QuietKept, QuietRematerialization, NoRematerializationUnderUncertainty
  <1>2. QED
    BY <1>1, QuietInvariant, PTL

\* Where no other handler is under way recover never says of a request that was
\* sent that it failed before the broadcast (recover of the preparation backend).
THEOREM FailuresBeforeBroadcast == TwoRequests => QuietFailedBeforeBroadcast
  <1> DEFINE Unsent == quiet => \A v \in verdicts' \ verdicts :
                v.outcome = "failed_before_broadcast" => sends[v.req] = 0
  <1>1. ASSUME Typed, BroadcastInv, QuietKept, [Next]_vars
        PROVE  Unsent
    BY <1>1, QuietFailures DEF QuietKept
  <1> HIDE DEF Unsent
  <1>2. Typed /\ BroadcastInv /\ QuietKept /\ [Next]_vars => [Unsent]_vars
    BY <1>1
  <1>3. TwoRequests => [][Unsent]_vars
    BY <1>2, QuietInvariant, PTL DEF Spec
  <1>4. QED
    BY <1>3 DEF Unsent, QuietFailedBeforeBroadcast

\* A caller that prepares an obligation again only when told that it may
\* settles it at most once, for any number of requests and plans.
THEOREM SettledOnce == TwoRequests => []QuietSettlement
  <1>1. ASSUME Typed, BroadcastInv, QuietInv, TruthInv(FALSE),
               NEW r \in Requests, NEW q \in Requests, r # q,
               chain[r] = "confirmed", chain[q] = "confirmed",
               prep[r].plan.obligation = prep[q].plan.obligation
        PROVE  FALSE
    <2>1. sends[r] = 1 /\ sends[q] = 1
      BY <1>1 DEF BroadcastInv
    <2>2. attempt[r].state # "none" /\ attempt[q].state # "none"
      BY <1>1, <2>1 DEF BroadcastInv
    <2>3. prep[r].state # "none" /\ prep[q].state # "none"
      BY <1>1, <2>2 DEF QuietInv, Prepared
    <2>4. PICK v \in verdicts : v.remat /\ v.req \in {r, q}
      BY <1>1, <2>3 DEF QuietInv, Waited
    <2>5. ~MayTransfer(v.req)
      BY <1>1, <2>4, OfferedNeverTransfers
    <2>6. QED
      BY <1>1, <2>4, <2>5 DEF MayTransfer
  <1>2. Typed /\ BroadcastInv /\ QuietKept => QuietSettlement
    BY <1>1 DEF QuietKept, QuietSettlement, OneTransferPerObligation
  <1>3. QED
    BY <1>2, QuietInvariant, PTL

\* A final observation is replaced only by an observer that overlaps it
\* (record_observation): alone, nobody writes over confirmed or failed.
THEOREM FinalObservationStays == TwoRequests => QuietTerminalObservation
  <1> DEFINE Stays == quiet => \A r \in Requests :
                attempt[r].state \in Final => attempt'[r].state = attempt[r].state
  <1>1. ASSUME Typed, BroadcastInv, QuietKept, [Next]_vars
        PROVE  Stays
    BY <1>1, QuietCareful DEF QuietKept, Careful, Final, Terminal
  <1> HIDE DEF Stays
  <1>2. Typed /\ BroadcastInv /\ QuietKept /\ [Next]_vars => [Stays]_vars
    BY <1>1
  <1>3. TwoRequests => [][Stays]_vars
    BY <1>2, QuietInvariant, PTL DEF Spec
  <1>4. QED
    BY <1>3 DEF Stays, QuietTerminalObservation

\* The claim does not look at the preparation again (ExecutionStore.claim):
\* it is still active when nobody else has expired it since the validation.
THEOREM ClaimBindsActive == TwoRequests => QuietClaim
  <1> DEFINE Binds == quiet => \A r \in Requests :
                attempt[r].state = "none" /\ attempt'[r].state # "none"
                => prep[r].state = "prepared"
  <1>1. ASSUME Typed, BroadcastInv, QuietKept, [Next]_vars
        PROVE  Binds
    BY <1>1, QuietCareful DEF QuietKept, Careful
  <1> HIDE DEF Binds
  <1>2. Typed /\ BroadcastInv /\ QuietKept /\ [Next]_vars => [Binds]_vars
    BY <1>1
  <1>3. TwoRequests => [][Binds]_vars
    BY <1>2, QuietInvariant, PTL DEF Spec
  <1>4. QED
    BY <1>3 DEF Binds, QuietClaim

=============================================================================
