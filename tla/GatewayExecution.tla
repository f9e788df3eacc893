-------------------------- MODULE GatewayExecution --------------------------
(***************************************************************************)
(* The Solana execution backend of the external gateway                    *)
(* (gateway/solana_prepare.py and gateway/solana_execute.py): several      *)
(* gateway processes serve prepare, authorize-and-execute, status and      *)
(* recover over one SQLite file and one RPC endpoint.  A process may be    *)
(* killed between any two of its database transactions and RPC calls.      *)
(*                                                                         *)
(* One action is one database transaction or one RPC call, together with   *)
(* the local computation around it; what a handler keeps in a Python       *)
(* variable across such a point is in local[p].  Time is abstracted to two *)
(* facts per preparation: its expires_at has passed (late), and the        *)
(* confirmed block height has passed its last valid height (stale).        *)
(***************************************************************************)
EXTENDS Naturals, FiniteSets

CONSTANTS
    Requests,      \* execution_request_ids
    Auths,         \* authorization_ids issued by the external authority
    Obligations,   \* obligation_ids an economic plan may settle
    PlanHashes,    \* economic_plan_hash values
    Procs,         \* gateway processes that share the SQLite file
    ForksPossible, \* whether a "processed" transaction may be rolled back
    None           \* absence of an authorization, a plan or a request

\* An economic plan as far as the stores tell plans apart.
Plans == [obligation : Obligations, hash : PlanHashes]

ASSUME NoneIsFresh == None \notin Requests \cup Auths \cup Plans
ASSUME ForksAssumption == ForksPossible \in BOOLEAN

VARIABLES
    prep,     \* table prepared_executions, one row per request
    attempt,  \* table execution_attempts, one row per request
    late,     \* preparations whose expires_at has passed
    stale,    \* preparations whose last_valid_block_height has passed
    chain,    \* what the cluster did with the transaction of a request
    sends,    \* sendTransaction calls made for a request
    pc,       \* where each process is in the handler it runs
    local,    \* what that handler holds in its local variables
    verdicts  \* what recover answered, a history

vars == <<prep, attempt, late, stale, chain, sends, pc, local, verdicts>>
clock == <<late, stale>>
network == <<chain, sends>>

PrepRow == [state : {"none", "prepared", "expired"}, plan : Plans \cup {None}]

AttemptStates ==
    {"none", "broadcast_started", "submitted", "needs_recovery", "confirmed", "failed"}

\* obs is the shape of status_observation_json, receipt the state named by
\* receipt_json; "none" in either column is SQL NULL.
AttemptRow == [state   : AttemptStates,
               auth    : Auths \cup {None},
               receipt : {"none", "submitted", "confirmed", "failed"},
               obs     : {"none", "null", "value", "rejection"}]

ChainStates ==
    {"unsent", "pending", "processed", "reverted", "confirmed", "failed", "dropped"}

Outcomes == {"failed_before_broadcast", "recovered_confirmed", "recovered_failed",
             "submitted", "needs_recovery", "not_found_after_expiry_needs_reconciliation"}

Verdict == [req : Requests, outcome : Outcomes, remat : BOOLEAN]

Locations == {"idle", "compiling", "checking", "validated", "claimed", "answered",
              "rejected", "unknown", "second_look", "inspecting", "querying",
              "observed", "reread", "deciding"}

\* seen is the attempt's state when the handler read it; finding and value
\* are the state and the shape of the observation derived from the RPC's
\* answer; cmd is "fallback" inside the status call that the preparation
\* backend's recover makes on the execution backend.
Job == [req   : Requests \cup {None},
        auth  : Auths \cup {None},
        plan  : Plans \cup {None},
        cmd   : {"none", "prepare", "execute", "status", "recover", "fallback"},
        seen  : AttemptStates,
        finding : AttemptStates,
        value : {"none", "null", "value"}]

NoJob == [req |-> None, auth |-> None, plan |-> None,
          cmd |-> "none", seen |-> "none", finding |-> "none", value |-> "none"]

NoPreparation == [state |-> "none", plan |-> None]
NoAttempt == [state |-> "none", auth |-> None, receipt |-> "none", obs |-> "none"]

TypeOK ==
    /\ prep \in [Requests -> PrepRow]
    /\ attempt \in [Requests -> AttemptRow]
    /\ late \subseteq Requests
    /\ stale \subseteq Requests
    /\ chain \in [Requests -> ChainStates]
    /\ sends \in [Requests -> Nat]
    /\ pc \in [Procs -> Locations]
    /\ local \in [Procs -> Job]
    /\ verdicts \subseteq Verdict

Init ==
    /\ prep = [r \in Requests |-> NoPreparation]
    /\ attempt = [r \in Requests |-> NoAttempt]
    /\ late = {}
    /\ stale = {}
    /\ chain = [r \in Requests |-> "unsent"]
    /\ sends = [r \in Requests |-> 0]
    /\ pc = [p \in Procs |-> "idle"]
    /\ local = [p \in Procs |-> NoJob]
    /\ verdicts = {}

-----------------------------------------------------------------------------
(* Handler plumbing.                                                       *)

\* Process p continues at location l with job j.
Continue(p, l, j) ==
    /\ pc' = [pc EXCEPT ![p] = l]
    /\ local' = [local EXCEPT ![p] = j]

\* The handler returns (or raises) to the gateway's dispatch loop.
Return(p) == Continue(p, "idle", NoJob)

\* The outcomes that speak of the end of a request.
Conclusive == {"failed_before_broadcast", "recovered_confirmed", "recovered_failed"}

\* recover answers the caller; remat is the field may_rematerialize.  The
\* answers that leave the end open are not remembered, unless they permit to
\* rematerialize.
Answer(r, outcome, remat) ==
    verdicts' = IF remat \/ outcome \in Conclusive
                THEN verdicts \cup {[req |-> r, outcome |-> outcome, remat |-> remat]}
                ELSE verdicts

\* PreparationStore.expire: an unconditional UPDATE of the row.
Expire(r) == prep' = [prep EXCEPT ![r].state = "expired"]

-----------------------------------------------------------------------------
(* prepare                                                                 *)

\* The rows that the lookup of replay_or_block and of save can return: the
\* request's own row, or any unexpired row of the obligation.
Blocking(r, obligation) ==
    {q \in Requests :
        /\ prep[q].state # "none"
        /\ \/ q = r
           \/ prep[q].plan.obligation = obligation /\ prep[q].state # "expired"}

\* prepare up to replay_or_block.  A blocking row is replayed or refused as
\* preparation_conflict; neither changes any state.
StartPrepare(p, r, plan) ==
    /\ pc[p] = "idle"
    /\ Blocking(r, plan.obligation) = {}
    /\ Continue(p, "compiling", [NoJob EXCEPT !.req = r, !.plan = plan, !.cmd = "prepare"])
    /\ UNCHANGED <<prep, attempt, clock, network, verdicts>>

\* Mutant of SavePreparation: the lookup of replay_or_block is trusted and
\* not repeated inside the write transaction.
SaveWithoutLookup(p) ==
    /\ pc[p] = "compiling"
    /\ prep' = [prep EXCEPT ![local[p].req] = [state |-> "prepared", plan |-> local[p].plan]]
    /\ Return(p)
    /\ UNCHANGED <<attempt, clock, network, verdicts>>

\* PreparationStore.save after the policy, account, blockhash and simulation
\* checks passed: the lookup is repeated inside the write transaction.
SavePreparation(p) ==
    LET r == local[p].req
        plan == local[p].plan
    IN  /\ pc[p] = "compiling"
        /\ prep' = IF Blocking(r, plan.obligation) = {}
                   THEN [prep EXCEPT ![r] = [state |-> "prepared", plan |-> plan]]
                   ELSE prep
        /\ Return(p)
        /\ UNCHANGED <<attempt, clock, network, verdicts>>

-----------------------------------------------------------------------------
(* authorize-and-execute                                                   *)

\* _validate_execution up to the wall-clock check.
StartExecute(p, r, a) ==
    /\ pc[p] = "idle"
    /\ prep[r].state = "prepared"
    /\ \/ /\ r \in late
          /\ Expire(r)
          /\ UNCHANGED <<pc, local>>
       \/ /\ r \notin late
          /\ Continue(p, "checking", [NoJob EXCEPT !.req = r, !.auth = a, !.cmd = "execute"])
          /\ UNCHANGED prep
    /\ UNCHANGED <<attempt, clock, network, verdicts>>

\* The getBlockHeight call of _validate_execution and the checks after it.
CheckHeight(p) ==
    LET r == local[p].req
    IN  /\ pc[p] = "checking"
        /\ \/ r \in stale /\ Expire(r) /\ Return(p)
           \/ r \notin stale /\ Continue(p, "validated", local[p]) /\ UNCHANGED prep
        /\ UNCHANGED <<attempt, clock, network, verdicts>>

\* Mutant of Taken: only the request is looked up, not the authorization.
TakenByRequest(r, a) == attempt[r].state # "none"

\* An attempt already bound to the request or to the authorization.
Taken(r, a) ==
    \E q \in Requests :
        attempt[q].state # "none" /\ (q = r \/ attempt[q].auth = a)

\* ExecutionStore.claim: signature, signed transaction and broadcast_started
\* become durable in one transaction, or the caller is refused.
Claim(p) ==
    LET r == local[p].req
        a == local[p].auth
    IN  /\ pc[p] = "validated"
        /\ \/ Taken(r, a) /\ Return(p) /\ UNCHANGED attempt
           \/ /\ ~Taken(r, a)
              /\ attempt' = [attempt EXCEPT ![r] =
                    [NoAttempt EXCEPT !.state = "broadcast_started", !.auth = a]]
              /\ Continue(p, "claimed", [local[p] EXCEPT !.auth = None])
        /\ UNCHANGED <<prep, clock, network, verdicts>>

\* The single sendTransaction call, maxRetries 0: the persisted signature
\* comes back; or a JSON-RPC error; or no usable answer, and then nobody can
\* tell whether the request arrived.
Send(p) ==
    LET r == local[p].req
    IN  /\ pc[p] = "claimed"
        /\ sends' = [sends EXCEPT ![r] = @ + 1]
        /\ \E answer \in {"answered", "rejected", "unknown"} :
              /\ Continue(p, answer, local[p])
              /\ \/ answer # "rejected" /\ chain' = [chain EXCEPT ![r] = "pending"]
                 \/ answer # "answered" /\ UNCHANGED chain
        /\ UNCHANGED <<prep, attempt, clock, verdicts>>

\* Mutant of RecordSubmitted: the UPDATE is not guarded by broadcast_started.
RecordSubmittedAlways(p) ==
    LET r == local[p].req
    IN  /\ pc[p] = "answered"
        /\ attempt' = [attempt EXCEPT ![r].state = "submitted", ![r].receipt = "submitted"]
        /\ Return(p)
        /\ UNCHANGED <<prep, clock, network, verdicts>>

\* record_submitted.  When the row has left broadcast_started it raises, and
\* the mark_needs_recovery that follows is guarded by the same state.
RecordSubmitted(p) ==
    LET r == local[p].req
    IN  /\ pc[p] = "answered"
        /\ attempt' = IF attempt[r].state = "broadcast_started"
                      THEN [attempt EXCEPT ![r].state = "submitted",
                                           ![r].receipt = "submitted"]
                      ELSE attempt
        /\ Return(p)
        /\ UNCHANGED <<prep, clock, network, verdicts>>

\* The store refuses the write of record_submitted (a busy database).
StorageBusy(p) ==
    /\ pc[p] = "answered"
    /\ Continue(p, "unknown", local[p])
    /\ UNCHANGED <<prep, attempt, clock, network, verdicts>>

\* Mutant of RecordRejection: the rejected attempt is released, so that the
\* request can be executed again.
ReleaseRejected(p) ==
    LET r == local[p].req
    IN  /\ pc[p] = "rejected"
        /\ attempt' = [attempt EXCEPT ![r] = NoAttempt]
        /\ Return(p)
        /\ UNCHANGED <<prep, clock, network, verdicts>>

\* record_definitive_rejection.
RecordRejection(p) ==
    LET r == local[p].req
    IN  /\ pc[p] = "rejected"
        /\ attempt' = IF attempt[r].state = "broadcast_started"
                      THEN [attempt EXCEPT ![r].state = "failed", ![r].obs = "rejection"]
                      ELSE attempt
        /\ Return(p)
        /\ UNCHANGED <<prep, clock, network, verdicts>>

\* Mutant of MarkNeedsRecovery: a lost response is taken for a failure.
RecordLostAsFailed(p) ==
    LET r == local[p].req
    IN  /\ pc[p] = "unknown"
        /\ attempt' = IF attempt[r].state = "broadcast_started"
                      THEN [attempt EXCEPT ![r].state = "failed"]
                      ELSE attempt
        /\ Return(p)
        /\ UNCHANGED <<prep, clock, network, verdicts>>

\* mark_needs_recovery.
MarkNeedsRecovery(p) ==
    LET r == local[p].req
    IN  /\ pc[p] = "unknown"
        /\ attempt' = IF attempt[r].state = "broadcast_started"
                      THEN [attempt EXCEPT ![r].state = "needs_recovery"]
                      ELSE attempt
        /\ Return(p)
        /\ UNCHANGED <<prep, clock, network, verdicts>>

-----------------------------------------------------------------------------
(* status and recover                                                      *)

\* Mutant of Terminal: a failed attempt is refreshed again.
OnlyConfirmed == {"confirmed"}

\* Mutant of Terminal: an attempt in needs_recovery is left to its fate.
GiveUpOnUnknown == {"confirmed", "failed", "needs_recovery"}

\* The states that _refresh_attempt answers from without asking the network.
Terminal == {"confirmed", "failed"}

\* What recover says of an attempt it finds in a terminal state.
AnswerTerminal(r) ==
    IF attempt[r].state = "confirmed"
    THEN Answer(r, "recovered_confirmed", FALSE)
    ELSE Answer(r, "recovered_failed", TRUE)

\* Mutant of StartInspection: an attempt whose broadcast has only been started
\* is taken for one that was not sent.
InspectStartedAsUnsent(p, r, cmd) ==
    LET seen == IF attempt[r].state = "broadcast_started" THEN "none" ELSE attempt[r].state
        job == [NoJob EXCEPT !.req = r, !.cmd = cmd, !.seen = seen]
    IN  /\ pc[p] = "idle"
        /\ prep[r].state # "none"
        /\ \/ /\ seen = "none"
              /\ Continue(p, IF cmd = "status" THEN "inspecting" ELSE "second_look", job)
              /\ UNCHANGED verdicts
           \/ /\ seen \in Terminal
              /\ IF cmd = "recover" THEN AnswerTerminal(r) ELSE UNCHANGED verdicts
              /\ UNCHANGED <<pc, local>>
           \/ /\ seen \notin Terminal \cup {"none"}
              /\ Continue(p, "querying", job)
              /\ UNCHANGED verdicts
        /\ UNCHANGED <<prep, attempt, clock, network>>

\* status or recover reads the preparation and its attempt.
StartInspection(p, r, cmd) ==
    LET job == [NoJob EXCEPT !.req = r, !.cmd = cmd, !.seen = attempt[r].state]
    IN  /\ pc[p] = "idle"
        /\ prep[r].state # "none"
        /\ \/ /\ attempt[r].state = "none"
              /\ Continue(p, IF cmd = "status" THEN "inspecting" ELSE "second_look", job)
              /\ UNCHANGED verdicts
           \/ /\ attempt[r].state \in Terminal
              /\ IF cmd = "recover" THEN AnswerTerminal(r) ELSE UNCHANGED verdicts
              /\ UNCHANGED <<pc, local>>
           \/ /\ attempt[r].state \notin Terminal \cup {"none"}
              /\ Continue(p, "querying", job)
              /\ UNCHANGED verdicts
        /\ UNCHANGED <<prep, attempt, clock, network>>

\* recover found no attempt and calls the preparation backend's recover,
\* whose self.status is this backend's status: the attempt is read again.
SecondLook(p) ==
    LET r == local[p].req
        job == [local[p] EXCEPT !.cmd = "fallback", !.seen = attempt[r].state]
    IN  /\ pc[p] = "second_look"
        /\ \/ attempt[r].state = "none" /\ Continue(p, "inspecting", job) /\ UNCHANGED verdicts
           \/ /\ attempt[r].state \in Terminal
              /\ Answer(r, "failed_before_broadcast", FALSE)
              /\ Return(p)
           \/ /\ attempt[r].state \notin Terminal \cup {"none"}
              /\ Continue(p, "querying", job)
              /\ UNCHANGED verdicts
        /\ UNCHANGED <<prep, attempt, clock, network>>

\* Mutant of Inspect: a request without an attempt may always be replaced.
InspectAndOffer(p) ==
    LET r == local[p].req
        expired == prep[r].state = "expired" \/ r \in late \cup stale
    IN  /\ pc[p] = "inspecting"
        /\ IF expired THEN Expire(r) ELSE UNCHANGED prep
        /\ IF local[p].cmd = "status"
           THEN UNCHANGED verdicts
           ELSE Answer(r, "failed_before_broadcast", TRUE)
        /\ Return(p)
        /\ UNCHANGED <<attempt, clock, network>>

\* The preparation backend's status: an active preparation whose time or
\* blockhash has run out is marked expired.  Under recover it yields the
\* verdict on a request that was never broadcast.
Inspect(p) ==
    LET r == local[p].req
        expired == prep[r].state = "expired" \/ r \in late \cup stale
    IN  /\ pc[p] = "inspecting"
        /\ IF expired THEN Expire(r) ELSE UNCHANGED prep
        /\ IF local[p].cmd = "status"
           THEN UNCHANGED verdicts
           ELSE Answer(r, "failed_before_broadcast", expired)
        /\ Return(p)
        /\ UNCHANGED <<attempt, clock, network>>

\* What getSignatureStatuses may answer: the node may not know the signature
\* (yet), else it reports what the cluster did.
Observable(r) ==
    {"null"} \cup CASE chain[r] = "processed" -> {"processed"}
                    [] chain[r] \in {"reverted", "failed"} -> {"err"}
                    [] chain[r] = "confirmed" -> {"confirmed"}
                    [] OTHER -> {}

\* Mutant of DerivedState: any status without error counts as confirmed.
ProcessedMeansConfirmed(value, seen) ==
    CASE value = "null" -> IF seen = "submitted" THEN "submitted" ELSE "needs_recovery"
      [] value = "err" -> "failed"
      [] OTHER -> "confirmed"

\* The state _refresh_attempt derives from an answer and from the state the
\* attempt had when it was read.
DerivedState(value, seen) ==
    CASE value = "null" -> IF seen = "submitted" THEN "submitted" ELSE "needs_recovery"
      [] value = "err" -> "failed"
      [] value = "confirmed" -> "confirmed"
      [] value = "processed" -> "submitted"

\* The RPC half of _refresh_attempt.
Query(p) ==
    /\ pc[p] = "querying"
    /\ \E v \in Observable(local[p].req) :
          Continue(p, "observed",
              [local[p] EXCEPT !.seen = "none",
                               !.finding = DerivedState(v, local[p].seen),
                               !.value = IF v = "null" THEN "null" ELSE "value"])
    /\ UNCHANGED <<prep, attempt, clock, network, verdicts>>

\* record_observation: the row is overwritten whatever state it is in now.
RecordObservation(p) ==
    LET r == local[p].req
        s == local[p].finding
    IN  /\ pc[p] = "observed"
        /\ attempt' = [attempt EXCEPT ![r].state = s,
                                      ![r].obs = local[p].value,
                                      ![r].receipt = IF s \in Terminal THEN s ELSE @]
        /\ Continue(p, "reread", [NoJob EXCEPT !.req = r, !.cmd = local[p].cmd])
        /\ UNCHANGED <<prep, clock, network, verdicts>>

\* The row is read once more and answered from.
Reread(p) ==
    LET r == local[p].req
    IN  /\ pc[p] = "reread"
        /\ \/ local[p].cmd = "status" /\ Return(p) /\ UNCHANGED verdicts
           \/ /\ local[p].cmd = "fallback"
              /\ Return(p)
              /\ Answer(r, "failed_before_broadcast", FALSE)
           \/ /\ local[p].cmd = "recover" /\ attempt[r].state \in Terminal
              /\ Return(p)
              /\ AnswerTerminal(r)
           \/ /\ local[p].cmd = "recover" /\ attempt[r].state \notin Terminal
              /\ IF attempt[r].obs = "value"
                 THEN Return(p) /\ Answer(r, "submitted", FALSE)
                 ELSE Continue(p, "deciding", local[p]) /\ UNCHANGED verdicts
        /\ UNCHANGED <<prep, attempt, clock, network>>

\* Mutant of DecideByHeight: absence after the last valid height is taken as
\* proof that nothing was transferred.
DecideAndOffer(p) ==
    LET r == local[p].req
    IN  /\ pc[p] = "deciding"
        /\ \/ /\ r \in stale
              /\ attempt' = [attempt EXCEPT ![r].state = "needs_recovery", ![r].obs = "null"]
              /\ Answer(r, "not_found_after_expiry_needs_reconciliation", TRUE)
           \/ /\ r \notin stale
              /\ Answer(r, "needs_recovery", FALSE)
              /\ UNCHANGED attempt
        /\ Return(p)
        /\ UNCHANGED <<prep, clock, network>>

\* recover of an attempt no node knows: past the last valid height the
\* absence is recorded, before it the outcome stays open.
DecideByHeight(p) ==
    LET r == local[p].req
    IN  /\ pc[p] = "deciding"
        /\ \/ /\ r \in stale
              /\ attempt' = [attempt EXCEPT ![r].state = "needs_recovery", ![r].obs = "null"]
              /\ Answer(r, "not_found_after_expiry_needs_reconciliation", FALSE)
           \/ /\ r \notin stale
              /\ Answer(r, "needs_recovery", FALSE)
              /\ UNCHANGED attempt
        /\ Return(p)
        /\ UNCHANGED <<prep, clock, network>>

-----------------------------------------------------------------------------
(* Failures, the clock and the cluster                                     *)

\* The handler ends here without another write: the process is killed (at a
\* chaos point or anywhere else), or an RPC error or a refused check raises.
Abandon(p) ==
    /\ pc[p] # "idle"
    /\ Return(p)
    /\ UNCHANGED <<prep, attempt, clock, network, verdicts>>

BecomeLate(r) ==
    /\ prep[r].state # "none"
    /\ late' = late \cup {r}
    /\ UNCHANGED <<prep, attempt, stale, network, pc, local, verdicts>>

BecomeStale(r) ==
    /\ prep[r].state # "none"
    /\ stale' = stale \cup {r}
    /\ UNCHANGED <<prep, attempt, late, network, pc, local, verdicts>>

\* A transaction moves from one of the states "from" to the state "to".
Cluster(r, from, to) ==
    /\ chain[r] \in from
    /\ chain' = [chain EXCEPT ![r] = to]
    /\ UNCHANGED <<prep, attempt, clock, sends, pc, local, verdicts>>

\* A leader includes a transaction only while its blockhash is valid.
Include(r) == r \notin stale /\ \E s \in {"processed", "reverted"} : Cluster(r, {"pending"}, s)

\* A block with a transaction becomes final, or is rolled back with it.
SettledAs(s) == {IF s = "processed" THEN "confirmed" ELSE "failed"}
                \cup IF ForksPossible THEN {"pending"} ELSE {}
SettleBlock(r) == \E to \in SettledAs(chain[r]) : Cluster(r, {"processed", "reverted"}, to)

Drop(r) == r \in stale /\ Cluster(r, {"pending"}, "dropped")

-----------------------------------------------------------------------------

Execute(p) == \/ CheckHeight(p) \/ Claim(p) \/ Send(p) \/ RecordSubmitted(p)
              \/ StorageBusy(p) \/ RecordRejection(p) \/ MarkNeedsRecovery(p)

Recover(p) == \/ SecondLook(p) \/ Inspect(p) \/ Query(p) \/ RecordObservation(p)
              \/ Reread(p) \/ DecideByHeight(p)

Environment(r) == \/ BecomeLate(r) \/ BecomeStale(r)
                  \/ Include(r) \/ SettleBlock(r) \/ Drop(r)

Next ==
    \/ \E p \in Procs :
          \/ \E r \in Requests, plan \in Plans : StartPrepare(p, r, plan)
          \/ \E r \in Requests, a \in Auths : StartExecute(p, r, a)
          \/ \E r \in Requests, cmd \in {"status", "recover"} : StartInspection(p, r, cmd)
          \/ SavePreparation(p)
          \/ Execute(p)
          \/ Recover(p)
          \/ Abandon(p)
    \/ \E r \in Requests : Environment(r)

Spec == Init /\ [][Next]_vars

\* The caller of the gateway (outside this repository) asks for a second
\* preparation of an obligation only after recover has offered
\* may_rematerialize for each earlier one.
CallerDiscipline ==
    \A r, q \in Requests :
        /\ prep[r].state = "none" /\ prep'[r].state # "none"
        /\ q # r /\ prep[q].state # "none"
        /\ prep[q].plan.obligation = prep'[r].plan.obligation
        => \E v \in verdicts : v.req = q /\ v.remat

\* Fairness: a caller that keeps asking for recovery is served, a handler
\* that is not killed goes on, and a node that knows the outcome reports it
\* at some attempt that survives to record it.
Fairness ==
    /\ \A r \in Requests : SF_vars(\E p \in Procs : StartInspection(p, r, "recover"))
    /\ \A p \in Procs :
          /\ WF_vars(Execute(p) \/ Recover(p) \/ SavePreparation(p))
          /\ SF_vars(Query(p) /\ local'[p].value = "value")
          /\ SF_vars(RecordObservation(p) /\ local[p].value = "value")

\* Wall-clock expiry only moves preparations, which the recovery of an
\* attempt does not read; it is left out where liveness is checked.
FairSpec == Init /\ [][Next /\ UNCHANGED late]_vars /\ Fairness

-----------------------------------------------------------------------------
(* Properties                                                              *)

\* The outcomes that no later event can change.
Final == {"confirmed", "failed"}

\* The transaction of r is, or may still become, a transfer.
MayTransfer(r) == chain[r] \in {"pending", "processed", "confirmed"}

\* sendTransaction is called at most once for a request, whatever processes
\* race, crash or are asked again (ExecutionStore.claim).
AtMostOneSend == \A r \in Requests : sends[r] <= 1

\* Nothing is sent before the signature and the authorization are durable,
\* and no later write removes them: a crash never leaves a transaction on the
\* network that recovery cannot find.
SignatureBeforeSend ==
    \A r \in Requests :
        sends[r] > 0 => attempt[r].state # "none" /\ attempt[r].auth # None

\* An authorization is consumed by one request only, also when the authority
\* issues the same authorization_id for two requests.
AuthorizationSingleUse ==
    \A r, q \in Requests :
        attempt[r].auth # None /\ attempt[r].auth = attempt[q].auth => r = q

\* Two processes that compile messages for the same obligation at the same
\* time never both leave an active preparation behind.
OneActivePreparation ==
    \A r, q \in Requests :
        /\ prep[r].state = "prepared" /\ prep[q].state = "prepared"
        /\ prep[r].plan.obligation = prep[q].plan.obligation
        => r = q

\* What the execution table says is what the cluster did: "submitted" was
\* accepted by a node, a confirmation is final, and (where processed blocks
\* are not rolled back) a recorded failure can no longer become a transfer.
RecordedStateIsTrue ==
    \A r \in Requests :
        LET said == {attempt[r].state, attempt[r].receipt}
        IN  /\ "submitted" \in said => chain[r] # "unsent"
            /\ "confirmed" \in said => chain[r] = "confirmed"
            /\ "failed" \in said => ForksPossible \/ chain[r] \in {"unsent", "reverted", "failed"}

\* A confirmation that recover told a caller was final, and a failure that it
\* recovered never becomes a transfer.
RecoveredOutcomesStay ==
    \A v \in verdicts :
        /\ v.outcome = "recovered_confirmed" => chain[v.req] = "confirmed"
        /\ v.outcome = "recovered_failed" => ForksPossible \/ ~MayTransfer(v.req)

\* The receipt of a final observation is never replaced, although several
\* handlers write the row and one of them does so without looking at it.
ReceiptDurable ==
    [][\A r \in Requests :
          attempt[r].receipt \in Final => attempt'[r].receipt = attempt[r].receipt]_vars

\* When recover allows rematerialization, the transaction it speaks of can
\* not become a transfer.
NoRematerializationUnderUncertainty ==
    \A v \in verdicts : v.remat => ~MayTransfer(v.req)

\* What is left of it when handlers overlap.  An offer that was wrong is one of
\* an expired preparation, and it shows: there is an attempt, which a caller
\* sees that asks for the status before it prepares anew.
MistakenOffersShow ==
    \A v \in verdicts :
        v.remat /\ MayTransfer(v.req) =>
            \/ ForksPossible
            \/ prep[v.req].state = "expired" /\ attempt[v.req].state # "none"

\* A preparation that has expired without an attempt, while no handler is
\* between the check of its expiry and its claim.
Closed(r) ==
    /\ prep[r].state = "expired"
    /\ attempt[r].state = "none"
    /\ \A p \in Procs : pc[p] \in {"checking", "validated"} => local[p].req # r

\* An obligation is settled at most once.
OneTransferPerObligation ==
    \A r, q \in Requests :
        /\ chain[r] = "confirmed" /\ chain[q] = "confirmed"
        /\ prep[r].plan.obligation = prep[q].plan.obligation
        => r = q

\* Once the outcome of a transaction is final, recovery learns it, also when
\* the response was lost, the process died, or stale observers wrote over it.
OutcomeIsLearned ==
    \A r \in Requests :
        chain[r] \in Final ~> attempt[r].state = chain[r]

\* Locations of a handler that has seen or made the attempt of its request.
AfterClaim == {"claimed", "answered", "rejected", "unknown",
               "querying", "observed", "reread", "deciding"}

\* The inductive invariant behind AtMostOneSend, SignatureBeforeSend and
\* AuthorizationSingleUse: only the process that inserted the attempt can be
\* about to send, it is alone, and it has not sent yet.
BroadcastInv ==
    /\ \A r \in Requests : attempt[r].state = "none" <=> attempt[r].auth = None
    /\ \A r \in Requests : attempt[r].state = "none" => sends[r] = 0
    /\ \A r \in Requests : sends[r] <= 1
    /\ \A r \in Requests : chain[r] # "unsent" => sends[r] = 1
    /\ \A p \in Procs : pc[p] \in AfterClaim => attempt[local[p].req].state # "none"
    /\ \A p \in Procs : pc[p] = "claimed" => sends[local[p].req] = 0
    /\ \A p, q \in Procs :
          pc[p] = "claimed" /\ pc[q] = "claimed" /\ local[p].req = local[q].req => p = q
    /\ AuthorizationSingleUse

\* The promise of the module SingleBroadcast.
Promise == INSTANCE SingleBroadcast WITH
    holder <- [r \in Requests |-> attempt[r].auth],
    sent <- sends,
    applied <- {r \in Requests : chain[r] = "confirmed"}

\* Claim, broadcast and transfer happen in this order, each at most once.
ImplementsSingleBroadcast == Promise!Spec
=============================================================================
