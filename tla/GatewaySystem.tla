---------------------------- MODULE GatewaySystem ----------------------------
(***************************************************************************)
(* The external gateway as one process runs it: the loop of gateway/cli.py *)
(* reads a request, the journal reserves its id, handle calls the Solana   *)
(* backend, and what the backend's handler ends with becomes the stored    *)
(* answer.  GatewayJournal and GatewayExecution each leave the other half  *)
(* open: here the backend call of the journal is the handler of the        *)
(* backend, and a killed process loses both.                               *)
(***************************************************************************)
EXTENDS Naturals

CONSTANTS
    Ids,           \* gateway_request_ids
    Requests,      \* execution_request_ids
    Auths,         \* authorization_ids issued by the external authority
    Obligations,   \* obligation_ids an economic plan may settle
    PlanHashes,    \* economic_plan_hash values
    Inputs,        \* what the callers ask: command and payload
    Procs,         \* gateway processes
    ForksPossible, \* whether a "processed" transaction may be rolled back
    None

VARIABLES
    rows, events, dispatched, outcome, printed,  \* the gateway's journal
    jpc, jlocal,                                 \* each process in handle
    prep, attempt, late, stale, chain, sends,
    verdicts,                                    \* the backend
    epc, elocal,                                 \* each process in the backend
    sender,   \* the id whose call sent the transaction of a request
    reason    \* what the error of an id says of the broadcast

journal == <<rows, events, dispatched, outcome, jpc, jlocal, printed>>
backend == <<prep, attempt, late, stale, chain, sends, epc, elocal, verdicts>>
vars == <<journal, backend, sender, reason>>

J == INSTANCE GatewayJournal WITH pc <- jpc, local <- jlocal
E == INSTANCE GatewayExecution WITH pc <- epc, local <- elocal

Commands == {"prepare", "authorize-and-execute", "status", "recover", "evidence"}

ASSUME NoneAssumption ==
    /\ None \notin Ids \cup Inputs \cup Requests \cup Auths \cup E!Plans
    /\ ForksPossible \in BOOLEAN

\* A prepare names a plan, an authorize-and-execute an authorization.
ASSUME InputsAssumption ==
    /\ Inputs \subseteq [cmd : Commands, req : Requests,
                         plan : E!Plans \cup {None}, auth : Auths \cup {None}]
    /\ \A ask \in Inputs : /\ ask.cmd = "prepare" => ask.plan \in E!Plans
                           /\ ask.cmd = "authorize-and-execute" => ask.auth \in Auths

\* The codes of a GatewayError, by what they tell the caller: nothing was
\* sent for this id, the node refused the transaction, or it may be out.
Reasons == {"none", "refused", "rejected", "uncertain"}

TypeOK ==
    /\ J!TypeOK
    /\ E!TypeOK
    /\ sender \in [Requests -> Ids \cup {None}]
    /\ reason \in [Ids -> Reasons]

Init ==
    /\ J!Init
    /\ E!Init
    /\ sender = [r \in Requests |-> None]
    /\ reason = [i \in Ids |-> "none"]

-----------------------------------------------------------------------------
(* What the backend's methods return or raise                              *)

Ask(p) == jlocal[p].input

Result == [kind |-> "result", reason |-> "none"]
Error(why) == [kind |-> "error", reason |-> why]
Exception == [kind |-> "backend_failure", reason |-> "none"]

\* prepare: the row with the same plan hash is replayed, any other row the
\* lookup finds is a preparation_conflict.
PrepareEnds(r, plan) ==
    LET found == E!Blocking(r, plan.obligation)
        Same(q) == q = r /\ prep[q].plan.hash = plan.hash
    IN  {Result : q \in {q \in found : Same(q)}} \cup
        {Error("refused") : q \in {q \in found : ~Same(q)}}

\* The methods that end without any step of the backend's model.
EndsAtOnce(ask) ==
    LET known == prep[ask.req].state # "none"
    IN  CASE ask.cmd = "prepare" -> PrepareEnds(ask.req, ask.plan)
          [] ask.cmd = "authorize-and-execute" ->
                IF prep[ask.req].state = "prepared" THEN {} ELSE {Error("refused")}
          [] ask.cmd = "evidence" -> {IF known THEN Result ELSE Error("refused")}
          [] OTHER -> IF known THEN {} ELSE {Error("refused")}

\* Mutant of Ends: a submission that could not be attached is an error like
\* the others.
EndsWithoutDoubt(p) ==
    LET r == elocal[p].req
        attached == attempt[r].state = "broadcast_started"
    IN  CASE epc[p] = "compiling" ->
                LET found == PrepareEnds(r, elocal[p].plan)
                IN  IF found = {} THEN {Result} ELSE found
          [] epc[p] \in {"checking", "validated", "rejected", "unknown"} -> {Error("refused")}
          [] epc[p] = "answered" -> {IF attached THEN Result ELSE Error("refused")}
          [] OTHER -> {Result}

\* Mutant of Ends: the answer of the node is the result, whether or not
\* record_submitted could attach it.
EndsWithTheAnswer(p) ==
    LET r == elocal[p].req
    IN  CASE epc[p] = "compiling" -> {Result}
          [] epc[p] \in {"checking", "validated"} -> {Error("refused")}
          [] epc[p] = "rejected" -> {Error("rejected")}
          [] epc[p] = "unknown" -> {Error("uncertain")}
          [] OTHER -> {Result}

\* What a method ends with when its handler takes its last step in location
\* epc[p].  A submission or a rejection that finds the attempt out of
\* broadcast_started raises needs_recovery.
Ends(p) ==
    LET r == elocal[p].req
        attached == attempt[r].state = "broadcast_started"
    IN  CASE epc[p] = "compiling" ->
                LET found == PrepareEnds(r, elocal[p].plan)
                IN  IF found = {} THEN {Result} ELSE found
          [] epc[p] \in {"checking", "validated"} -> {Error("refused")}
          [] epc[p] = "answered" -> {IF attached THEN Result ELSE Error("uncertain")}
          [] epc[p] = "rejected" ->
                {IF attached THEN Error("rejected") ELSE Error("uncertain")}
          [] epc[p] = "unknown" -> {Error("uncertain")}
          [] OTHER -> {Result}

\* What an exception of an RPC call, a check or SQLite ends a method with.
\* Once the transaction was handed over only a failing UPDATE can raise, and
\* sqlite3's errors are no GatewayErrors.
EndsRaising(p) ==
    CASE epc[p] \in {"claimed", "answered"} -> {}
      [] epc[p] \in {"rejected", "unknown"} -> {Exception}
      [] OTHER -> {Exception, Error("refused")}

\* The backend call of p returns to handle with one of the ends.
ReturnWith(p, ends) ==
    /\ J!Dispatch(p)
    /\ \E e \in ends :
          /\ jlocal'[p].kind = e.kind
          /\ reason' = [reason EXCEPT ![jlocal[p].id] = e.reason]

\* The backend's method runs on, or ends with one of the ends.
RunOn(p, ends) ==
    IF epc'[p] = "idle"
    THEN ReturnWith(p, ends)
    ELSE UNCHANGED <<journal, reason>>

-----------------------------------------------------------------------------
(* Steps                                                                   *)

ReadRequest(p, i, input) == J!Reserve(p, i, input) /\ UNCHANGED <<backend, sender, reason>>

\* What handle and run_jsonl do around the call.
HandleStep(p) ==
    /\ \/ J!RecordResponse(p) \/ J!Complete(p) \/ J!CompleteRaises(p) \/ J!WriteResponse(p)
    /\ UNCHANGED <<backend, sender, reason>>

\* handle calls the method of the request's command.
CallMethod(p) ==
    LET ask == Ask(p)
    IN  /\ jpc[p] = "dispatching" /\ epc[p] = "idle"
        /\ \/ ask.cmd = "prepare" /\ E!StartPrepare(p, ask.req, ask.plan)
           \/ ask.cmd = "authorize-and-execute" /\ E!StartExecute(p, ask.req, ask.auth)
           \/ ask.cmd \in {"status", "recover"} /\ E!StartInspection(p, ask.req, ask.cmd)
        /\ RunOn(p, IF ask.cmd = "authorize-and-execute" THEN {Error("refused")} ELSE {Result})
        /\ UNCHANGED sender

EndMethod(p) ==
    /\ jpc[p] = "dispatching" /\ epc[p] = "idle"
    /\ ReturnWith(p, EndsAtOnce(Ask(p)))
    /\ UNCHANGED <<backend, sender>>

MethodStep(p) ==
    /\ jpc[p] = "dispatching" /\ epc[p] # "idle"
    /\ \/ E!Send(p) /\ sender' = [sender EXCEPT ![elocal[p].req] = jlocal[p].id]
       \/ /\ E!SavePreparation(p) \/ E!CheckHeight(p) \/ E!Claim(p) \/ E!RecordSubmitted(p)
             \/ E!StorageBusy(p) \/ E!RecordRejection(p) \/ E!MarkNeedsRecovery(p) \/ E!Recover(p)
          /\ UNCHANGED sender
    /\ RunOn(p, Ends(p))

MethodRaises(p) ==
    /\ jpc[p] = "dispatching" /\ epc[p] # "idle"
    /\ E!Abandon(p)
    /\ ReturnWith(p, EndsRaising(p))
    /\ UNCHANGED sender

\* Mutant of Die: the thread that serves the backend outlives handle.
DieInHandleOnly(p) == J!Die(p) /\ UNCHANGED <<backend, sender, reason>>

\* The process is killed, wherever it is.
Die(p) ==
    /\ J!Die(p)
    /\ IF epc[p] = "idle" THEN UNCHANGED backend ELSE E!Abandon(p)
    /\ UNCHANGED <<sender, reason>>

Environment(r) == E!Environment(r) /\ UNCHANGED <<journal, sender, reason>>

Step(p) == HandleStep(p) \/ CallMethod(p) \/ EndMethod(p) \/ MethodStep(p)

Next ==
    \/ \E p \in Procs :
          \/ \E i \in Ids, input \in Inputs : ReadRequest(p, i, input)
          \/ Step(p)
          \/ MethodRaises(p)
          \/ Die(p)
    \/ \E r \in Requests : Environment(r)

Spec == Init /\ [][Next]_vars

-----------------------------------------------------------------------------
(* Properties                                                              *)

\* A result under an id is backed by the backend's tables and the cluster: a
\* prepared message is the stored one, and a receipt belongs to the one
\* transaction, sent by this very call, whose submission is durable.
ResultIsBacked ==
    \A i \in Ids :
        LET ask == rows[i].input
        IN  rows[i].response = "result" =>
              /\ ask.cmd = "prepare" => prep[ask.req].plan.hash = ask.plan.hash
              /\ ask.cmd = "authorize-and-execute" =>
                    /\ sender[ask.req] = i
                    /\ attempt[ask.req].auth = ask.auth
                    /\ attempt[ask.req].receipt # "none"
                    /\ chain[ask.req] # "unsent"

\* An error that does not tell the caller to recover was raised before
\* anything was sent for its id; a rejection is of a transaction the node did
\* not take, or its caller is told to recover.
RefusalSentNothing ==
    \A i \in Ids :
        rows[i].response = "error" =>
            /\ reason[i] = "refused" => \A r \in Requests : sender[r] # i
            /\ reason[i] = "rejected" => chain[rows[i].input.req] = "unsent"

\* Every transaction on the network was asked for by a request that the
\* gateway reserved, under the authorization it carried.
SendIsAccountedFor ==
    \A r \in Requests :
        sends[r] > 0 =>
            LET row == rows[sender[r]]
            IN  /\ sender[r] \in Ids
                /\ row.state # "none"
                /\ row.input.cmd = "authorize-and-execute"
                /\ row.input.req = r
                /\ row.input.auth = attempt[r].auth

\* Nothing is sent under an id that already has its answer: no handler of a
\* killed or answered call lives on.
NoSendAfterAnswer ==
    [][\A r \in Requests :
          sends'[r] # sends[r] => rows[sender'[r]].response = "none"]_vars

\* A backend handler runs for the request that its process has reserved, with
\* what the caller's payload says, and up to the send under its authorization.
Coupled(p) ==
    epc[p] # "idle" =>
        /\ jpc[p] = "dispatching"
        /\ elocal[p].req = Ask(p).req
        /\ epc[p] \in {"checking", "validated", "claimed"} =>
              Ask(p).cmd = "authorize-and-execute"
        /\ epc[p] \in {"checking", "validated"} => elocal[p].auth = Ask(p).auth
        /\ epc[p] = "claimed" => attempt[Ask(p).req].auth = Ask(p).auth

CoupledInv == \A p \in Procs : Coupled(p)

\* The composition keeps what is proved of its halves.
ImplementsJournal == J!Spec
ImplementsBackend == E!Spec
=============================================================================
