--------------------------- MODULE GatewayJournal ---------------------------
(***************************************************************************)
(* The transport journal of the external gateway (gateway/journal.py) and  *)
(* the dispatch around it (gateway/service.py, run_jsonl of                *)
(* gateway/cli.py).  Several gateway processes read requests, share one    *)
(* SQLite journal and call one execution backend.                          *)
(*                                                                         *)
(* One action is one journal transaction, the backend call or the write to *)
(* stdout.  A process may be killed between any two of them, and a         *)
(* transaction may be refused by a busy database.  A request's input       *)
(* stands for its request_hash; the events table is kept as the set of     *)
(* what was recorded, without its sequence numbers.                        *)
(***************************************************************************)
EXTENDS Naturals

CONSTANTS
    Ids,     \* gateway_request_ids
    Inputs,  \* what a request may ask under an id, up to request_hash
    Procs,   \* gateway processes that share the journal
    None     \* absence of an id, an input or a response

ASSUME NoneIsNew == None \notin Ids \cup Inputs

VARIABLES
    rows,        \* table gateway_requests
    events,      \* table gateway_events
    dispatched,  \* backend calls made for an id
    outcome,     \* how the backend's last call for an id ended
    pc,          \* where each process is in handle
    local,       \* what handle holds in its local variables
    printed      \* responses that reached stdout

vars == <<rows, events, dispatched, outcome, pc, local, printed>>

\* The response a request ends with, and the refusals that end only the
\* handling of one line.
Final == {"result", "error", "backend_failure"}
Refusals == {"conflict", "needs_recovery"}

Row == [state : {"none", "reserved", "completed", "failed"},
        input : Inputs \cup {None},
        response : Final \cup {"none"}]

NoRow == [state |-> "none", input |-> None, response |-> "none"]

\* Events with a response carry it; the others carry the request.
EventTypes == {"request_reserved", "idempotency_conflict_detected", "response_replayed",
               "recovery_required", "idempotency_conflict_response",
               "recovery_required_response", "request_completed", "request_failed"}

Event == [id : Ids, type : EventTypes, response : Final \cup Refusals \cup {"none"}]

Response == [id : Ids, input : Inputs, kind : Final \cup Refusals, replayed : BOOLEAN]

\* "completing" is the call of complete inside the try block, "failing" the
\* one in the except clauses: an exception raised there leaves handle.
Locations == {"idle", "dispatching", "completing", "failing", "refusing", "printing"}

Job == [id : Ids \cup {None}, input : Inputs \cup {None},
        kind : Final \cup Refusals \cup {"none"}, replayed : BOOLEAN]

NoJob == [id |-> None, input |-> None, kind |-> "none", replayed |-> FALSE]

TypeOK ==
    /\ rows \in [Ids -> Row]
    /\ events \subseteq Event
    /\ dispatched \in [Ids -> Nat]
    /\ outcome \in [Ids -> {"none", "result", "error", "exception"}]
    /\ pc \in [Procs -> Locations]
    /\ local \in [Procs -> Job]
    /\ printed \subseteq Response

Init ==
    /\ rows = [i \in Ids |-> NoRow]
    /\ events = {}
    /\ dispatched = [i \in Ids |-> 0]
    /\ outcome = [i \in Ids |-> "none"]
    /\ pc = [p \in Procs |-> "idle"]
    /\ local = [p \in Procs |-> NoJob]
    /\ printed = {}

-----------------------------------------------------------------------------

Continue(p, l, j) ==
    /\ pc' = [pc EXCEPT ![p] = l]
    /\ local' = [local EXCEPT ![p] = j]

Record(i, type, response) ==
    events' = events \cup {[id |-> i, type |-> type, response |-> response]}

\* The job of process p as reserve leaves it for the request (i, input).
Request(i, input, kind, replayed) ==
    [id |-> i, input |-> input, kind |-> kind, replayed |-> replayed]

\* Mutant of Reserve: a request without a response is handed to the backend
\* again.
ReserveAgain(p, i, input) ==
    /\ pc[p] = "idle"
    /\ rows[i].response = "none"
    /\ rows' = [rows EXCEPT ![i] = [state |-> "reserved", input |-> input, response |-> "none"]]
    /\ Record(i, "request_reserved", "none")
    /\ Continue(p, "dispatching", Request(i, input, "none", FALSE))
    /\ UNCHANGED <<dispatched, outcome, printed>>

\* Mutant of Reserve: the stored response is replayed whatever the input.
ReserveById(p, i, input) ==
    /\ pc[p] = "idle"
    /\ \/ /\ rows[i].state = "none"
          /\ rows' = [rows EXCEPT ![i] = [state |-> "reserved", input |-> input,
                                          response |-> "none"]]
          /\ Record(i, "request_reserved", "none")
          /\ Continue(p, "dispatching", Request(i, input, "none", FALSE))
       \/ /\ rows[i].response # "none"
          /\ Record(i, "response_replayed", rows[i].response)
          /\ Continue(p, "printing", Request(i, input, rows[i].response, TRUE))
          /\ UNCHANGED rows
    /\ UNCHANGED <<dispatched, outcome, printed>>

\* Mutant of Reserve: every id that is in use needs recovery.
ReserveWithoutReplay(p, i, input) ==
    /\ pc[p] = "idle"
    /\ \/ /\ rows[i].state = "none"
          /\ rows' = [rows EXCEPT ![i] = [state |-> "reserved", input |-> input,
                                          response |-> "none"]]
          /\ Record(i, "request_reserved", "none")
          /\ Continue(p, "dispatching", Request(i, input, "none", FALSE))
       \/ /\ rows[i].state # "none"
          /\ Record(i, "recovery_required", "none")
          /\ Continue(p, "refusing", Request(i, input, "needs_recovery", FALSE))
          /\ UNCHANGED rows
    /\ UNCHANGED <<dispatched, outcome, printed>>

\* reserve, the four dispositions: the id is new; it belongs to another
\* input; its response is durable and is replayed; it has no response yet.
Reserve(p, i, input) ==
    /\ pc[p] = "idle"
    /\ \/ /\ rows[i].state = "none"
          /\ rows' = [rows EXCEPT ![i] = [state |-> "reserved", input |-> input,
                                          response |-> "none"]]
          /\ Record(i, "request_reserved", "none")
          /\ Continue(p, "dispatching", Request(i, input, "none", FALSE))
       \/ /\ rows[i].state # "none" /\ rows[i].input # input
          /\ Record(i, "idempotency_conflict_detected", "none")
          /\ Continue(p, "refusing", Request(i, input, "conflict", FALSE))
          /\ UNCHANGED rows
       \/ /\ rows[i].input = input /\ rows[i].response # "none"
          /\ Record(i, "response_replayed", rows[i].response)
          /\ Continue(p, "printing", Request(i, input, rows[i].response, TRUE))
          /\ UNCHANGED rows
       \/ /\ rows[i].input = input /\ rows[i].response = "none"
          /\ Record(i, "recovery_required", "none")
          /\ Continue(p, "refusing", Request(i, input, "needs_recovery", FALSE))
          /\ UNCHANGED rows
    /\ UNCHANGED <<dispatched, outcome, printed>>

\* record_response for the two refusals.
RecordResponse(p) ==
    /\ pc[p] = "refusing"
    /\ Record(local[p].id,
              IF local[p].kind = "conflict" THEN "idempotency_conflict_response"
                                            ELSE "recovery_required_response",
              local[p].kind)
    /\ Continue(p, "printing", local[p])
    /\ UNCHANGED <<rows, dispatched, outcome, printed>>

\* The backend call of handle: it returns a result, raises a GatewayError,
\* or raises anything else.
Dispatch(p) ==
    LET i == local[p].id
    IN  /\ pc[p] = "dispatching"
        /\ dispatched' = [dispatched EXCEPT ![i] = @ + 1]
        /\ \/ /\ outcome' = [outcome EXCEPT ![i] = "result"]
              /\ Continue(p, "completing", [local[p] EXCEPT !.kind = "result"])
           \/ /\ outcome' = [outcome EXCEPT ![i] = "error"]
              /\ Continue(p, "failing", [local[p] EXCEPT !.kind = "error"])
           \/ /\ outcome' = [outcome EXCEPT ![i] = "exception"]
              /\ Continue(p, "failing", [local[p] EXCEPT !.kind = "backend_failure"])
        /\ UNCHANGED <<rows, events, printed>>

\* Mutant of Complete: the response is printed although it was not stored.
CompleteInMemory(p) ==
    /\ pc[p] \in {"completing", "failing"}
    /\ Continue(p, "printing", local[p])
    /\ UNCHANGED <<rows, events, dispatched, outcome, printed>>

\* complete: the response event and the row are written together; the UPDATE
\* is guarded by the request's hash and by nothing else.
Complete(p) ==
    LET i == local[p].id
        state == IF pc[p] = "completing" THEN "completed" ELSE "failed"
    IN  /\ pc[p] \in {"completing", "failing"}
        /\ Record(i, IF state = "completed" THEN "request_completed" ELSE "request_failed",
                  local[p].kind)
        /\ rows' = IF rows[i].input = local[p].input
                   THEN [rows EXCEPT ![i] = [state |-> state, input |-> local[p].input,
                                             response |-> local[p].kind]]
                   ELSE rows
        /\ Continue(p, "printing", local[p])
        /\ UNCHANGED <<dispatched, outcome, printed>>

\* Mutant of CompleteRaises: a storage failure is reported as an error of
\* the backend.
RaisesAsError(p) ==
    /\ pc[p] = "completing"
    /\ Continue(p, "failing", [local[p] EXCEPT !.kind = "error"])
    /\ UNCHANGED <<rows, events, dispatched, outcome, printed>>

\* complete raises inside the try block (a busy database, a result that is
\* not JSON): the except clause records a backend_failure instead.
CompleteRaises(p) ==
    /\ pc[p] = "completing"
    /\ Continue(p, "failing", [local[p] EXCEPT !.kind = "backend_failure"])
    /\ UNCHANGED <<rows, events, dispatched, outcome, printed>>

\* run_jsonl writes and flushes the response.
WriteResponse(p) ==
    /\ pc[p] = "printing"
    /\ printed' = printed \cup
          {[id |-> local[p].id, input |-> local[p].input,
            kind |-> local[p].kind, replayed |-> local[p].replayed]}
    /\ Continue(p, "idle", NoJob)
    /\ UNCHANGED <<rows, events, dispatched, outcome>>

\* The process is killed, or an exception that is no GatewayError leaves
\* handle and ends run_jsonl; the caller starts it again.
Die(p) ==
    /\ pc[p] # "idle"
    /\ Continue(p, "idle", NoJob)
    /\ UNCHANGED <<rows, events, dispatched, outcome, printed>>

Handle(p) == RecordResponse(p) \/ Dispatch(p) \/ Complete(p) \/ CompleteRaises(p) \/ WriteResponse(p)

Next == \E p \in Procs :
            \/ \E i \in Ids, input \in Inputs : Reserve(p, i, input)
            \/ Handle(p)
            \/ Die(p)

Spec == Init /\ [][Next]_vars

\* The caller repeats a request that has its answer; a process does its next
\* step unless it is killed, and is not killed before every single print.
Fairness ==
    /\ \A i \in Ids : SF_vars(\E p \in Procs : Reserve(p, i, rows[i].input))
    /\ \A p \in Procs : WF_vars(Handle(p))
    /\ \A p \in Procs, i \in Ids :
          SF_vars(WriteResponse(p) /\ local[p].id = i /\ local[p].kind \in Final)

FairSpec == Spec /\ Fairness

-----------------------------------------------------------------------------
(* Properties                                                              *)

\* A request is handed to the backend at most once, whatever processes use
\* its id at the same time or after a crash (reserve before dispatch, no
\* automatic redispatch).
DispatchedOnce == \A i \in Ids : dispatched[i] <= 1

\* What callers were told under one id stays consistent with the journal: an
\* answer is the stored answer to that very input, a conflict belongs to
\* another input, and needs_recovery to the owner of the id.
AnswersAgree ==
    \A a \in printed :
        LET row == rows[a.id]
        IN  /\ a.kind \in Final => row.input = a.input /\ row.response = a.kind
            /\ a.kind = "conflict" => row.input # a.input
            /\ a.kind = "needs_recovery" => row.input = a.input

\* An answer the caller saw is in the event log as a response of that id, so
\* that a crash right after the flush loses nothing.
JournaledBeforePrinted ==
    \A a \in printed :
        \E e \in events :
            /\ e.id = a.id /\ e.response = a.kind
            /\ a.replayed => e.type = "response_replayed"

\* A result or an error of the backend is reported only when the backend's
\* one call ended that way.
AnswersAreTruthful ==
    \A a \in printed :
        a.kind \in {"result", "error"} => outcome[a.id] = a.kind

\* The stored response of an id never changes, although complete overwrites
\* the row without looking at it.
ResponseDurable ==
    [][\A i \in Ids :
          rows[i].response # "none"
          => /\ rows'[i].response = rows[i].response
             /\ rows'[i].input = rows[i].input]_vars

\* A stored response reaches a caller who keeps asking, also when the process
\* that computed it died before its first print.
StoredAnswerIsTold ==
    \A i \in Ids :
        rows[i].response # "none"
        ~> \E a \in printed : a.id = i /\ a.kind = rows[i].response

\* The locations between reserve and complete.
Working == {"dispatching", "completing", "failing"}

\* The rows and the backend's part of the inductive invariant.
RowsInv ==
    \A i \in Ids :
        /\ rows[i].state = "none" <=> rows[i].input = None
        /\ rows[i].state \in {"none", "reserved"} <=> rows[i].response = "none"
        /\ rows[i].state = "none" => dispatched[i] = 0
        /\ rows[i].response # "none" => dispatched[i] = 1
        /\ rows[i].response \in {"result", "error"} => outcome[i] = rows[i].response
        /\ dispatched[i] <= 1

\* A process at l with job j that works on an id finds the row as reserve
\* left it, and holds what the backend said.
WorkOK(l, j) ==
    l \in Working =>
        /\ rows[j.id].state = "reserved"
        /\ rows[j.id].input = j.input
        /\ dispatched[j.id] = (IF l = "dispatching" THEN 0 ELSE 1)
        /\ l = "completing" => j.kind = "result"
        /\ l # "dispatching" /\ j.kind \in {"result", "error"} => outcome[j.id] = j.kind

\* What a caller is being told, or was told, is in the row.
InRow(i, input, kind) ==
    /\ rows[i].state # "none"
    /\ kind \in Final => rows[i].input = input /\ rows[i].response = kind
    /\ kind = "conflict" => rows[i].input # input
    /\ kind = "needs_recovery" => rows[i].input = input

TellOK(l, j) ==
    /\ l \in {"refusing", "printing"} => InRow(j.id, j.input, j.kind)
    /\ l = "refusing" => j.kind \in Refusals

\* The inductive invariant: the process that reserved an id is the only one
\* that works on it and finds its row untouched, and whatever is being
\* printed or was printed is in the row.
JournalInv ==
    /\ RowsInv
    /\ \A p \in Procs : WorkOK(pc[p], local[p]) /\ TellOK(pc[p], local[p])
    /\ \A p, q \in Procs :
          pc[p] \in Working /\ pc[q] \in Working /\ local[p].id = local[q].id => p = q
    /\ \A a \in printed : InRow(a.id, a.input, a.kind)

\* The promise of the module OneAnswer.
Promise == INSTANCE OneAnswer WITH
    Answers <- Final,
    owner <- [i \in Ids |-> rows[i].input],
    calls <- dispatched,
    answer <- [i \in Ids |-> rows[i].response],
    told <- {[id |-> a.id, input |-> a.input, kind |-> a.kind] :
                a \in {b \in printed : b.kind \in Final}}

\* One owner, one backend call and one answer for each id.
ImplementsOneAnswer == Promise!Spec
=============================================================================
