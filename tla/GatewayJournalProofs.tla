------------------------ MODULE GatewayJournalProofs ------------------------
(***************************************************************************)
(* Theorems about GatewayJournal: type correctness, one backend call for   *)
(* each request id, the agreement of everything callers were told, the     *)
(* durability of a stored response, and the refinement of OneAnswer.       *)
(***************************************************************************)
EXTENDS GatewayJournal, TLAPS

\* A process inside handle has a request in its local variables.
JobOK ==
    \A p \in Procs :
        /\ pc[p] # "idle" => local[p].id \in Ids /\ local[p].input \in Inputs
        /\ pc[p] \in {"completing", "failing"} => local[p].kind \in Final
        /\ pc[p] \in {"refusing", "printing"} => local[p].kind \in Final \cup Refusals

Typed == TypeOK /\ JobOK

LEMMA NoJobType == NoJob \in Job
  BY DEF NoJob, Job

LEMMA RequestType ==
    ASSUME NEW i \in Ids, NEW input \in Inputs,
           NEW kind \in Final \cup Refusals \cup {"none"}, NEW replayed \in BOOLEAN
    PROVE  /\ Request(i, input, kind, replayed) \in Job
           /\ Request(i, input, kind, replayed).id = i
           /\ Request(i, input, kind, replayed).input = input
           /\ Request(i, input, kind, replayed).kind = kind
  BY DEF Request, Job

\* A step to location l with a job that fits keeps processes well typed.
LEMMA ContinueTyped ==
    ASSUME Typed, NEW p \in Procs, NEW l \in Locations, NEW j \in Job, Continue(p, l, j),
           l # "idle" => j.id \in Ids /\ j.input \in Inputs,
           l \in {"completing", "failing"} => j.kind \in Final,
           l \in {"refusing", "printing"} => j.kind \in Final \cup Refusals
    PROVE  /\ pc' \in [Procs -> Locations]
           /\ local' \in [Procs -> Job]
           /\ JobOK'
  BY DEF Typed, TypeOK, JobOK, Continue

LEMMA RecordTyped ==
    ASSUME Typed, NEW i \in Ids, NEW type \in EventTypes,
           NEW response \in Final \cup Refusals \cup {"none"}, Record(i, type, response)
    PROVE  events' \subseteq Event
  BY DEF Typed, TypeOK, Record, Event

LEMMA InitTyped == Init => Typed
  BY NoJobType DEF Init, Typed, TypeOK, JobOK, NoRow, Row, Locations

LEMMA ReserveJob ==
    ASSUME Typed, NEW p \in Procs, NEW i \in Ids, NEW input \in Inputs,
           NEW l \in {"dispatching", "refusing", "printing"},
           NEW kind \in Final \cup Refusals \cup {"none"}, NEW replayed \in BOOLEAN,
           Continue(p, l, Request(i, input, kind, replayed)),
           l # "dispatching" => kind \in Final \cup Refusals
    PROVE  /\ pc' \in [Procs -> Locations]
           /\ local' \in [Procs -> Job]
           /\ JobOK'
  <1>1. l \in Locations
    BY DEF Locations
  <1>2. QED
    BY <1>1, RequestType, ContinueTyped

LEMMA ReserveTyped ==
    ASSUME Typed, NEW p \in Procs, NEW i \in Ids, NEW input \in Inputs, Reserve(p, i, input)
    PROVE  Typed'
  <1> DEFINE row == [state |-> "reserved", input |-> input, response |-> "none"]
  <1>1. row \in Row /\ rows[i].response \in Final \cup {"none"}
    BY DEF Row, Typed, TypeOK
  <1>2. rows' \in [Ids -> Row]
    BY <1>1 DEF Reserve, Typed, TypeOK
  <1>3. events' \subseteq Event
    <2>1. "none" \in Final \cup Refusals \cup {"none"}
      OBVIOUS
    <2>2. \E type \in EventTypes, response \in Final \cup Refusals \cup {"none"} :
             Record(i, type, response)
      BY <1>1 DEF Reserve, EventTypes
    <2>3. QED
      BY <2>2, RecordTyped
  <1>4. pc' \in [Procs -> Locations] /\ local' \in [Procs -> Job] /\ JobOK'
    <2>1. CASE Continue(p, "dispatching", Request(i, input, "none", FALSE))
      BY <2>1, ReserveJob
    <2>2. CASE Continue(p, "refusing", Request(i, input, "conflict", FALSE))
      BY <2>2, ReserveJob DEF Refusals
    <2>3. CASE /\ rows[i].response # "none"
               /\ Continue(p, "printing", Request(i, input, rows[i].response, TRUE))
      BY <1>1, <2>3, ReserveJob
    <2>4. CASE Continue(p, "refusing", Request(i, input, "needs_recovery", FALSE))
      BY <2>4, ReserveJob DEF Refusals
    <2>5. QED
      BY <2>1, <2>2, <2>3, <2>4 DEF Reserve
  <1>5. QED
    BY <1>2, <1>3, <1>4 DEF Reserve, Typed, TypeOK

LEMMA HandleTyped ==
    ASSUME Typed, NEW p \in Procs, Handle(p)
    PROVE  Typed'
  <1> DEFINE i == local[p].id
             input == local[p].input
             kind == local[p].kind
  <1>1. /\ i \in Ids /\ input \in Inputs /\ local[p] \in Job
        /\ pc[p] \in {"completing", "failing"} => kind \in Final
        /\ pc[p] \in {"refusing", "printing"} => kind \in Final \cup Refusals
    BY DEF Handle, RecordResponse, Dispatch, Complete, CompleteRaises, WriteResponse,
           Typed, TypeOK, JobOK
  <1>2. CASE RecordResponse(p)
    <2>1. events' \subseteq Event
      <3>1. PICK type \in EventTypes : Record(i, type, kind)
        BY <1>2 DEF RecordResponse, EventTypes
      <3>2. QED
        BY <1>1, <1>2, <3>1, RecordTyped DEF RecordResponse
    <2>2. pc' \in [Procs -> Locations] /\ local' \in [Procs -> Job] /\ JobOK'
      BY <1>1, <1>2, ContinueTyped DEF RecordResponse, Locations
    <2>3. QED
      BY <1>2, <2>1, <2>2 DEF RecordResponse, Typed, TypeOK
  <1>3. CASE Dispatch(p)
    <2>1. PICK l \in {"completing", "failing"}, k \in Final :
             Continue(p, l, [local[p] EXCEPT !.kind = k])
      BY <1>3 DEF Dispatch, Final
    <2>2. /\ [local[p] EXCEPT !.kind = k] \in Job
          /\ [local[p] EXCEPT !.kind = k].id = i
          /\ [local[p] EXCEPT !.kind = k].input = input
          /\ [local[p] EXCEPT !.kind = k].kind = k
      BY <1>1 DEF Job
    <2>3. l \in Locations /\ l \notin {"idle", "refusing", "printing"}
      BY DEF Locations
    <2>4. pc' \in [Procs -> Locations] /\ local' \in [Procs -> Job] /\ JobOK'
      BY <1>1, <2>1, <2>2, <2>3, ContinueTyped
    <2>5. dispatched' \in [Ids -> Nat]
      BY <1>1, <1>3 DEF Dispatch, Typed, TypeOK
    <2>6. outcome' \in [Ids -> {"none", "result", "error", "exception"}]
      BY <1>1, <1>3 DEF Dispatch, Typed, TypeOK
    <2>7. QED
      BY <1>3, <2>4, <2>5, <2>6 DEF Dispatch, Typed, TypeOK
  <1>4. CASE Complete(p)
    <2>1. kind \in Final
      BY <1>1, <1>4 DEF Complete
    <2>2. events' \subseteq Event
      <3>1. PICK type \in EventTypes : Record(i, type, kind)
        BY <1>4 DEF Complete, EventTypes
      <3>2. QED
        BY <1>1, <2>1, <3>1, RecordTyped
    <2>3. rows' \in [Ids -> Row]
      <3>1. \A s \in {"completed", "failed"} :
               [state |-> s, input |-> input, response |-> kind] \in Row
        BY <1>1, <2>1 DEF Row
      <3>2. QED
        BY <1>4, <3>1 DEF Complete, Typed, TypeOK
    <2>4. pc' \in [Procs -> Locations] /\ local' \in [Procs -> Job] /\ JobOK'
      BY <1>1, <1>4, <2>1, ContinueTyped DEF Complete, Locations
    <2>5. QED
      BY <1>4, <2>2, <2>3, <2>4 DEF Complete, Typed, TypeOK
  <1>5. CASE CompleteRaises(p)
    <2> DEFINE j == [local[p] EXCEPT !.kind = "backend_failure"]
    <2>1. j \in Job /\ j.id = i /\ j.input = input /\ j.kind \in Final
      BY <1>1 DEF Job, Final
    <2>2. Continue(p, "failing", j) /\ "failing" \in Locations
      BY <1>5 DEF CompleteRaises, Locations
    <2> HIDE DEF j
    <2>3. pc' \in [Procs -> Locations] /\ local' \in [Procs -> Job] /\ JobOK'
      BY <1>1, <2>1, <2>2, ContinueTyped
    <2>4. QED
      BY <1>5, <2>3 DEF CompleteRaises, Typed, TypeOK
  <1>6. CASE WriteResponse(p)
    <2>1. printed' \subseteq Response
      BY <1>1, <1>6 DEF WriteResponse, Typed, TypeOK, Response, Job
    <2>2. pc' \in [Procs -> Locations] /\ local' \in [Procs -> Job] /\ JobOK'
      BY <1>6, NoJobType, ContinueTyped DEF WriteResponse, Locations
    <2>3. QED
      BY <1>6, <2>1, <2>2 DEF WriteResponse, Typed, TypeOK
  <1>7. QED
    BY <1>2, <1>3, <1>4, <1>5, <1>6 DEF Handle

LEMMA DieTyped ==
    ASSUME Typed, NEW p \in Procs, Die(p)
    PROVE  Typed'
  <1>1. pc' \in [Procs -> Locations] /\ local' \in [Procs -> Job] /\ JobOK'
    BY NoJobType, ContinueTyped DEF Die, Locations
  <1>2. QED
    BY <1>1 DEF Die, Typed, TypeOK

LEMMA NextTyped == Typed /\ [Next]_vars => Typed'
  <1>1. Typed /\ UNCHANGED vars => Typed'
    BY DEF vars, Typed, TypeOK, JobOK
  <1> QED
    BY <1>1, ReserveTyped, HandleTyped, DieTyped DEF Next

LEMMA TypedInvariant == Spec => []Typed
  BY InitTyped, NextTyped, PTL DEF Spec

\* Every reachable state is well typed.
THEOREM TypeCorrect == Spec => []TypeOK
  <1>1. Typed => TypeOK
    BY DEF Typed
  <1>2. QED
    BY <1>1, TypedInvariant, PTL

-----------------------------------------------------------------------------
(* One backend call, one answer                                            *)

\* No step changes a row's owner or a stored response.
RowsKept ==
    \A i \in Ids : rows[i].state # "none" =>
        /\ rows'[i].state # "none"
        /\ rows'[i].input = rows[i].input
        /\ rows[i].response # "none" => rows'[i] = rows[i]

LEMMA InitJournal == Init => JournalInv
  BY DEF Init, JournalInv, RowsInv, WorkOK, TellOK, NoRow, NoJob, Working

\* What a caller is told stays in a row that is kept.
LEMMA InRowStable ==
    ASSUME Typed, RowsKept, NEW i \in Ids, NEW input, NEW kind, InRow(i, input, kind)
    PROVE  InRow(i, input, kind)'
  BY DEF Typed, TypeOK, Row, RowsKept, InRow, Final

\* The invariant after a step of p, from what the step does to p's own job.
LEMMA StepOf ==
    ASSUME Typed, JournalInv, NEW p \in Procs,
           \A q \in Procs : q # p => pc'[q] = pc[q] /\ local'[q] = local[q],
           RowsKept, RowsInv',
           \A q \in Procs : q # p /\ pc[q] \in Working =>
               /\ rows'[local[q].id] = rows[local[q].id]
               /\ dispatched'[local[q].id] = dispatched[local[q].id]
               /\ outcome'[local[q].id] = outcome[local[q].id]
               /\ pc'[p] \in Working => local[q].id # local'[p].id,
           WorkOK(pc[p], local[p])', TellOK(pc[p], local[p])',
           \A a \in printed' : a \in printed \/ InRow(a.id, a.input, a.kind)'
    PROVE  JournalInv'
  <1>1. \A q \in Procs : WorkOK(pc[q], local[q]) /\ TellOK(pc[q], local[q])
    BY DEF JournalInv
  <1>2. \A q \in Procs : WorkOK(pc[q], local[q])'
    <2>1. ASSUME NEW q \in Procs, q # p
          PROVE  WorkOK(pc[q], local[q])'
      BY <1>1, <2>1 DEF WorkOK
    <2>2. QED
      BY <2>1
  <1>3. \A q \in Procs : TellOK(pc[q], local[q])'
    <2>1. ASSUME NEW q \in Procs, q # p
          PROVE  TellOK(pc[q], local[q])'
      <3>1. CASE pc[q] \in {"refusing", "printing"}
        <4>1. local[q].id \in Ids /\ InRow(local[q].id, local[q].input, local[q].kind)
          BY <1>1, <3>1 DEF Typed, JobOK, TellOK
        <4>2. PICK i \in Ids : i = local[q].id
          BY <4>1
        <4>i. PICK input : input = local[q].input
          OBVIOUS
        <4>k. PICK kind : kind = local[q].kind
          OBVIOUS
        <4>3. InRow(i, input, kind)'
          BY <4>1, <4>2, <4>i, <4>k, InRowStable
        <4>4. /\ rows'[local[q].id] = rows'[i]
              /\ local'[q].id = i /\ local'[q].input = input /\ local'[q].kind = kind
          BY <2>1, <4>2, <4>i, <4>k
        <4>5. InRow(local[q].id, local[q].input, local[q].kind)'
          BY <4>3, <4>4 DEF InRow
        <4>6. QED
          BY <1>1, <2>1, <4>5 DEF TellOK
      <3>2. QED
        BY <2>1, <3>1 DEF TellOK
    <2>2. QED
      BY <2>1
  <1>4. \A q, t \in Procs :
           pc'[q] \in Working /\ pc'[t] \in Working /\ local'[q].id = local'[t].id => q = t
    BY DEF JournalInv
  <1>5. \A a \in printed' : InRow(a.id, a.input, a.kind)'
    <2>1. \A a \in printed : a.id \in Ids /\ InRow(a.id, a.input, a.kind)
      BY DEF Typed, TypeOK, Response, JournalInv
    <2>2. ASSUME NEW a \in printed
          PROVE  InRow(a.id, a.input, a.kind)'
      BY <2>1, InRowStable
    <2>3. QED
      BY <2>2
  <1>6. QED
    BY <1>2, <1>3, <1>4, <1>5 DEF JournalInv

\* What Continue leaves to the other processes.
LEMMA OnlyP ==
    ASSUME Typed, NEW p \in Procs, NEW l, NEW j, Continue(p, l, j)
    PROVE  /\ pc'[p] = l /\ local'[p] = j
           /\ \A q \in Procs : q # p => pc'[q] = pc[q] /\ local'[q] = local[q]
  BY DEF Continue, Typed, TypeOK

\* A step that leaves the rows and the backend alone, and after which p does
\* not work on an id.
LEMMA QuietStep ==
    ASSUME Typed, JournalInv, NEW p \in Procs, NEW l, NEW j, Continue(p, l, j),
           UNCHANGED <<rows, dispatched, outcome>>, l \notin Working,
           TellOK(pc[p], local[p])',
           \A a \in printed' : a \in printed \/ InRow(a.id, a.input, a.kind)'
    PROVE  JournalInv'
  <1>1. RowsKept
    BY DEF RowsKept
  <1>2. RowsInv'
    BY DEF JournalInv, RowsInv
  <1>3. pc'[p] \notin Working /\ WorkOK(pc[p], local[p])'
    BY OnlyP DEF WorkOK
  <1>4. QED
    BY <1>1, <1>2, <1>3, OnlyP, StepOf

LEMMA ReserveJournal ==
    ASSUME Typed, JournalInv, NEW p \in Procs, NEW i \in Ids, NEW input \in Inputs,
           Reserve(p, i, input)
    PROVE  JournalInv'
  <1>1. input # None /\ rows[i] \in Row /\ RowsInv
    BY NoneIsNew DEF Typed, TypeOK, JournalInv
  <1>2. UNCHANGED <<dispatched, outcome, printed>>
    BY DEF Reserve
  <1>3. CASE /\ rows[i].state = "none"
             /\ rows' = [rows EXCEPT ![i] = [state |-> "reserved", input |-> input,
                                             response |-> "none"]]
             /\ Continue(p, "dispatching", Request(i, input, "none", FALSE))
    <2>1. /\ pc'[p] = "dispatching" /\ local'[p].id = i /\ local'[p].input = input
          /\ \A q \in Procs : q # p => pc'[q] = pc[q] /\ local'[q] = local[q]
      BY <1>3, OnlyP DEF Request
    <2>2. /\ rows'[i] = [state |-> "reserved", input |-> input, response |-> "none"]
          /\ \A k \in Ids : k # i => rows'[k] = rows[k]
      BY <1>3 DEF Typed, TypeOK
    <2>3. RowsKept
      BY <1>3, <2>2 DEF RowsKept
    <2>4. RowsInv'
      BY <1>1, <1>2, <1>3, <2>2 DEF RowsInv
    <2>5. \A q \in Procs : pc[q] \in Working => local[q].id \in Ids /\ local[q].id # i
      BY <1>3 DEF JournalInv, WorkOK, Typed, JobOK, Working
    <2>6. WorkOK(pc[p], local[p])'
      BY <1>1, <1>2, <1>3, <2>1, <2>2 DEF WorkOK, RowsInv
    <2>7. TellOK(pc[p], local[p])'
      BY <2>1 DEF TellOK
    <2>8. QED
      BY <1>2, <2>1, <2>2, <2>3, <2>4, <2>5, <2>6, <2>7, StepOf
  <1>4. ASSUME UNCHANGED rows, NEW l \in {"refusing", "printing"},
               NEW kind \in Final \cup Refusals, NEW replayed \in BOOLEAN,
               Continue(p, l, Request(i, input, kind, replayed)),
               InRow(i, input, kind), l = "refusing" => kind \in Refusals
        PROVE  JournalInv'
    <2>1. /\ pc'[p] = l /\ local'[p].id = i /\ local'[p].input = input
          /\ local'[p].kind = kind
      BY <1>4, OnlyP DEF Request
    <2>2. TellOK(pc[p], local[p])'
      BY <1>4, <2>1 DEF TellOK, InRow
    <2>3. QED
      BY <1>2, <1>4, <2>2, QuietStep DEF Working
  <1>5. CASE /\ rows[i].state # "none" /\ rows[i].input # input
             /\ Continue(p, "refusing", Request(i, input, "conflict", FALSE))
             /\ UNCHANGED rows
    BY <1>4, <1>5 DEF InRow, Refusals, Final
  <1>6. CASE /\ rows[i].input = input /\ rows[i].response # "none"
             /\ Continue(p, "printing", Request(i, input, rows[i].response, TRUE))
             /\ UNCHANGED rows
    <2>1. rows[i].response \in Final /\ rows[i].state # "none"
      BY <1>1, <1>6 DEF Row, RowsInv
    <2>2. InRow(i, input, rows[i].response)
      BY <1>6, <2>1 DEF InRow, Final
    <2>3. QED
      BY <1>4, <1>6, <2>1, <2>2
  <1>7. CASE /\ rows[i].input = input /\ rows[i].response = "none"
             /\ Continue(p, "refusing", Request(i, input, "needs_recovery", FALSE))
             /\ UNCHANGED rows
    <2>1. rows[i].state # "none"
      BY <1>1, <1>7 DEF RowsInv
    <2>2. QED
      BY <1>4, <1>7, <2>1 DEF InRow, Refusals, Final
  <1>8. QED
    BY <1>3, <1>5, <1>6, <1>7 DEF Reserve

LEMMA DispatchJournal ==
    ASSUME Typed, JournalInv, NEW p \in Procs, Dispatch(p)
    PROVE  JournalInv'
  <1> DEFINE i == local[p].id
  <1>1. /\ i \in Ids /\ local[p] \in Job /\ RowsInv
        /\ rows[i].state = "reserved" /\ rows[i].response = "none"
        /\ rows[i].input = local[p].input /\ dispatched[i] = 0
    BY DEF Dispatch, Typed, TypeOK, JobOK, JournalInv, WorkOK, Working, RowsInv
  <1>2. /\ dispatched' = [dispatched EXCEPT ![i] = 1]
        /\ UNCHANGED <<rows, printed>>
    BY <1>1 DEF Dispatch
  <1>3. PICK l \in {"completing", "failing"}, k \in Final,
             o \in {"result", "error", "exception"} :
           /\ outcome' = [outcome EXCEPT ![i] = o]
           /\ Continue(p, l, [local[p] EXCEPT !.kind = k])
           /\ l = "completing" => k = "result"
           /\ k \in {"result", "error"} => o = k
    BY DEF Dispatch, Final
  <1>4. /\ pc'[p] = l /\ local'[p].id = i /\ local'[p].input = local[p].input
        /\ local'[p].kind = k
        /\ \A q \in Procs : q # p => pc'[q] = pc[q] /\ local'[q] = local[q]
    BY <1>1, <1>3, OnlyP DEF Job
  <1>5. /\ dispatched'[i] = 1 /\ outcome'[i] = o
        /\ \A n \in Ids : n # i => dispatched'[n] = dispatched[n] /\ outcome'[n] = outcome[n]
    BY <1>1, <1>2, <1>3 DEF Typed, TypeOK
  <1>6. RowsKept
    BY <1>2 DEF RowsKept
  <1>7. RowsInv'
    BY <1>1, <1>2, <1>5 DEF RowsInv
  <1>8. \A q \in Procs : q # p /\ pc[q] \in Working => local[q].id \in Ids /\ local[q].id # i
    BY DEF Dispatch, JournalInv, Typed, JobOK, Working
  <1>9. WorkOK(pc[p], local[p])'
    BY <1>1, <1>2, <1>3, <1>4, <1>5 DEF WorkOK
  <1>10. TellOK(pc[p], local[p])'
    BY <1>4 DEF TellOK
  <1>11. QED
    BY <1>2, <1>4, <1>5, <1>6, <1>7, <1>8, <1>9, <1>10, StepOf

\* complete overwrites the row; what makes this safe is that the row of a
\* process that completes has no response and no other process at work.
LEMMA CompleteJournal ==
    ASSUME Typed, JournalInv, NEW p \in Procs, Complete(p)
    PROVE  JournalInv'
  <1> DEFINE i == local[p].id
             kind == local[p].kind
  <1>1. /\ i \in Ids /\ kind \in Final /\ RowsInv /\ local[p].input # None
        /\ rows[i].state = "reserved" /\ rows[i].response = "none"
        /\ rows[i].input = local[p].input /\ dispatched[i] = 1
        /\ kind \in {"result", "error"} => outcome[i] = kind
    BY NoneIsNew DEF Complete, Typed, TypeOK, JobOK, JournalInv, WorkOK, Working, RowsInv
  <1>2. PICK state \in {"completed", "failed"} :
           rows' = [rows EXCEPT ![i] = [state |-> state, input |-> local[p].input,
                                        response |-> kind]]
    BY <1>1 DEF Complete
  <1>3. /\ rows'[i].state = state /\ rows'[i].input = local[p].input
        /\ rows'[i].response = kind
        /\ \A n \in Ids : n # i => rows'[n] = rows[n]
    BY <1>1, <1>2 DEF Typed, TypeOK
  <1>4. UNCHANGED <<dispatched, outcome, printed>> /\ Continue(p, "printing", local[p])
    BY DEF Complete
  <1>5. /\ pc'[p] = "printing" /\ local'[p] = local[p]
        /\ \A q \in Procs : q # p => pc'[q] = pc[q] /\ local'[q] = local[q]
    BY <1>4, OnlyP
  <1>6. RowsKept
    BY <1>1, <1>3 DEF RowsKept
  <1>7. RowsInv'
    BY <1>1, <1>3, <1>4 DEF RowsInv, Final
  <1>8. \A q \in Procs : q # p /\ pc[q] \in Working => local[q].id \in Ids /\ local[q].id # i
    BY DEF Complete, JournalInv, Typed, JobOK, Working
  <1>9. WorkOK(pc[p], local[p])'
    BY <1>5 DEF WorkOK, Working
  <1>10. TellOK(pc[p], local[p])'
    BY <1>1, <1>3, <1>5 DEF TellOK, InRow, Final
  <1>11. QED
    BY <1>3, <1>4, <1>5, <1>6, <1>7, <1>8, <1>9, <1>10, StepOf DEF Working

LEMMA CompleteRaisesJournal ==
    ASSUME Typed, JournalInv, NEW p \in Procs, CompleteRaises(p)
    PROVE  JournalInv'
  <1> DEFINE i == local[p].id
  <1>1. i \in Ids /\ local[p] \in Job /\ UNCHANGED <<rows, dispatched, outcome, printed>>
    BY DEF CompleteRaises, Typed, TypeOK, JobOK
  <1>2. /\ pc'[p] = "failing" /\ local'[p].id = i /\ local'[p].input = local[p].input
        /\ local'[p].kind = "backend_failure"
        /\ \A q \in Procs : q # p => pc'[q] = pc[q] /\ local'[q] = local[q]
    BY <1>1, OnlyP DEF CompleteRaises, Job
  <1>3. RowsKept /\ RowsInv'
    BY <1>1 DEF RowsKept, RowsInv, JournalInv
  <1>4. \A q \in Procs : q # p /\ pc[q] \in Working => local[q].id # i
    BY DEF CompleteRaises, JournalInv, Working
  <1>5. WorkOK(pc[p], local[p])
    BY DEF JournalInv
  <1>6. WorkOK(pc[p], local[p])'
    BY <1>1, <1>2, <1>5 DEF WorkOK, CompleteRaises, Working
  <1>7. TellOK(pc[p], local[p])'
    BY <1>2 DEF TellOK
  <1>8. QED
    BY <1>1, <1>2, <1>3, <1>4, <1>6, <1>7, StepOf

LEMMA AnswerJournal ==
    ASSUME Typed, JournalInv, NEW p \in Procs,
           RecordResponse(p) \/ WriteResponse(p) \/ Die(p)
    PROVE  JournalInv'
  <1>1. UNCHANGED <<rows, dispatched, outcome>> /\ TellOK(pc[p], local[p])
    BY DEF RecordResponse, WriteResponse, Die, JournalInv
  <1>2. CASE RecordResponse(p)
    <2>1. pc'[p] = "printing" /\ local'[p] = local[p]
      BY <1>2, OnlyP DEF RecordResponse
    <2>2. TellOK(pc[p], local[p])'
      BY <1>1, <1>2, <2>1 DEF RecordResponse, TellOK, InRow
    <2>3. QED
      BY <1>1, <1>2, <2>2, QuietStep DEF RecordResponse, Working
  <1>3. CASE WriteResponse(p)
    <2>1. pc'[p] = "idle"
      BY <1>3, OnlyP DEF WriteResponse
    <2>2. TellOK(pc[p], local[p])'
      BY <2>1 DEF TellOK
    <2>3. \A a \in printed' : a \in printed \/ InRow(a.id, a.input, a.kind)'
      BY <1>1, <1>3 DEF WriteResponse, TellOK, InRow
    <2>4. QED
      BY <1>1, <1>3, <2>2, <2>3, QuietStep DEF WriteResponse, Working
  <1>4. CASE Die(p)
    <2>1. pc'[p] = "idle"
      BY <1>4, OnlyP DEF Die
    <2>2. TellOK(pc[p], local[p])'
      BY <2>1 DEF TellOK
    <2>3. QED
      BY <1>1, <1>4, <2>2, QuietStep DEF Die, Working
  <1>5. QED
    BY <1>2, <1>3, <1>4

LEMMA NextJournal == Typed /\ JournalInv /\ [Next]_vars => JournalInv'
  <1> SUFFICES ASSUME Typed, JournalInv, [Next]_vars PROVE JournalInv'
    OBVIOUS
  <1>1. CASE UNCHANGED vars
    BY <1>1 DEF vars, JournalInv, RowsInv, WorkOK, TellOK, InRow
  <1>2. ASSUME NEW p \in Procs, Handle(p)
        PROVE  JournalInv'
    BY <1>2, DispatchJournal, CompleteJournal, CompleteRaisesJournal, AnswerJournal DEF Handle
  <1>3. QED
    BY <1>1, <1>2, ReserveJournal, AnswerJournal DEF Next

\* The process that reserved an id works alone on an untouched row, and
\* everything told to a caller is in the row.
THEOREM JournalInvariant == Spec => []JournalInv
  BY InitJournal, NextJournal, TypedInvariant, PTL DEF Spec

\* A request reaches the backend at most once, for any number of processes,
\* ids and crashes.
THEOREM DispatchOnce == Spec => []DispatchedOnce
  <1>1. JournalInv => DispatchedOnce
    BY DEF JournalInv, RowsInv, DispatchedOnce
  <1>2. QED
    BY <1>1, JournalInvariant, PTL

\* Callers that use the same id are never told things that contradict the
\* journal or each other.
THEOREM Agreement == Spec => []AnswersAgree
  <1>1. JournalInv => AnswersAgree
    BY DEF JournalInv, InRow, AnswersAgree
  <1>2. QED
    BY <1>1, JournalInvariant, PTL

\* A reported result or error is how the backend's one call ended.
THEOREM Truthfulness == Spec => []AnswersAreTruthful
  <1>1. Typed /\ JournalInv => AnswersAreTruthful
    <2> SUFFICES ASSUME Typed, JournalInv, NEW a \in printed, a.kind \in {"result", "error"}
                 PROVE  outcome[a.id] = a.kind
      BY DEF AnswersAreTruthful
    <2>1. a.id \in Ids /\ rows[a.id].response = a.kind
      BY DEF Typed, TypeOK, Response, JournalInv, InRow, Final
    <2>2. QED
      BY <2>1 DEF JournalInv, RowsInv
  <1>2. QED
    BY <1>1, JournalInvariant, TypedInvariant, PTL

LEMMA NextKeepsRows ==
    ASSUME Typed, JournalInv, [Next]_vars
    PROVE  RowsKept
  <1>1. CASE UNCHANGED rows
    BY <1>1 DEF RowsKept
  <1>2. ASSUME NEW p \in Procs, NEW i \in Ids, NEW input \in Inputs, Reserve(p, i, input)
        PROVE  RowsKept
    <2>1. UNCHANGED rows \/ (rows[i].state = "none" /\ \E row : rows' = [rows EXCEPT ![i] = row])
      BY <1>2 DEF Reserve
    <2>2. QED
      BY <1>1, <2>1 DEF RowsKept, Typed, TypeOK
  <1>3. ASSUME NEW p \in Procs, Complete(p)
        PROVE  RowsKept
    <2> DEFINE i == local[p].id
    <2>1. /\ i \in Ids /\ rows[i].input = local[p].input
          /\ rows[i].state = "reserved" /\ rows[i].response = "none"
      BY <1>3 DEF Complete, Typed, JobOK, JournalInv, WorkOK, Working, RowsInv
    <2>2. PICK state \in {"completed", "failed"} :
             rows' = [rows EXCEPT ![i] = [state |-> state, input |-> local[p].input,
                                          response |-> local[p].kind]]
      BY <1>3, <2>1 DEF Complete
    <2>3. QED
      BY <2>1, <2>2 DEF RowsKept, Typed, TypeOK
  <1>4. QED
    BY <1>1, <1>2, <1>3
       DEF Next, Handle, RecordResponse, Dispatch, CompleteRaises, WriteResponse, Die, vars

\* The unguarded UPDATE of complete never replaces a stored response.
THEOREM StoredResponseStays == Spec => ResponseDurable
  <1>1. Typed /\ JournalInv /\ [Next]_vars =>
           [\A i \in Ids :
              rows[i].response # "none"
              => /\ rows'[i].response = rows[i].response
                 /\ rows'[i].input = rows[i].input]_vars
    <2> SUFFICES ASSUME Typed, JournalInv, [Next]_vars, NEW i \in Ids, rows[i].response # "none"
                 PROVE  /\ rows'[i].response = rows[i].response
                        /\ rows'[i].input = rows[i].input
      OBVIOUS
    <2>1. rows[i].state # "none"
      BY DEF JournalInv, RowsInv
    <2>2. QED
      BY <2>1, NextKeepsRows DEF RowsKept
  <1>2. QED
    BY <1>1, JournalInvariant, TypedInvariant, PTL DEF Spec, ResponseDurable

-----------------------------------------------------------------------------
(* The journal implements OneAnswer                                        *)

\* The variables of OneAnswer under the refinement mapping.
Owner == [i \in Ids |-> rows[i].input]
Stored == [i \in Ids |-> rows[i].response]
Told == {[id |-> a.id, input |-> a.input, kind |-> a.kind] :
            a \in {b \in printed : b.kind \in Final}}

PromiseKept == [Promise!Next]_(Promise!absvars)

LEMMA StutterPromise ==
    ASSUME UNCHANGED <<Owner, dispatched, Stored, Told>>
    PROVE  PromiseKept
  BY DEF PromiseKept, Promise!absvars, Owner, Stored, Told

LEMMA ReservePromise ==
    ASSUME Typed, JournalInv, NEW p \in Procs, NEW i \in Ids, NEW input \in Inputs,
           Reserve(p, i, input)
    PROVE  PromiseKept
  <1> DEFINE row == [state |-> "reserved", input |-> input, response |-> "none"]
  <1>1. UNCHANGED <<dispatched, printed>>
    BY DEF Reserve
  <1>2. UNCHANGED Told
    BY <1>1 DEF Told
  <1>3. CASE UNCHANGED rows
    BY <1>1, <1>2, <1>3, StutterPromise DEF Owner, Stored
  <1>4. CASE rows[i].state = "none" /\ rows' = [rows EXCEPT ![i] = row]
    <2>1. rows[i].input = None /\ rows[i].response = "none"
      BY <1>4 DEF JournalInv, RowsInv
    <2>2. Owner[i] = None
      BY <2>1 DEF Owner
    <2>3. Owner' = [Owner EXCEPT ![i] = input]
      BY <1>4 DEF Owner, Typed, TypeOK
    <2>4. UNCHANGED Stored
      BY <1>4, <2>1 DEF Stored, Typed, TypeOK
    <2>5. Promise!Accept(i, input)
      BY <1>1, <1>2, <2>2, <2>3, <2>4 DEF Promise!Accept, Owner, Stored, Told
    <2>6. QED
      BY <2>5 DEF PromiseKept, Promise!Next
  <1>5. QED
    BY <1>3, <1>4 DEF Reserve

LEMMA DispatchPromise ==
    ASSUME Typed, JournalInv, NEW p \in Procs, Dispatch(p)
    PROVE  PromiseKept
  <1>1. PICK i \in Ids : i = local[p].id
    BY DEF Dispatch, Typed, JobOK
  <1>2. /\ rows[i].input # None /\ dispatched[i] = 0
    BY <1>1, NoneIsNew DEF Dispatch, Typed, JobOK, JournalInv, WorkOK, Working
  <1>3. Owner[i] # None
    BY <1>2 DEF Owner
  <1>4. dispatched' = [dispatched EXCEPT ![i] = 1] /\ UNCHANGED <<Owner, Stored, Told>>
    BY <1>1, <1>2 DEF Dispatch, Owner, Stored, Told
  <1>5. Promise!Call(i)
    BY <1>2, <1>3, <1>4 DEF Promise!Call, Owner, Stored, Told
  <1>6. QED
    BY <1>5 DEF PromiseKept, Promise!Next

LEMMA CompletePromise ==
    ASSUME Typed, JournalInv, NEW p \in Procs, Complete(p)
    PROVE  PromiseKept
  <1>1. PICK i \in Ids, k \in Final : i = local[p].id /\ k = local[p].kind
    BY DEF Complete, Typed, JobOK
  <1>2. /\ rows[i].input = local[p].input /\ rows[i].response = "none"
        /\ dispatched[i] = 1
    BY <1>1 DEF Complete, JournalInv, WorkOK, Working, RowsInv
  <1>3. PICK state \in {"completed", "failed"} :
           rows' = [rows EXCEPT ![i] = [state |-> state, input |-> local[p].input,
                                        response |-> k]]
    BY <1>1, <1>2 DEF Complete
  <1>4. UNCHANGED <<dispatched, Told>>
    BY DEF Complete, Told
  <1>5. UNCHANGED Owner
    BY <1>2, <1>3 DEF Owner, Typed, TypeOK
  <1>6. Stored' = [Stored EXCEPT ![i] = k] /\ Stored[i] = "none"
    BY <1>2, <1>3 DEF Stored, Typed, TypeOK
  <1>7. Promise!Decide(i, k)
    BY <1>2, <1>4, <1>5, <1>6 DEF Promise!Decide, Owner, Stored, Told
  <1>8. QED
    BY <1>7 DEF PromiseKept, Promise!Next

LEMMA WritePromise ==
    ASSUME Typed, JournalInv, NEW p \in Procs, WriteResponse(p)
    PROVE  PromiseKept
  <1>1. PICK i \in Ids, k \in Final \cup Refusals, input \in Inputs :
           i = local[p].id /\ k = local[p].kind /\ input = local[p].input
    BY DEF WriteResponse, Typed, JobOK
  <1> DEFINE new == [id |-> i, input |-> input, kind |-> k, replayed |-> local[p].replayed]
  <1>2. printed' = printed \cup {new} /\ UNCHANGED <<rows, dispatched>>
    BY <1>1 DEF WriteResponse
  <1>3. UNCHANGED <<Owner, Stored>>
    BY <1>2 DEF Owner, Stored
  <1>4. CASE k \notin Final
    <2>1. UNCHANGED Told
      BY <1>2, <1>4 DEF Told
    <2>2. QED
      BY <1>2, <1>3, <2>1, StutterPromise
  <1>5. CASE k \in Final
    <2>1. rows[i].input = input /\ rows[i].response = k
      BY <1>1, <1>5 DEF WriteResponse, JournalInv, TellOK, InRow
    <2>2. Owner[i] = input /\ Stored[i] = k /\ k # "none"
      BY <1>5, <2>1 DEF Owner, Stored, Final
    <2>3. Told' = Told \cup {[id |-> i, input |-> input, kind |-> k]}
      <3>1. new.id = i /\ new.input = input /\ new.kind = k
        OBVIOUS
      <3> HIDE DEF new
      <3>2. QED
        BY <1>2, <1>5, <3>1 DEF Told
    <2>4. Promise!Tell(i)
      BY <1>2, <1>3, <2>2, <2>3 DEF Promise!Tell, Owner, Stored, Told
    <2>5. QED
      BY <2>4 DEF PromiseKept, Promise!Next
  <1>6. QED
    BY <1>4, <1>5

\* The first request owns its id, is handed to the backend at most once, and
\* every caller is told the one stored answer: the journal implements
\* OneAnswer.
THEOREM Refinement == Spec => ImplementsOneAnswer
  <1>1. Init => Promise!Init
    BY DEF Init, Promise!Init, NoRow
  <1>2. Typed /\ JournalInv /\ [Next]_vars => [Promise!Next]_(Promise!absvars)
    <2> SUFFICES ASSUME Typed, JournalInv, [Next]_vars PROVE PromiseKept
      BY DEF PromiseKept
    <2>1. CASE UNCHANGED <<rows, dispatched, printed>>
      BY <2>1, StutterPromise DEF Owner, Stored, Told
    <2>2. ASSUME NEW p \in Procs, Handle(p)
          PROVE  PromiseKept
      BY <2>1, <2>2, DispatchPromise, CompletePromise, WritePromise
         DEF Handle, RecordResponse, CompleteRaises
    <2>3. QED
      BY <2>1, <2>2, ReservePromise DEF Next, Die, vars
  <1>3. QED
    BY <1>1, <1>2, TypedInvariant, JournalInvariant, PTL
       DEF Spec, ImplementsOneAnswer, Promise!Spec

=============================================================================
