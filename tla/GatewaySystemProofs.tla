------------------------- MODULE GatewaySystemProofs -------------------------
(***************************************************************************)
(* The composition of journal and backend keeps what is proved of each,    *)
(* and the scenarios of the chaos harness, which are clients of it, end as *)
(* they are documented to.                                                 *)
(***************************************************************************)
EXTENDS ChaosScenario, TLAPS

\* The journal makes a step of its own, or none, in every step.
LEMMA JournalStep == [Next]_vars => [J!Next]_(J!vars)
  <1> SUFFICES ASSUME [Next]_vars PROVE [J!Next]_(J!vars)
    OBVIOUS
  <1>1. CASE \E p \in Procs, i \in Ids, input \in Inputs : ReadRequest(p, i, input)
    BY <1>1 DEF ReadRequest, J!Next
  <1>2. CASE \E p \in Procs : HandleStep(p)
    BY <1>2 DEF HandleStep, J!Next, J!Handle
  <1>3. CASE \E p \in Procs : CallMethod(p) \/ EndMethod(p) \/ MethodStep(p) \/ MethodRaises(p)
    <2> PICK p \in Procs : CallMethod(p) \/ EndMethod(p) \/ MethodStep(p) \/ MethodRaises(p)
      BY <1>3
    <2>1. J!Dispatch(p) \/ UNCHANGED journal
      BY DEF CallMethod, EndMethod, MethodStep, MethodRaises, RunOn, ReturnWith
    <2> QED
      BY <2>1 DEF J!Next, J!Handle, journal, J!vars
  <1>4. CASE \E p \in Procs : Die(p)
    BY <1>4 DEF Die, J!Next
  <1>5. CASE \E r \in Requests : Environment(r)
    BY <1>5 DEF Environment, journal, J!vars
  <1>6. CASE UNCHANGED vars
    BY <1>6 DEF vars, journal, J!vars
  <1> QED
    BY <1>1, <1>2, <1>3, <1>4, <1>5, <1>6 DEF Next, Step

\* The backend's model makes a step of its own, or none, in every step, if
\* the calls are of the kinds that the model knows.
LEMMA BackendStep ==
    ASSUME \A p \in Procs : jpc[p] = "dispatching" => Ask(p) \in Inputs,
           [Next]_vars
    PROVE  [E!Next]_(E!vars)
  <1>1. CASE \E p \in Procs, i \in Ids, input \in Inputs : ReadRequest(p, i, input)
    BY <1>1 DEF ReadRequest, backend, E!vars
  <1>2. CASE \E p \in Procs : HandleStep(p)
    BY <1>2 DEF HandleStep, backend, E!vars
  <1>3. CASE \E p \in Procs : EndMethod(p)
    BY <1>3 DEF EndMethod, backend, E!vars
  <1>4. CASE \E p \in Procs : MethodStep(p) \/ MethodRaises(p)
    <2> PICK p \in Procs : MethodStep(p) \/ MethodRaises(p)
      BY <1>4
    <2>1. E!Execute(p) \/ E!SavePreparation(p) \/ E!Recover(p) \/ E!Abandon(p)
      BY DEF MethodStep, MethodRaises, E!Execute
    <2> QED
      BY <2>1 DEF E!Next
  <1>5. CASE \E p \in Procs : CallMethod(p)
    <2> PICK p \in Procs : CallMethod(p)
      BY <1>5
    <2> DEFINE ask == Ask(p)
    <2>1. /\ ask \in Inputs
          /\ ask.req \in Requests
      BY InputsAssumption DEF CallMethod
    <2>2. CASE ask.cmd = "prepare" /\ E!StartPrepare(p, ask.req, ask.plan)
      <3>1. ask.plan \in E!Plans
        BY <2>1, <2>2, InputsAssumption
      <3> QED
        BY <2>1, <2>2, <3>1 DEF E!Next
    <2>3. CASE ask.cmd = "authorize-and-execute" /\ E!StartExecute(p, ask.req, ask.auth)
      <3>1. ask.auth \in Auths
        BY <2>1, <2>3, InputsAssumption
      <3> QED
        BY <2>1, <2>3, <3>1 DEF E!Next
    <2>4. CASE ask.cmd \in {"status", "recover"} /\ E!StartInspection(p, ask.req, ask.cmd)
      BY <2>1, <2>4 DEF E!Next
    <2> QED
      BY <2>2, <2>3, <2>4 DEF CallMethod
  <1>6. CASE \E p \in Procs : Die(p)
    BY <1>6 DEF Die, backend, E!vars, E!Next
  <1>7. CASE \E r \in Requests : Environment(r)
    BY <1>7 DEF Environment, E!Next
  <1>8. CASE UNCHANGED vars
    BY <1>8 DEF vars, backend, E!vars
  <1> QED
    BY <1>1, <1>2, <1>3, <1>4, <1>5, <1>6, <1>7, <1>8 DEF Next, Step

-----------------------------------------------------------------------------
(* What is proved of the halves                                            *)

JP == INSTANCE GatewayJournalProofs WITH pc <- jpc, local <- jlocal
EP == INSTANCE GatewayExecutionProofs WITH pc <- epc, local <- elocal, quiet <- FALSE, Spare <- None

\* The assumptions of the instantiated modules.
LEMMA NoneOfJournal == None \notin Ids \cup Inputs
  BY NoneAssumption

LEMMA NoneOfBackend ==
    /\ None \notin Requests \cup Auths \cup EP!Plans
    /\ ForksPossible \in BOOLEAN
  BY NoneAssumption DEF E!Plans, EP!Plans

LEMMA SameJournal ==
    /\ J!Init => JP!Init
    /\ [J!Next]_(J!vars) => [JP!Next]_(JP!vars)
  <1>1. J!Init => JP!Init
    BY DEF J!Init, JP!Init, J!NoRow, JP!NoRow, J!NoJob, JP!NoJob
  <1> USE DEF J!Continue, JP!Continue, J!Record, JP!Record, J!NoJob, JP!NoJob
  <1>2. ASSUME NEW p \in Procs, NEW i \in Ids, NEW input \in Inputs, J!Reserve(p, i, input)
        PROVE  JP!Reserve(p, i, input)
    BY <1>2 DEF J!Reserve, JP!Reserve, J!Request, JP!Request
  <1>3. ASSUME NEW p \in Procs, J!Handle(p)
        PROVE  JP!Handle(p)
    BY <1>3 DEF J!Handle, JP!Handle, J!RecordResponse, JP!RecordResponse, J!Dispatch, JP!Dispatch,
        J!Complete, JP!Complete, J!CompleteRaises, JP!CompleteRaises,
        J!WriteResponse, JP!WriteResponse
  <1>4. ASSUME NEW p \in Procs, J!Die(p)
        PROVE  JP!Die(p)
    BY <1>4 DEF J!Die, JP!Die
  <1>5. (UNCHANGED J!vars) => UNCHANGED JP!vars
    BY DEF J!vars, JP!vars
  <1> QED
    BY <1>1, <1>2, <1>3, <1>4, <1>5 DEF J!Next, JP!Next

LEMMA SameBackend ==
    /\ E!Init => EP!Init
    /\ [E!Next]_(E!vars) => [EP!Next]_(EP!vars)
  <1>1. E!Init => EP!Init
    BY DEF E!Init, EP!Init, E!NoPreparation, EP!NoPreparation, E!NoAttempt, EP!NoAttempt,
        E!NoJob, EP!NoJob
  <1> USE DEF E!Continue, EP!Continue, E!Return, EP!Return, E!NoJob, EP!NoJob, E!clock, EP!clock,
        E!network, EP!network, E!Expire, EP!Expire, E!Terminal, EP!Terminal, E!Answer, EP!Answer,
        E!Conclusive, EP!Conclusive
  <1>2. ASSUME NEW p \in Procs, E!Execute(p)
        PROVE  EP!Execute(p)
    BY <1>2 DEF E!Execute, EP!Execute, E!CheckHeight, EP!CheckHeight, E!Claim, EP!Claim,
        E!Send, EP!Send, E!RecordSubmitted, EP!RecordSubmitted, E!StorageBusy, EP!StorageBusy,
        E!RecordRejection, EP!RecordRejection, E!MarkNeedsRecovery, EP!MarkNeedsRecovery,
        E!Taken, EP!Taken, E!NoAttempt, EP!NoAttempt
  <1>3. ASSUME NEW p \in Procs, E!Recover(p)
        PROVE  EP!Recover(p)
    BY <1>3 DEF E!Recover, EP!Recover, E!SecondLook, EP!SecondLook, E!Inspect, EP!Inspect,
        E!Query, EP!Query, E!RecordObservation, EP!RecordObservation, E!Reread, EP!Reread,
        E!DecideByHeight, EP!DecideByHeight, E!AnswerTerminal, EP!AnswerTerminal,
        E!Observable, EP!Observable, E!DerivedState, EP!DerivedState
  <1>4. ASSUME NEW p \in Procs, NEW r \in Requests, NEW plan \in E!Plans, E!StartPrepare(p, r, plan)
        PROVE  plan \in EP!Plans /\ EP!StartPrepare(p, r, plan)
    BY <1>4 DEF E!StartPrepare, EP!StartPrepare, E!Plans, EP!Plans, E!Blocking, EP!Blocking
  <1>5. ASSUME NEW p \in Procs, NEW r \in Requests, NEW a \in Auths, E!StartExecute(p, r, a)
        PROVE  EP!StartExecute(p, r, a)
    BY <1>5 DEF E!StartExecute, EP!StartExecute
  <1>6. ASSUME NEW p \in Procs, NEW r \in Requests, NEW cmd, E!StartInspection(p, r, cmd)
        PROVE  EP!StartInspection(p, r, cmd)
    BY <1>6 DEF E!StartInspection, EP!StartInspection, E!AnswerTerminal, EP!AnswerTerminal
  <1>7. ASSUME NEW p \in Procs, E!SavePreparation(p) \/ E!Abandon(p)
        PROVE  EP!SavePreparation(p) \/ EP!Abandon(p)
    BY <1>7 DEF E!SavePreparation, EP!SavePreparation, E!Abandon, EP!Abandon, E!Blocking, EP!Blocking
  <1>8. ASSUME NEW r \in Requests, E!Environment(r)
        PROVE  EP!Environment(r)
    BY <1>8 DEF E!Environment, EP!Environment, E!BecomeLate, EP!BecomeLate,
        E!BecomeStale, EP!BecomeStale, E!Include, EP!Include, E!SettleBlock,
        EP!SettleBlock, E!SettledAs, EP!SettledAs, E!Drop, EP!Drop, E!Cluster, EP!Cluster
  <1>9. (UNCHANGED E!vars) => UNCHANGED EP!vars
    BY DEF E!vars, EP!vars
  <1> QED
    BY <1>1, <1>2, <1>3, <1>4, <1>5, <1>6, <1>7, <1>8, <1>9 DEF E!Next, EP!Next

\* The invariants of the halves, and their types.
Halves ==
    /\ JP!Typed /\ JP!JournalInv
    /\ EP!Typed /\ EP!BroadcastInv /\ EP!TruthInv(ForksPossible)

LEMMA DispatchingAsks ==
    ASSUME JP!Typed, NEW p \in Procs, jpc[p] = "dispatching"
    PROVE  Ask(p) \in Inputs /\ jlocal[p].id \in Ids
  BY DEF JP!Typed, JP!JobOK, Ask

LEMMA InitHalves == Init => Halves
  <1> SUFFICES ASSUME Init PROVE Halves
    OBVIOUS
  <1>1. JP!Init /\ EP!Init
    BY SameJournal, SameBackend DEF Init
  <1>2. JP!Typed
    BY <1>1, NoneOfJournal, JP!InitTyped
  <1>3. JP!JournalInv
    BY <1>1, NoneOfJournal, JP!InitJournal
  <1>4. EP!Typed
    BY <1>1, NoneOfBackend, EP!InitTyped
  <1>5. EP!BroadcastInv
    BY <1>1, NoneOfBackend, EP!InitBroadcast
  <1>6. EP!TruthInv(ForksPossible)
    BY <1>1, NoneOfBackend, EP!InitTruth
  <1> QED
    BY <1>2, <1>3, <1>4, <1>5, <1>6 DEF Halves

LEMMA NextHalves == Halves /\ [Next]_vars => Halves'
  <1> SUFFICES ASSUME Halves, [Next]_vars PROVE Halves'
    OBVIOUS
  <1>1. [JP!Next]_(JP!vars)
    BY JournalStep, SameJournal
  <1>2. [EP!Next]_(EP!vars)
    BY BackendStep, SameBackend, DispatchingAsks DEF Halves
  <1>3. JP!Typed'
    BY <1>1, NoneOfJournal, JP!NextTyped DEF Halves
  <1>4. JP!JournalInv'
    BY <1>1, NoneOfJournal, JP!NextJournal DEF Halves
  <1>5. EP!Typed'
    BY <1>2, NoneOfBackend, EP!NextTyped DEF Halves
  <1>6. EP!BroadcastInv'
    BY <1>2, NoneOfBackend, EP!NextBroadcast DEF Halves
  <1>7. EP!TruthInv(ForksPossible)'
    BY <1>2, NoneOfBackend, EP!NextTruth DEF Halves
  <1> QED
    BY <1>3, <1>4, <1>5, <1>6, <1>7 DEF Halves

LEMMA HalvesInvariant == Spec => []Halves
  BY InitHalves, NextHalves, PTL DEF Spec

-----------------------------------------------------------------------------
(* The gateway as a journal and as a backend                               *)

\* Every behaviour of the gateway is one of its journal (gateway/journal.py,
\* gateway/service.py): all theorems about the journal hold of it.
THEOREM JournalRefined == Spec => ImplementsJournal
  <1>1. Init => J!Init
    BY DEF Init
  <1> QED
    BY <1>1, JournalStep, PTL DEF Spec, ImplementsJournal, J!Spec

\* Every behaviour of the gateway is one of its Solana backend
\* (gateway/solana_prepare.py, gateway/solana_execute.py): the journal calls
\* it only in ways its model allows for.
THEOREM BackendRefined == Spec => ImplementsBackend
  <1>1. Init => E!Init
    BY DEF Init
  <1>2. Halves /\ [Next]_vars => [E!Next]_(E!vars)
    BY BackendStep, DispatchingAsks DEF Halves
  <1> QED
    BY <1>1, <1>2, HalvesInvariant, PTL DEF Spec, ImplementsBackend, E!Spec

-----------------------------------------------------------------------------
(* Answers and broadcasts                                                  *)

SystemInv ==
    /\ sender \in [Requests -> Ids \cup {None}]
    /\ CoupledInv
    /\ SendIsAccountedFor

\* The tables of processes are functions on Procs.
LEMMA Places ==
    ASSUME Halves
    PROVE  /\ DOMAIN jpc = Procs /\ DOMAIN jlocal = Procs
           /\ DOMAIN epc = Procs /\ DOMAIN elocal = Procs
           /\ DOMAIN attempt = Requests
  BY DEF Halves, JP!Typed, JP!TypeOK, EP!Typed, EP!TypeOK

\* The journal's actions move one process.
LEMMA JournalMoves ==
    ASSUME Halves, NEW p \in Procs, NEW q \in Procs, q # p,
           \/ \E i \in Ids, input \in Inputs : J!Reserve(p, i, input)
           \/ J!Handle(p)
           \/ J!Die(p)
    PROVE  jpc'[q] = jpc[q] /\ jlocal'[q] = jlocal[q]
  <1>1. \E l, j : J!Continue(p, l, j)
    BY DEF J!Reserve, J!Handle, J!RecordResponse, J!Dispatch, J!Complete, J!CompleteRaises,
        J!WriteResponse, J!Die
  <1> QED
    BY <1>1, Places DEF J!Continue

\* So do the backend's.
LEMMA BackendMoves ==
    ASSUME Halves, NEW p \in Procs, NEW q \in Procs, q # p,
           \/ E!Execute(p) \/ E!SavePreparation(p) \/ E!Recover(p) \/ E!Abandon(p)
           \/ \E r \in Requests, plan \in E!Plans : E!StartPrepare(p, r, plan)
           \/ \E r \in Requests, a \in Auths : E!StartExecute(p, r, a)
           \/ \E r \in Requests, cmd \in {"status", "recover"} : E!StartInspection(p, r, cmd)
    PROVE  epc'[q] = epc[q] /\ elocal'[q] = elocal[q]
  <1>1. (\E l, j : E!Continue(p, l, j)) \/ UNCHANGED <<epc, elocal>>
    BY DEF E!Execute, E!CheckHeight, E!Claim, E!Send, E!RecordSubmitted, E!StorageBusy,
        E!RecordRejection, E!MarkNeedsRecovery, E!SavePreparation, E!Recover, E!SecondLook,
        E!Inspect, E!Query, E!RecordObservation, E!Reread, E!DecideByHeight, E!Abandon,
        E!StartPrepare, E!StartExecute, E!StartInspection, E!Return
  <1> QED
    BY <1>1, Places DEF E!Continue

\* No step takes an attempt from the authorization it was claimed under, and
\* only the send in authorize-and-execute sends.
ClaimsKept ==
    \A r \in Requests : attempt[r].state # "none" => attempt'[r].auth = attempt[r].auth

\* What the steps inside authorize-and-execute do.
LEMMA ExecuteMoves ==
    ASSUME Halves, NEW p \in Procs, E!Execute(p)
    PROVE  /\ ClaimsKept
           /\ E!Send(p) \/ sends' = sends
           /\ epc'[p] # "checking"
           /\ epc'[p] # "idle" => elocal'[p].req = elocal[p].req
           /\ epc'[p] = "validated" => epc[p] = "checking" /\ elocal'[p] = elocal[p]
           /\ epc'[p] = "claimed" =>
                 epc[p] = "validated" /\ attempt'[elocal[p].req].auth = elocal[p].auth
  <1> DEFINE r == elocal[p].req
  <1> USE Places DEF E!Continue, E!Return, ClaimsKept, E!network, E!clock
  <1>1. epc[p] # "idle" => r \in Requests
    BY DEF Halves, EP!Typed, EP!JobOK
  <1>2. CASE E!CheckHeight(p)
    BY <1>2 DEF E!CheckHeight
  <1>3. CASE E!Claim(p)
    <2>1. epc[p] = "validated"
      BY <1>3 DEF E!Claim
    <2>2. CASE E!Return(p) /\ UNCHANGED attempt
      BY <1>3, <2>2 DEF E!Claim
    <2>3. CASE ~E!Taken(r, elocal[p].auth)
      <3>1. attempt[r].state = "none"
        BY <1>1, <2>1, <2>3 DEF E!Taken
      <3>2. /\ attempt' = [attempt EXCEPT ![r] =
                  [E!NoAttempt EXCEPT !.state = "broadcast_started", !.auth = elocal[p].auth]]
            /\ E!Continue(p, "claimed", [elocal[p] EXCEPT !.auth = None])
            /\ sends' = sends
        BY <1>3, <2>3 DEF E!Claim
      <3>3. attempt'[r].auth = elocal[p].auth
        BY <1>1, <2>1, <3>2 DEF E!NoAttempt
      <3>4. \A q \in Requests : q # r => attempt'[q] = attempt[q]
        BY <3>2
      <3>5. elocal[p] \in EP!Job
        BY DEF Halves, EP!Typed, EP!TypeOK
      <3>6. elocal'[p].req = r
        BY <3>2, <3>5 DEF EP!Job
      <3> QED
        BY <2>1, <3>1, <3>2, <3>3, <3>4, <3>6
    <2> QED
      BY <1>3, <2>2, <2>3 DEF E!Claim
  <1>4. CASE E!Send(p)
    BY <1>4 DEF E!Send
  <1>5. CASE E!RecordSubmitted(p) \/ E!RecordRejection(p) \/ E!MarkNeedsRecovery(p)
    <2>1. /\ epc[p] # "idle" /\ E!Return(p) /\ sends' = sends
          /\ \/ attempt' = attempt
             \/ attempt' = [attempt EXCEPT ![r].state = "submitted", ![r].receipt = "submitted"]
             \/ attempt' = [attempt EXCEPT ![r].state = "failed", ![r].obs = "rejection"]
             \/ attempt' = [attempt EXCEPT ![r].state = "needs_recovery"]
      BY <1>5 DEF E!RecordSubmitted, E!RecordRejection, E!MarkNeedsRecovery
    <2>2. \A q \in Requests : attempt[q] \in EP!AttemptRow
      BY DEF Halves, EP!Typed, EP!TypeOK
    <2> QED
      BY <1>1, <2>1, <2>2 DEF EP!AttemptRow
  <1>6. CASE E!StorageBusy(p)
    BY <1>6 DEF E!StorageBusy
  <1> QED
    BY <1>2, <1>3, <1>4, <1>5, <1>6 DEF E!Execute

\* What the steps of the other methods do.
LEMMA OtherMoves ==
    ASSUME Halves, NEW p \in Procs, E!SavePreparation(p) \/ E!Recover(p)
    PROVE  /\ ClaimsKept
           /\ sends' = sends
           /\ epc'[p] \notin {"checking", "validated", "claimed"}
           /\ epc'[p] # "idle" => elocal'[p].req = elocal[p].req
  <1> DEFINE r == elocal[p].req
  <1> USE Places DEF E!Continue, E!Return, ClaimsKept, E!network, E!clock, EP!Job
  <1>1. epc[p] # "idle" => r \in Requests
    BY DEF Halves, EP!Typed, EP!JobOK
  <1>2. /\ elocal[p] \in EP!Job
        /\ \A q \in Requests : attempt[q] \in EP!AttemptRow
    BY DEF Halves, EP!Typed, EP!TypeOK
  <1>3. CASE E!SavePreparation(p)
    BY <1>3 DEF E!SavePreparation
  <1>4. CASE E!SecondLook(p)
    <2>1. attempt' = attempt /\ sends' = sends /\ epc[p] # "idle"
      BY <1>4 DEF E!SecondLook
    <2>2. \/ E!Return(p)
          \/ \E l \in {"inspecting", "querying"} : \E s :
                E!Continue(p, l, [elocal[p] EXCEPT !.cmd = "fallback", !.seen = s])
      BY <1>4 DEF E!SecondLook
    <2>3. CASE E!Return(p)
      BY <2>1, <2>3
    <2>4. ASSUME NEW l \in {"inspecting", "querying"}, NEW s,
                 E!Continue(p, l, [elocal[p] EXCEPT !.cmd = "fallback", !.seen = s])
          PROVE  epc'[p] = l /\ elocal'[p].req = elocal[p].req
      BY <1>2, <2>4
    <2> QED
      BY <2>1, <2>2, <2>3, <2>4
  <1>5. CASE E!Inspect(p)
    BY <1>5 DEF E!Inspect
  <1>6. CASE E!Query(p)
    <2>1. PICK f, v : /\ E!Continue(p, "observed",
                            [elocal[p] EXCEPT !.seen = "none", !.finding = f, !.value = v])
                      /\ attempt' = attempt /\ sends' = sends
      BY <1>6 DEF E!Query
    <2>2. epc'[p] = "observed" /\ elocal'[p].req = elocal[p].req
      BY <1>2, <2>1
    <2> QED
      BY <2>1, <2>2
  <1>7. CASE E!RecordObservation(p)
    <2>1. \A q \in Requests : attempt'[q].auth = attempt[q].auth
      BY <1>1, <1>2, <1>7 DEF E!RecordObservation, EP!AttemptRow
    <2> QED
      BY <1>7, <2>1 DEF E!RecordObservation, E!NoJob
  <1>8. CASE E!Reread(p)
    BY <1>8 DEF E!Reread
  <1>9. CASE E!DecideByHeight(p)
    <2>0. \/ attempt' = attempt
          \/ attempt' = [attempt EXCEPT ![r].state = "needs_recovery", ![r].obs = "null"]
      BY <1>9 DEF E!DecideByHeight
    <2>1. \A q \in Requests : attempt'[q].auth = attempt[q].auth
      BY <1>2, <2>0 DEF EP!AttemptRow
    <2> QED
      BY <1>9, <2>1 DEF E!DecideByHeight
  <1> QED
    BY <1>3, <1>4, <1>5, <1>6, <1>7, <1>8, <1>9 DEF E!Recover

\* What the calls do.
LEMMA CallMoves ==
    ASSUME Halves, NEW p \in Procs, CallMethod(p)
    PROVE  /\ ClaimsKept
           /\ sends' = sends
           /\ epc'[p] \notin {"validated", "claimed"}
           /\ epc'[p] # "idle" => elocal'[p].req = Ask(p).req
           /\ epc'[p] = "checking" => /\ Ask(p).cmd = "authorize-and-execute"
                                       /\ elocal'[p].auth = Ask(p).auth
  <1> USE Places DEF E!Continue, ClaimsKept, E!network, E!clock, E!NoJob
  <1>0. epc[p] = "idle"
    BY DEF CallMethod
  <1>1. CASE E!StartPrepare(p, Ask(p).req, Ask(p).plan)
    BY <1>1 DEF E!StartPrepare
  <1>2. CASE Ask(p).cmd = "authorize-and-execute" /\ E!StartExecute(p, Ask(p).req, Ask(p).auth)
    BY <1>0, <1>2 DEF E!StartExecute
  <1>3. CASE E!StartInspection(p, Ask(p).req, Ask(p).cmd)
    <2>1. sends' = sends /\ attempt' = attempt
      BY <1>3 DEF E!StartInspection
    <2>2. \/ UNCHANGED <<epc, elocal>>
          \/ \E l \in {"inspecting", "second_look", "querying"} : \E s :
                E!Continue(p, l, [E!NoJob EXCEPT !.req = Ask(p).req, !.cmd = Ask(p).cmd, !.seen = s])
      BY <1>3 DEF E!StartInspection
    <2> QED
      BY <1>0, <2>1, <2>2
  <1> QED
    BY <1>1, <1>2, <1>3 DEF CallMethod

\* A process that is not moved keeps what couples it.
LEMMA StillCoupled ==
    ASSUME Halves, ClaimsKept, NEW q \in Procs, Coupled(q),
           epc'[q] = epc[q], elocal'[q] = elocal[q],
           epc[q] # "idle" => jpc'[q] = jpc[q] /\ jlocal'[q] = jlocal[q]
    PROVE  Coupled(q)'
  <1>1. SUFFICES ASSUME epc[q] # "idle" PROVE Coupled(q)'
    BY DEF Coupled
  <1>2. Ask(q)' = Ask(q)
    BY <1>1 DEF Ask
  <1>3. epc[q] = "claimed" => attempt'[Ask(q).req].auth = attempt[Ask(q).req].auth
    <2>1. elocal[q].req \in Requests
      BY <1>1 DEF Halves, EP!Typed, EP!JobOK
    <2>2. epc[q] = "claimed" => attempt[elocal[q].req].state # "none"
      BY DEF Halves, EP!BroadcastInv, EP!AfterClaim
    <2> QED
      BY <1>1, <2>1, <2>2 DEF ClaimsKept, Coupled
  <1> QED
    BY <1>1, <1>2, <1>3 DEF Coupled

\* Only the send in a method changes sends, and no step a claim's
\* authorization.
LEMMA StepKeepsClaims ==
    ASSUME Halves, [Next]_vars
    PROVE  /\ ClaimsKept
           /\ \/ \E p \in Procs : MethodStep(p) /\ E!Send(p)
              \/ sends' = sends /\ sender' = sender
  <1>1. CASE \E p \in Procs : MethodStep(p)
    BY <1>1, ExecuteMoves, OtherMoves DEF MethodStep, E!Execute
  <1>2. CASE \E p \in Procs : CallMethod(p)
    BY <1>2, CallMoves DEF CallMethod
  <1>3. CASE \E r \in Requests : Environment(r)
    BY <1>3 DEF Environment, E!Environment, E!BecomeLate, E!BecomeStale, E!Include, E!SettleBlock,
        E!SettledAs, E!Drop, E!Cluster, E!network, ClaimsKept
  <1>4. CASE \E p \in Procs : MethodRaises(p) \/ Die(p)
    BY <1>4 DEF MethodRaises, Die, E!Abandon, E!network, backend, ClaimsKept
  <1>5. CASE \/ \E p \in Procs : HandleStep(p) \/ EndMethod(p)
             \/ \E p \in Procs, i \in Ids, input \in Inputs : ReadRequest(p, i, input)
    BY <1>5 DEF HandleStep, EndMethod, ReadRequest, backend, ClaimsKept
  <1>6. CASE UNCHANGED vars
    BY <1>6 DEF vars, backend, ClaimsKept
  <1> QED
    BY <1>1, <1>2, <1>3, <1>4, <1>5, <1>6 DEF Next, Step

\* What a step of one process leaves to the others.
LEMMA OthersUnmoved ==
    ASSUME Halves, NEW p \in Procs,
           CallMethod(p) \/ EndMethod(p) \/ MethodStep(p) \/ MethodRaises(p) \/ Die(p)
    PROVE  \A q \in Procs : q # p =>
              /\ jpc'[q] = jpc[q] /\ jlocal'[q] = jlocal[q]
              /\ epc'[q] = epc[q] /\ elocal'[q] = elocal[q]
  <1>1. \A q \in Procs : q # p => jpc'[q] = jpc[q] /\ jlocal'[q] = jlocal[q]
    <2>1. J!Handle(p) \/ J!Die(p) \/ UNCHANGED <<jpc, jlocal>>
      BY DEF CallMethod, EndMethod, MethodStep, MethodRaises, Die, RunOn, ReturnWith, J!Handle,
          journal
    <2> QED
      BY <2>1, JournalMoves
  <1>2. \A q \in Procs : q # p => epc'[q] = epc[q] /\ elocal'[q] = elocal[q]
    <2>1. \/ E!Execute(p) \/ E!SavePreparation(p) \/ E!Recover(p) \/ E!Abandon(p)
          \/ \E r \in Requests, plan \in E!Plans : E!StartPrepare(p, r, plan)
          \/ \E r \in Requests, a \in Auths : E!StartExecute(p, r, a)
          \/ \E r \in Requests, cmd \in {"status", "recover"} : E!StartInspection(p, r, cmd)
          \/ UNCHANGED <<epc, elocal>>
      <3>1. CASE CallMethod(p)
        BY <3>1, DispatchingAsks, InputsAssumption DEF CallMethod, Halves
      <3>2. CASE EndMethod(p) \/ MethodStep(p) \/ MethodRaises(p) \/ Die(p)
        BY <3>2 DEF EndMethod, MethodStep, MethodRaises, Die, E!Execute, backend
      <3> QED
        BY <3>1, <3>2
    <2> QED
      BY <2>1, BackendMoves
  <1> QED
    BY <1>1, <1>2

LEMMA NextCoupled ==
    ASSUME Halves, CoupledInv, [Next]_vars
    PROVE  CoupledInv'
  <1> USE DEF CoupledInv
  <1>1. ClaimsKept
    BY StepKeepsClaims
  <1>2. CASE UNCHANGED <<epc, elocal, jpc, jlocal>>
    BY <1>1, <1>2, StillCoupled
  <1>3. CASE \E r \in Requests : Environment(r)
    BY <1>2, <1>3 DEF Environment, journal, E!Environment, E!BecomeLate, E!BecomeStale,
        E!Include, E!SettleBlock, E!SettledAs, E!Drop, E!Cluster
  <1>4. ASSUME NEW p \in Procs,
               \/ \E i \in Ids, input \in Inputs : ReadRequest(p, i, input)
               \/ HandleStep(p) \/ EndMethod(p)
        PROVE  CoupledInv'
    <2>1. /\ epc[p] = "idle" /\ UNCHANGED <<epc, elocal>>
      BY <1>4 DEF ReadRequest, HandleStep, EndMethod, J!Reserve, J!RecordResponse, J!Complete,
          J!CompleteRaises, J!WriteResponse, Coupled, backend
    <2>2. \A q \in Procs : q # p => jpc'[q] = jpc[q] /\ jlocal'[q] = jlocal[q]
      BY <1>4, JournalMoves DEF ReadRequest, HandleStep, EndMethod, ReturnWith, J!Handle
    <2> QED
      BY <1>1, <2>1, <2>2, StillCoupled
  <1>5. ASSUME NEW p \in Procs, CallMethod(p) \/ MethodStep(p) \/ MethodRaises(p) \/ Die(p)
        PROVE  CoupledInv'
    <2>1. \A q \in Procs : q # p =>
             /\ jpc'[q] = jpc[q] /\ jlocal'[q] = jlocal[q]
             /\ epc'[q] = epc[q] /\ elocal'[q] = elocal[q]
      BY <1>5, OthersUnmoved
    <2>2. CASE CallMethod(p)
      <3>1. epc'[p] # "idle" => jpc'[p] = "dispatching" /\ jlocal' = jlocal
        BY <2>2 DEF CallMethod, RunOn, journal
      <3>2. Coupled(p)'
        BY <2>2, <3>1, CallMoves DEF Coupled, Ask
      <3> QED
        BY <1>1, <2>1, <3>2, StillCoupled
    <2>3. CASE MethodStep(p)
      <3>1. epc'[p] # "idle" => jpc'[p] = "dispatching" /\ jlocal' = jlocal
        BY <2>3 DEF MethodStep, RunOn, journal
      <3>2. Coupled(p)'
        BY <2>3, <3>1, ExecuteMoves, OtherMoves DEF MethodStep, E!Execute, Coupled, Ask
      <3> QED
        BY <1>1, <2>1, <3>2, StillCoupled
    <2>4. CASE MethodRaises(p) \/ Die(p)
      <3>1. epc'[p] = "idle"
        BY <2>4, Places DEF MethodRaises, Die, E!Abandon, E!Return, E!Continue, backend
      <3>2. Coupled(p)'
        BY <3>1 DEF Coupled
      <3> QED
        BY <1>1, <2>1, <3>2, StillCoupled
    <2> QED
      BY <1>5, <2>2, <2>3, <2>4
  <1> QED
    BY <1>2, <1>3, <1>4, <1>5 DEF Next, Step, vars, journal, backend

\* At the send the caller's row is as reserve left it and names the request
\* and the authorization that are used.
LEMMA SendMoves ==
    ASSUME Halves, CoupledInv, NEW p \in Procs, MethodStep(p), E!Send(p)
    PROVE  LET r == elocal[p].req
               i == jlocal[p].id
           IN  /\ r \in Requests /\ i \in Ids
               /\ sends' = [sends EXCEPT ![r] = @ + 1]
               /\ rows' = rows /\ attempt' = attempt
               /\ sender' = [sender EXCEPT ![r] = i]
               /\ rows[i].state # "none" /\ rows[i].response = "none"
               /\ rows[i].input.cmd = "authorize-and-execute"
               /\ rows[i].input.req = r
               /\ rows[i].input.auth = attempt[r].auth
  <1>1. /\ epc[p] = "claimed" /\ jpc[p] = "dispatching" /\ epc'[p] # "idle"
        /\ sends' = [sends EXCEPT ![elocal[p].req] = @ + 1] /\ attempt' = attempt
    BY Places DEF MethodStep, E!Send, E!Continue
  <1>2. elocal[p].req \in Requests /\ jlocal[p].id \in Ids
    BY <1>1, DispatchingAsks DEF Halves, EP!Typed, EP!JobOK
  <1>3. rows' = rows
    BY <1>1 DEF MethodStep, RunOn, journal
  <1>4. sender' = [sender EXCEPT ![elocal[p].req] = jlocal[p].id]
    BY <1>1 DEF MethodStep, E!SavePreparation, E!CheckHeight, E!Claim, E!RecordSubmitted,
        E!StorageBusy, E!RecordRejection, E!MarkNeedsRecovery, E!Recover, E!SecondLook, E!Inspect,
        E!Query, E!RecordObservation, E!Reread, E!DecideByHeight
  <1>5. rows[jlocal[p].id].state = "reserved" /\ rows[jlocal[p].id].input = Ask(p)
    BY <1>1 DEF Halves, JP!JournalInv, JP!WorkOK, JP!Working, Ask
  <1>6. rows[jlocal[p].id].response = "none"
    BY <1>2, <1>5 DEF Halves, JP!JournalInv, JP!RowsInv
  <1>7. /\ Ask(p).cmd = "authorize-and-execute" /\ Ask(p).req = elocal[p].req
        /\ Ask(p).auth = attempt[elocal[p].req].auth
    BY <1>1 DEF CoupledInv, Coupled
  <1> QED
    BY <1>1, <1>2, <1>3, <1>4, <1>5, <1>6, <1>7

LEMMA NextAccounted ==
    ASSUME Halves, SystemInv, [Next]_vars
    PROVE  SendIsAccountedFor'
  <1> USE DEF SystemInv
  <1>1. ClaimsKept
    BY StepKeepsClaims
  <1>2. JP!RowsKept
    <2>1. [JP!Next]_(JP!vars)
      BY JournalStep, SameJournal
    <2> QED
      BY <2>1, NoneOfJournal, JP!NextKeepsRows DEF Halves
  <1>3. \A r \in Requests : sends[r] > 0 => attempt[r].state # "none"
    BY DEF Halves, EP!BroadcastInv
  <1>4. ASSUME NEW r \in Requests, sends[r] > 0, sender'[r] = sender[r]
        PROVE  LET row == rows'[sender'[r]]
               IN  /\ sender'[r] \in Ids
                   /\ row.state # "none"
                   /\ row.input.cmd = "authorize-and-execute"
                   /\ row.input.req = r
                   /\ row.input.auth = attempt'[r].auth
    BY <1>1, <1>2, <1>3, <1>4 DEF SendIsAccountedFor, ClaimsKept, JP!RowsKept
  <1>5. CASE sends' = sends /\ sender' = sender
    BY <1>4, <1>5 DEF SendIsAccountedFor
  <1>6. ASSUME NEW p \in Procs, MethodStep(p), E!Send(p)
        PROVE  SendIsAccountedFor'
    <2> DEFINE r == elocal[p].req
    <2>1. DOMAIN sender = Requests /\ DOMAIN sends = Requests
      BY DEF Halves, EP!Typed, EP!TypeOK
    <2>2. \A q \in Requests : q # r => sends'[q] = sends[q] /\ sender'[q] = sender[q]
      BY <1>6, <2>1, SendMoves
    <2> QED
      BY <1>4, <1>6, <2>1, <2>2, SendMoves DEF SendIsAccountedFor
  <1> QED
    BY <1>5, <1>6, StepKeepsClaims

LEMMA NextSystem == Halves /\ SystemInv /\ [Next]_vars => SystemInv'
  <1> SUFFICES ASSUME Halves, SystemInv, [Next]_vars PROVE SystemInv'
    OBVIOUS
  <1>1. sender' \in [Requests -> Ids \cup {None}]
    BY StepKeepsClaims, SendMoves DEF SystemInv
  <1> QED
    BY <1>1, NextCoupled, NextAccounted DEF SystemInv

LEMMA InitSystem == Init => SystemInv
  BY DEF Init, SystemInv, CoupledInv, Coupled, SendIsAccountedFor, E!Init

LEMMA SystemInvariant == Spec => []SystemInv
  BY InitSystem, NextSystem, HalvesInvariant, PTL DEF Spec

\* Every transaction on the network was asked for, under its authorization,
\* by a request that the gateway had reserved (service.py, solana_execute.py).
THEOREM SendsAccountedFor == Spec => []SendIsAccountedFor
  BY SystemInvariant, PTL DEF SystemInv

\* Nothing is sent under an id that has its answer.
THEOREM NothingSentAfterAnswer == Spec => NoSendAfterAnswer
  <1>1. Halves /\ SystemInv /\ [Next]_vars =>
           [\A r \in Requests :
               sends'[r] # sends[r] => rows[sender'[r]].response = "none"]_vars
    <2> SUFFICES ASSUME Halves, SystemInv, [Next]_vars,
                        NEW r \in Requests, sends'[r] # sends[r]
                 PROVE  rows[sender'[r]].response = "none"
      OBVIOUS
    <2>1. PICK p \in Procs : MethodStep(p) /\ E!Send(p)
      BY StepKeepsClaims
    <2>2. DOMAIN sender = Requests /\ DOMAIN sends = Requests
      BY DEF Halves, EP!Typed, EP!TypeOK, SystemInv
    <2> QED
      BY <2>1, <2>2, SendMoves DEF SystemInv
  <1> QED
    BY <1>1, SystemInvariant, HalvesInvariant, PTL DEF Spec, NoSendAfterAnswer
-----------------------------------------------------------------------------
(* What the answers rest on                                                *)

\* A result rests on what is durable: the stored message of that hash, the
\* attempt and the transaction of this very call.
Backed(i, ask) ==
    /\ ask.cmd = "prepare" =>
          prep[ask.req].state # "none" /\ prep[ask.req].plan.hash = ask.plan.hash
    /\ ask.cmd = "authorize-and-execute" =>
          /\ sender[ask.req] = i
          /\ attempt[ask.req].auth = ask.auth
          /\ attempt[ask.req].receipt # "none"
          /\ chain[ask.req] # "unsent"

SentNothing(i) == \A r \in Requests : sender[r] # i

\* What a call under id i ended with, and the reason given, is so.
EndedAs(i, ask, kind, why) ==
    /\ kind = "result" => Backed(i, ask)
    /\ kind = "error" /\ why = "refused" => SentNothing(i)
    /\ kind = "error" /\ why = "rejected" => sends[ask.req] = 1 /\ chain[ask.req] = "unsent"

\* Locations of a handler whose call has sent, and of the methods that look.
Sent == {"answered", "rejected", "unknown"}
Looking == {"second_look", "inspecting", "querying", "observed", "reread", "deciding"}

\* A call that still runs is of the method that the caller named, and has
\* sent what it is about to record, or nothing.
CallOK(p) ==
    /\ epc[p] = "compiling" => Ask(p).cmd = "prepare" /\ elocal[p].plan = Ask(p).plan
    /\ epc[p] \in Looking => Ask(p).cmd \in {"status", "recover"}
    /\ IF epc[p] \in Sent
       THEN sender[elocal[p].req] = jlocal[p].id
       ELSE SentNothing(jlocal[p].id)

EndOK(p) == EndedAs(jlocal[p].id, Ask(p), jlocal[p].kind, reason[jlocal[p].id])
StoredOK(i) == EndedAs(i, rows[i].input, rows[i].response, reason[i])

AnswersInv ==
    /\ DOMAIN reason = Ids
    /\ \A r \in Requests : sender[r] # None => sends[r] = 1
    /\ \A p \in Procs : jpc[p] = "dispatching" => CallOK(p)
    /\ \A p \in Procs : jpc[p] \in {"completing", "failing"} => EndOK(p)
    /\ \A i \in Ids : StoredOK(i)

Context == Halves /\ SystemInv /\ AnswersInv

\* What the backend never takes back.
Kept ==
    \A r \in Requests :
        /\ prep[r].state # "none" => prep'[r].state # "none" /\ prep'[r].plan = prep[r].plan
        /\ attempt[r].state # "none" => attempt'[r].auth = attempt[r].auth
        /\ attempt[r].receipt # "none" => attempt'[r].receipt # "none"
        /\ sends[r] = 1 => sends'[r] = 1 /\ sender'[r] = sender[r]
        /\ chain[r] # "unsent" => chain'[r] # "unsent"
        /\ sends[r] = 1 /\ chain[r] = "unsent" => chain'[r] = "unsent"

LEMMA StepKeeps ==
    ASSUME Context, [Next]_vars
    PROVE  Kept
  <1> USE DEF Context
  <1>1. [EP!Next]_(EP!vars)
    BY BackendStep, SameBackend, DispatchingAsks DEF Halves
  <1>2. EP!Irreversible(ForksPossible)
    BY <1>1, NoneOfBackend, EP!NextIrreversible DEF Halves
  <1>3. \A r \in Requests : prep[r].state # "none" =>
           prep'[r].state # "none" /\ prep'[r].plan = prep[r].plan
    BY <1>1, NoneOfBackend, EP!StoredPlansStay DEF Halves
  <1>4. \A r \in Requests : attempt[r].receipt # "none" => attempt'[r].receipt # "none"
    BY <1>1, NoneOfBackend, EP!ReceiptsStay DEF Halves
  <1>5. ASSUME NEW r \in Requests, sends[r] = 1
        PROVE  sender'[r] = sender[r]
    <2>1. CASE sender' = sender
      BY <2>1
    <2>2. ASSUME NEW p \in Procs, MethodStep(p), E!Send(p)
          PROVE  sender'[r] = sender[r]
      <3>1. sends[elocal[p].req] = 0
        BY <2>2 DEF E!Send, Halves, EP!BroadcastInv
      <3>2. sender' = [sender EXCEPT ![elocal[p].req] = jlocal[p].id]
        BY <2>2, SendMoves DEF SystemInv
      <3> QED
        BY <1>5, <3>1, <3>2 DEF SystemInv
    <2> QED
      BY <2>1, <2>2, StepKeepsClaims
  <1> QED
    BY <1>2, <1>3, <1>4, <1>5, StepKeepsClaims DEF Kept, EP!Irreversible, ClaimsKept

\* An id for which nothing was sent, and its reason, stay as they are.
Same(i) == reason'[i] = reason[i] /\ (SentNothing(i) => SentNothing(i)')

LEMMA BackedStays ==
    ASSUME Halves, Kept, NEW i \in Ids, NEW ask \in Inputs, Backed(i, ask)
    PROVE  Backed(i, ask)'
  <1>1. ask.req \in Requests
    BY InputsAssumption
  <1>2. /\ chain[ask.req] # "unsent" => sends[ask.req] = 1
        /\ sends[ask.req] = 1 => attempt[ask.req].state # "none"
    BY <1>1 DEF Halves, EP!BroadcastInv
  <1> QED
    BY <1>1, <1>2 DEF Backed, Kept

LEMMA EndStays ==
    ASSUME Halves, Kept, NEW i \in Ids, NEW ask \in Inputs, NEW kind, NEW why,
           EndedAs(i, ask, kind, why), SentNothing(i) => SentNothing(i)'
    PROVE  EndedAs(i, ask, kind, why)'
  <1>1. ask.req \in Requests
    BY InputsAssumption
  <1> QED
    BY <1>1, BackedStays DEF EndedAs, Kept

\* A process that a step does not move keeps what it holds, a row what it says.
LEMMA ProcessStays ==
    ASSUME Context, Kept, NEW q \in Procs,
           jpc'[q] = jpc[q], jlocal'[q] = jlocal[q], epc'[q] = epc[q], elocal'[q] = elocal[q],
           jpc[q] \in JP!Working => Same(jlocal[q].id)
    PROVE  /\ jpc'[q] = "dispatching" => CallOK(q)'
           /\ jpc'[q] \in {"completing", "failing"} => EndOK(q)'
  <1> SUFFICES ASSUME jpc[q] \in JP!Working
               PROVE  /\ jpc'[q] = "dispatching" => CallOK(q)'
                      /\ jpc'[q] \in {"completing", "failing"} => EndOK(q)'
    BY DEF JP!Working
  <1>1. PICK i \in Ids, ask \in Inputs : i = jlocal[q].id /\ ask = Ask(q)
    BY DEF JP!Working, Context, Halves, JP!Typed, JP!JobOK, Ask
  <1>2. Ask(q)' = ask /\ jlocal'[q].id = i /\ Same(i)
    BY <1>1 DEF Ask
  <1>3. CASE jpc[q] = "dispatching"
    <2>1. CallOK(q)
      BY <1>3 DEF Context, AnswersInv
    <2>2. CASE epc[q] \in Sent
      <3>1. PICK r \in Requests : r = elocal[q].req
        BY <2>2 DEF Sent, Context, Halves, EP!Typed, EP!JobOK
      <3>2. sender[r] = i /\ i # None
        BY <1>1, <2>1, <2>2, <3>1, NoneAssumption DEF CallOK
      <3>3. sender'[r] = i
        BY <3>2 DEF Context, AnswersInv, Kept
      <3> QED
        BY <1>2, <1>3, <2>2, <3>1, <3>3 DEF CallOK, Sent, Looking
    <2>3. CASE epc[q] \notin Sent
      <3>1. SentNothing(i)'
        BY <1>1, <1>2, <2>1, <2>3 DEF CallOK, Same
      <3>2. SentNothing(jlocal[q].id)'
        BY <1>2, <3>1 DEF SentNothing
      <3> QED
        BY <1>1, <1>2, <1>3, <2>1, <2>3, <3>2 DEF CallOK
    <2> QED
      BY <2>2, <2>3
  <1>4. CASE jpc[q] \in {"completing", "failing"}
    <2>1. PICK kind, why : kind = jlocal[q].kind /\ why = reason[i]
      OBVIOUS
    <2>2. EndedAs(i, ask, kind, why)
      BY <1>1, <1>4, <2>1 DEF Context, AnswersInv, EndOK
    <2>3. EndedAs(i, ask, kind, why)'
      BY <1>2, <2>2, EndStays DEF Context, Same
    <2>4. jlocal'[q].kind = kind /\ reason'[i] = why
      BY <1>2, <2>1 DEF Same
    <2> QED
      BY <1>2, <1>4, <2>3, <2>4 DEF EndOK, EndedAs, Backed, SentNothing
  <1> QED
    BY <1>3, <1>4 DEF JP!Working

LEMMA RowStays ==
    ASSUME Context, Kept, NEW i \in Ids,
           rows'[i].input = rows[i].input, rows'[i].response = rows[i].response,
           rows[i].response # "none" => Same(i)
    PROVE  StoredOK(i)'
  <1>1. CASE rows[i].response = "none"
    BY <1>1 DEF StoredOK, EndedAs
  <1>2. CASE rows[i].response # "none"
    <2>1. rows[i].input \in Inputs
      BY <1>2 DEF Context, Halves, JP!Typed, JP!TypeOK, JP!Row, JP!JournalInv, JP!RowsInv
    <2>2. PICK ask \in Inputs : ask = rows[i].input
      BY <2>1
    <2>3. PICK kind, why : kind = rows[i].response /\ why = reason[i]
      OBVIOUS
    <2>4. EndedAs(i, ask, kind, why)'
      BY <1>2, <2>2, <2>3, EndStays DEF Context, AnswersInv, StoredOK, Same
    <2> QED
      BY <1>2, <2>2, <2>3, <2>4 DEF StoredOK, EndedAs, Backed, SentNothing, Same
  <1> QED
    BY <1>1, <1>2

LEMMA SendersStay ==
    ASSUME Context, [Next]_vars
    PROVE  \A r \in Requests : sender'[r] # None => sends'[r] = 1
  <1>1. CASE sends' = sends /\ sender' = sender
    BY <1>1 DEF Context, AnswersInv
  <1>2. ASSUME NEW p \in Procs, MethodStep(p), E!Send(p)
        PROVE  \A r \in Requests : sender'[r] # None => sends'[r] = 1
    <2> DEFINE r == elocal[p].req
    <2>1. /\ r \in Requests /\ sends' = [sends EXCEPT ![r] = @ + 1]
          /\ sender' = [sender EXCEPT ![r] = jlocal[p].id]
      BY <1>2, SendMoves DEF Context, SystemInv
    <2>2. sends[r] = 0
      BY <1>2 DEF E!Send, Context, Halves, EP!BroadcastInv
    <2>3. DOMAIN sends = Requests /\ DOMAIN sender = Requests
      BY DEF Context, Halves, SystemInv, EP!Typed, EP!TypeOK
    <2> QED
      BY <2>1, <2>2, <2>3 DEF Context, AnswersInv
  <1> QED
    BY <1>1, <1>2, StepKeepsClaims DEF Context

\* A step keeps the invariant if it does for the processes it moves and the
\* rows it writes.
LEMMA AnswersStep ==
    ASSUME Context, [Next]_vars, DOMAIN reason' = Ids,
           \A q \in Procs :
              \/ /\ jpc'[q] = jpc[q] /\ jlocal'[q] = jlocal[q]
                 /\ epc'[q] = epc[q] /\ elocal'[q] = elocal[q]
                 /\ jpc[q] \in JP!Working => Same(jlocal[q].id)
              \/ /\ jpc'[q] = "dispatching" => CallOK(q)'
                 /\ jpc'[q] \in {"completing", "failing"} => EndOK(q)',
           \A i \in Ids :
              \/ /\ rows'[i].input = rows[i].input /\ rows'[i].response = rows[i].response
                 /\ rows[i].response # "none" => Same(i)
              \/ StoredOK(i)'
    PROVE  AnswersInv'
  <1>1. Kept
    BY StepKeeps
  <1>2. \A q \in Procs : /\ jpc'[q] = "dispatching" => CallOK(q)'
                         /\ jpc'[q] \in {"completing", "failing"} => EndOK(q)'
    BY <1>1, ProcessStays
  <1>3. \A i \in Ids : StoredOK(i)'
    BY <1>1, RowStays
  <1> QED
    BY <1>2, <1>3, SendersStay DEF AnswersInv

\* The process that works on an id is alone, and its row has no answer yet.
LEMMA OneWorker ==
    ASSUME Halves, NEW p \in Procs, jpc[p] \in JP!Working
    PROVE  /\ jlocal[p].id \in Ids /\ Ask(p) \in Inputs
           /\ rows[jlocal[p].id].input = Ask(p)
           /\ rows[jlocal[p].id].response = "none"
           /\ \A q \in Procs : q # p /\ jpc[q] \in JP!Working => jlocal[q].id # jlocal[p].id
  BY DEF Halves, JP!Typed, JP!JobOK, JP!JournalInv, JP!WorkOK, JP!RowsInv, JP!Working, Ask

\* A backend call changes what is known of its own id only.
LEMMA CallSame ==
    ASSUME Context, NEW p \in Procs,
           CallMethod(p) \/ EndMethod(p) \/ MethodStep(p) \/ MethodRaises(p)
    PROVE  /\ jpc[p] = "dispatching" /\ rows' = rows /\ DOMAIN reason' = Ids
           /\ \A i \in Ids : i # jlocal[p].id => Same(i)
           /\ ~E!Send(p) => sender' = sender
  <1>1. jpc[p] = "dispatching"
    BY DEF CallMethod, EndMethod, MethodStep, MethodRaises
  <1>2. rows' = rows
    BY DEF CallMethod, EndMethod, MethodStep, MethodRaises, RunOn, ReturnWith, J!Dispatch, journal
  <1>3. reason' = reason \/ \E why : reason' = [reason EXCEPT ![jlocal[p].id] = why]
    BY DEF CallMethod, EndMethod, MethodStep, MethodRaises, RunOn, ReturnWith
  <1>4. \/ sender' = sender
        \/ E!Send(p) /\ sender' = [sender EXCEPT ![elocal[p].req] = jlocal[p].id]
    BY DEF CallMethod, EndMethod, MethodStep, MethodRaises
  <1>5. DOMAIN sender = Requests /\ DOMAIN reason = Ids
    BY DEF Context, SystemInv, AnswersInv
  <1>6. ASSUME NEW i \in Ids, i # jlocal[p].id
        PROVE  Same(i)
    BY <1>3, <1>4, <1>5, <1>6 DEF Same, SentNothing
  <1> QED
    BY <1>1, <1>2, <1>3, <1>4, <1>5, <1>6

LEMMA CallAnswers ==
    ASSUME Context, [Next]_vars, NEW p \in Procs,
           CallMethod(p) \/ EndMethod(p) \/ MethodStep(p) \/ MethodRaises(p),
           jpc'[p] = "dispatching" => CallOK(p)',
           jpc'[p] \in {"completing", "failing"} => EndOK(p)'
    PROVE  AnswersInv'
  <1>1. jpc[p] \in JP!Working
    BY CallSame DEF JP!Working
  <1>2. ASSUME NEW q \in Procs, q # p
        PROVE  /\ jpc'[q] = jpc[q] /\ jlocal'[q] = jlocal[q]
               /\ epc'[q] = epc[q] /\ elocal'[q] = elocal[q]
               /\ jpc[q] \in JP!Working => Same(jlocal[q].id)
    <2>1. /\ jpc'[q] = jpc[q] /\ jlocal'[q] = jlocal[q]
          /\ epc'[q] = epc[q] /\ elocal'[q] = elocal[q]
      BY <1>2, OthersUnmoved DEF Context
    <2>2. ASSUME jpc[q] \in JP!Working
          PROVE  Same(jlocal[q].id)
      <3>1. PICK i \in Ids : i = jlocal[q].id /\ i # jlocal[p].id
        BY <1>1, <1>2, <2>2, OneWorker DEF Context
      <3>2. Same(i)
        BY <3>1, CallSame
      <3>3. jlocal'[q].id = i
        BY <2>1, <3>1
      <3> QED
        BY <3>1, <3>2, <3>3 DEF Same, SentNothing
    <2> QED
      BY <2>1, <2>2
  <1>3. ASSUME NEW i \in Ids
        PROVE  /\ rows'[i].input = rows[i].input /\ rows'[i].response = rows[i].response
               /\ rows[i].response # "none" => Same(i)
    BY <1>1, CallSame, OneWorker DEF Context
  <1> QED
    BY <1>2, <1>3, CallSame, AnswersStep

\* The call ends: with e.
LEMMA ReturnAnswers ==
    ASSUME Context, [Next]_vars, NEW p \in Procs,
           CallMethod(p) \/ EndMethod(p) \/ MethodStep(p) \/ MethodRaises(p),
           NEW i \in Ids, NEW ask \in Inputs, i = jlocal[p].id, ask = Ask(p),
           NEW e, ReturnWith(p, {e}),
           EndedAs(i, ask, e.kind, e.reason)'
    PROVE  AnswersInv'
  <1>1. /\ jpc'[p] \in {"completing", "failing"} /\ jlocal'[p].id = i /\ Ask(p)' = ask
        /\ jlocal'[p].kind = e.kind
    <2>1. PICK l \in {"completing", "failing"} : \E kind :
             J!Continue(p, l, [jlocal[p] EXCEPT !.kind = kind])
      BY DEF ReturnWith, J!Dispatch
    <2>2. PICK kind : J!Continue(p, l, [jlocal[p] EXCEPT !.kind = kind])
      BY <2>1
    <2> DEFINE j == [jlocal[p] EXCEPT !.kind = kind]
    <2>3. j.id = i /\ j.input = ask
      BY DEF Ask, Context, Halves, JP!Typed, JP!TypeOK, JP!Job
    <2> HIDE DEF j
    <2>4. jpc'[p] = l /\ jlocal'[p] = j
      BY <2>2, Places DEF J!Continue, Context, j
    <2> QED
      BY <2>3, <2>4 DEF ReturnWith, Ask
  <1>2. reason'[i] = e.reason
    BY DEF ReturnWith, Context, AnswersInv
  <1>3. EndOK(p)'
    BY <1>1, <1>2 DEF EndOK, EndedAs, Backed, SentNothing
  <1> QED
    BY <1>1, <1>3, CallAnswers

\* The call goes on.
LEMMA RunOnAnswers ==
    ASSUME Context, [Next]_vars, NEW p \in Procs, CallMethod(p) \/ MethodStep(p),
           NEW i \in Ids, NEW ask \in Inputs, i = jlocal[p].id, ask = Ask(p),
           epc'[p] # "idle",
           epc'[p] = "compiling" => ask.cmd = "prepare" /\ elocal'[p].plan = ask.plan,
           epc'[p] \in Looking => ask.cmd \in {"status", "recover"},
           epc'[p] \in Sent => sender'[elocal'[p].req] = i,
           epc'[p] \notin Sent => SentNothing(i)'
    PROVE  AnswersInv'
  <1>1. UNCHANGED <<jpc, jlocal>>
    BY DEF CallMethod, MethodStep, RunOn, journal
  <1>2. Ask(p)' = ask /\ jlocal'[p].id = i /\ jpc'[p] = "dispatching"
    BY <1>1, CallSame DEF Ask
  <1>3. CallOK(p)'
    BY <1>2 DEF CallOK, SentNothing
  <1> QED
    BY <1>2, <1>3, CallAnswers

\* replay_or_block replays the stored message of the same hash.
LEMMA PrepareEndsOK ==
    ASSUME NEW i, NEW ask \in Inputs, ask.cmd = "prepare", SentNothing(i),
           NEW e \in PrepareEnds(ask.req, ask.plan)
    PROVE  EndedAs(i, ask, e.kind, e.reason)
  <1>1. CASE e = Error("refused")
    BY <1>1 DEF Error, EndedAs
  <1>2. CASE e # Error("refused")
    <2>1. /\ e = Result
          /\ \E q \in E!Blocking(ask.req, ask.plan.obligation) :
                q = ask.req /\ prep[q].plan.hash = ask.plan.hash
      BY <1>2 DEF PrepareEnds
    <2>2. Backed(i, ask)
      BY <2>1 DEF E!Blocking, Backed
    <2> QED
      BY <2>1, <2>2 DEF Result, EndedAs
  <1> QED
    BY <1>1, <1>2

\* A call that has sent nothing and does not send now still has not.
LEMMA StillNothing ==
    ASSUME Context, NEW p \in Procs, NEW i \in Ids, i = jlocal[p].id,
           CallMethod(p) \/ EndMethod(p) \/ MethodStep(p) \/ MethodRaises(p),
           epc[p] \notin Sent, ~E!Send(p)
    PROVE  SentNothing(i) /\ SentNothing(i)'
  <1>1. SentNothing(i) /\ sender' = sender
    BY CallSame DEF Context, AnswersInv, CallOK
  <1> QED
    BY <1>1 DEF SentNothing

\* Errors before the send, results of methods that only look, and exceptions
\* promise nothing more.
LEMMA PlainReturn ==
    ASSUME Context, [Next]_vars, NEW p \in Procs,
           CallMethod(p) \/ EndMethod(p) \/ MethodStep(p) \/ MethodRaises(p),
           NEW i \in Ids, NEW ask \in Inputs, i = jlocal[p].id, ask = Ask(p),
           NEW e, ReturnWith(p, {e}),
           \/ e = Error("refused") /\ epc[p] \notin Sent /\ ~E!Send(p)
           \/ e = Result /\ ask.cmd \notin {"prepare", "authorize-and-execute"}
           \/ e = Exception \/ e = Error("uncertain")
    PROVE  AnswersInv'
  <1>1. \/ e = Error("refused") /\ SentNothing(i)'
        \/ e = Result /\ ask.cmd \notin {"prepare", "authorize-and-execute"}
        \/ e = Exception \/ e = Error("uncertain")
    BY StillNothing
  <1>2. EndedAs(i, ask, e.kind, e.reason)'
    BY <1>1 DEF Error, Result, Exception, EndedAs, Backed
  <1> QED
    BY <1>2, ReturnAnswers

LEMMA CallMethodAnswers ==
    ASSUME Context, [Next]_vars, NEW p \in Procs, CallMethod(p)
    PROVE  AnswersInv'
  <1>1. PICK i \in Ids, ask \in Inputs : i = jlocal[p].id /\ ask = Ask(p)
    BY DispatchingAsks DEF CallMethod, Context, Halves
  <1>2. epc[p] = "idle" /\ epc[p] \notin Sent /\ ~E!Send(p)
    BY DEF CallMethod, Sent, E!Send
  <1>3. CASE epc'[p] = "idle"
    <2>1. ask.cmd # "prepare"
      <3>1. CASE E!StartPrepare(p, ask.req, ask.plan)
        BY <1>3, <3>1, Places DEF E!StartPrepare, E!Continue, Context
      <3> QED
        BY <1>1, <3>1 DEF CallMethod
    <2>2. \/ ReturnWith(p, {Error("refused")})
          \/ ReturnWith(p, {Result}) /\ ask.cmd \notin {"prepare", "authorize-and-execute"}
      BY <1>1, <1>3, <2>1 DEF CallMethod, RunOn
    <2> QED
      BY <1>1, <1>2, <2>2, PlainReturn
  <1>4. CASE epc'[p] # "idle"
    <2>1. SentNothing(i)'
      BY <1>1, <1>2, StillNothing
    <2>2. CASE ask.cmd = "prepare" /\ E!StartPrepare(p, ask.req, ask.plan)
      <3>1. epc'[p] = "compiling" /\ elocal'[p].plan = ask.plan
        BY <2>2, Places DEF E!StartPrepare, E!Continue, E!NoJob, Context
      <3> QED
        BY <1>1, <1>4, <2>1, <2>2, <3>1, RunOnAnswers DEF Looking, Sent
    <2>3. CASE E!StartExecute(p, ask.req, ask.auth)
      <3>1. epc'[p] = "checking"
        BY <1>2, <1>4, <2>3, Places DEF E!StartExecute, E!Continue, Context
      <3> QED
        BY <1>1, <1>4, <2>1, <3>1, RunOnAnswers DEF Looking, Sent
    <2>4. CASE ask.cmd \in {"status", "recover"} /\ E!StartInspection(p, ask.req, ask.cmd)
      <3>1. epc'[p] \in Looking
        BY <1>2, <1>4, <2>4, Places DEF E!StartInspection, E!Continue, Looking, Context
      <3> QED
        BY <1>1, <1>4, <2>1, <2>4, <3>1, RunOnAnswers DEF Looking, Sent
    <2> QED
      BY <1>1, <2>2, <2>3, <2>4 DEF CallMethod
  <1> QED
    BY <1>3, <1>4

LEMMA EndMethodAnswers ==
    ASSUME Context, [Next]_vars, NEW p \in Procs, EndMethod(p)
    PROVE  AnswersInv'
  <1>1. PICK i \in Ids, ask \in Inputs : i = jlocal[p].id /\ ask = Ask(p)
    BY DispatchingAsks DEF EndMethod, Context, Halves
  <1>2. epc[p] = "idle" /\ epc[p] \notin Sent /\ ~E!Send(p)
    BY DEF EndMethod, Sent, E!Send
  <1>3. PICK e \in EndsAtOnce(ask) : ReturnWith(p, {e})
    BY <1>1 DEF EndMethod, ReturnWith
  <1>4. CASE ask.cmd = "prepare"
    <2>1. e \in PrepareEnds(ask.req, ask.plan)
      BY <1>3, <1>4 DEF EndsAtOnce
    <2>2. EndedAs(i, ask, e.kind, e.reason) /\ SentNothing(i)'
      BY <1>1, <1>2, <1>4, <2>1, StillNothing, PrepareEndsOK
    <2>3. EndedAs(i, ask, e.kind, e.reason)'
      BY <2>2, StepKeeps, EndStays DEF Context
    <2> QED
      BY <1>1, <1>3, <2>3, ReturnAnswers
  <1>5. CASE ask.cmd # "prepare"
    <2>1. \/ e = Error("refused")
          \/ e = Result /\ ask.cmd \notin {"prepare", "authorize-and-execute"}
      BY <1>3, <1>5 DEF EndsAtOnce
    <2> QED
      BY <1>1, <1>2, <1>3, <2>1, PlainReturn
  <1> QED
    BY <1>4, <1>5

LEMMA MethodRaisesAnswers ==
    ASSUME Context, [Next]_vars, NEW p \in Procs, MethodRaises(p)
    PROVE  AnswersInv'
  <1>1. PICK i \in Ids, ask \in Inputs : i = jlocal[p].id /\ ask = Ask(p)
    BY DispatchingAsks DEF MethodRaises, Context, Halves
  <1>2. PICK e \in EndsRaising(p) : ReturnWith(p, {e})
    BY DEF MethodRaises, ReturnWith
  <1>3. \/ e = Exception
        \/ e = Error("refused") /\ epc[p] \notin Sent \cup {"claimed"}
    BY <1>2 DEF EndsRaising, Sent
  <1> QED
    BY <1>1, <1>2, <1>3, PlainReturn DEF E!Send

\* prepare ends: the row is inserted, or another was found in the transaction.
LEMMA SaveAnswers ==
    ASSUME Context, [Next]_vars, NEW p \in Procs, MethodStep(p), E!SavePreparation(p)
    PROVE  AnswersInv'
  <1>1. PICK i \in Ids, ask \in Inputs : i = jlocal[p].id /\ ask = Ask(p)
    BY DispatchingAsks DEF MethodStep, Context, Halves
  <1>2. /\ epc[p] = "compiling" /\ epc'[p] = "idle" /\ ~E!Send(p)
        /\ elocal[p].req = ask.req /\ elocal[p].plan = ask.plan /\ ask.cmd = "prepare"
        /\ ask.req \in Requests
    BY <1>1, Places, InputsAssumption DEF MethodStep, E!SavePreparation, E!Return, E!Continue,
        E!Send, Context, AnswersInv, CallOK, SystemInv, CoupledInv, Coupled
  <1>3. PICK e \in Ends(p) : ReturnWith(p, {e})
    BY <1>2 DEF MethodStep, RunOn, ReturnWith
  <1>4. SentNothing(i) /\ SentNothing(i)'
    BY <1>1, <1>2, StillNothing DEF Sent
  <1>5. CASE PrepareEnds(ask.req, ask.plan) = {}
    <2>1. e = Result
      BY <1>2, <1>3, <1>5 DEF Ends
    <2>2. E!Blocking(ask.req, ask.plan.obligation) = {}
      BY <1>5 DEF PrepareEnds
    <2>3. prep'[ask.req] = [state |-> "prepared", plan |-> ask.plan]
      BY <1>2, <2>2 DEF E!SavePreparation, Context, Halves, EP!Typed, EP!TypeOK
    <2>4. EndedAs(i, ask, e.kind, e.reason)'
      BY <1>2, <2>1, <2>3 DEF Result, EndedAs, Backed
    <2> QED
      BY <1>1, <1>3, <2>4, ReturnAnswers
  <1>6. CASE PrepareEnds(ask.req, ask.plan) # {}
    <2>1. e \in PrepareEnds(ask.req, ask.plan)
      BY <1>2, <1>3, <1>6 DEF Ends
    <2>2. EndedAs(i, ask, e.kind, e.reason)
      BY <1>2, <1>4, <2>1, PrepareEndsOK
    <2>3. EndedAs(i, ask, e.kind, e.reason)'
      BY <1>4, <2>2, StepKeeps, EndStays DEF Context
    <2> QED
      BY <1>1, <1>3, <2>3, ReturnAnswers
  <1> QED
    BY <1>5, <1>6

\* authorize-and-execute up to the send.
LEMMA BeforeSendAnswers ==
    ASSUME Context, [Next]_vars, NEW p \in Procs, MethodStep(p), E!CheckHeight(p) \/ E!Claim(p)
    PROVE  AnswersInv'
  <1>1. PICK i \in Ids, ask \in Inputs : i = jlocal[p].id /\ ask = Ask(p)
    BY DispatchingAsks DEF MethodStep, Context, Halves
  <1>2. /\ epc[p] \in {"checking", "validated"} /\ ~E!Send(p)
        /\ epc'[p] \in {"idle", "validated", "claimed"}
    BY Places DEF E!CheckHeight, E!Claim, E!Return, E!Continue, E!Send, Context
  <1>3. SentNothing(i)'
    BY <1>1, <1>2, StillNothing DEF Sent
  <1>4. CASE epc'[p] = "idle"
    <2>1. ReturnWith(p, {Error("refused")})
      BY <1>2, <1>4 DEF MethodStep, RunOn, Ends
    <2> QED
      BY <1>1, <1>2, <2>1, PlainReturn DEF Sent
  <1>5. CASE epc'[p] # "idle"
    BY <1>1, <1>2, <1>3, <1>5, RunOnAnswers DEF Sent, Looking
  <1> QED
    BY <1>4, <1>5

\* The send, and the write that the store refuses.
LEMMA SendAnswers ==
    ASSUME Context, [Next]_vars, NEW p \in Procs, MethodStep(p), E!Send(p) \/ E!StorageBusy(p)
    PROVE  AnswersInv'
  <1>1. PICK i \in Ids, ask \in Inputs : i = jlocal[p].id /\ ask = Ask(p)
    BY DispatchingAsks DEF MethodStep, Context, Halves
  <1>2. epc'[p] \in Sent /\ elocal'[p] = elocal[p]
    BY Places DEF E!Send, E!StorageBusy, E!Continue, Sent, Context
  <1>3. sender'[elocal'[p].req] = i
    <2>1. CASE E!Send(p)
      BY <1>1, <1>2, <2>1, SendMoves DEF Context, SystemInv
    <2>2. CASE ~E!Send(p)
      <3>1. sender' = sender /\ epc[p] = "answered" /\ jpc[p] = "dispatching"
        BY <2>2, CallSame DEF E!StorageBusy
      <3> QED
        BY <1>1, <1>2, <3>1 DEF Context, AnswersInv, CallOK, Sent
    <2> QED
      BY <2>1, <2>2
  <1> QED
    BY <1>1, <1>2, <1>3, RunOnAnswers DEF Sent, Looking

\* What the sender records of its send, and returns or raises.
LEMMA RecordAnswers ==
    ASSUME Context, [Next]_vars, NEW p \in Procs, MethodStep(p),
           E!RecordSubmitted(p) \/ E!RecordRejection(p) \/ E!MarkNeedsRecovery(p)
    PROVE  AnswersInv'
  <1>1. PICK i \in Ids, ask \in Inputs : i = jlocal[p].id /\ ask = Ask(p)
    BY DispatchingAsks DEF MethodStep, Context, Halves
  <1>2. /\ epc[p] \in Sent /\ epc'[p] = "idle" /\ ~E!Send(p) /\ jpc[p] = "dispatching"
        /\ UNCHANGED <<chain, sends>>
    BY Places DEF E!RecordSubmitted, E!RecordRejection, E!MarkNeedsRecovery, E!Return, E!Continue,
        E!Send, Sent, Context, MethodStep, E!network
  <1>3. PICK e \in Ends(p) : ReturnWith(p, {e})
    BY <1>2 DEF MethodStep, RunOn, ReturnWith
  <1>4. /\ ask.req \in Requests /\ elocal[p].req = ask.req /\ sender[ask.req] = i
        /\ sender' = sender
    BY <1>1, <1>2, CallSame, InputsAssumption
       DEF Context, AnswersInv, CallOK, SystemInv, CoupledInv, Coupled, Sent
  <1>5. EP!JobTrue(ForksPossible, p)
    BY <1>2 DEF Context, Halves, EP!TruthInv, EP!JobsTrue, Sent
  <1>6. CASE e = Error("uncertain")
    BY <1>1, <1>3, <1>6, PlainReturn
  <1>7. CASE epc[p] = "answered" /\ e = Result /\ attempt[ask.req].state = "broadcast_started"
    <2>1. attempt' = [attempt EXCEPT ![ask.req].state = "submitted",
                                     ![ask.req].receipt = "submitted"]
      BY <1>4, <1>7 DEF E!RecordSubmitted, E!RecordRejection, E!MarkNeedsRecovery
    <2>2. /\ attempt'[ask.req].receipt = "submitted"
          /\ attempt'[ask.req].auth = attempt[ask.req].auth
      BY <1>4, <2>1 DEF Context, Halves, EP!Typed, EP!TypeOK, EP!AttemptRow
    <2>3. chain[ask.req] # "unsent" /\ sends[ask.req] = 1
      BY <1>4, <1>5, <1>7 DEF EP!JobTrue, Context, Halves, EP!BroadcastInv
    <2>4. ask.auth = attempt[ask.req].auth
      <3>1. rows[i].input = ask
        BY <1>1, <1>2, OneWorker DEF Context, JP!Working
      <3> QED
        BY <1>4, <2>3, <3>1 DEF Context, SystemInv, SendIsAccountedFor
    <2>5. ask.cmd = "authorize-and-execute"
      <3>1. rows[i].input = ask
        BY <1>1, <1>2, OneWorker DEF Context, JP!Working
      <3> QED
        BY <1>4, <2>3, <3>1 DEF Context, SystemInv, SendIsAccountedFor
    <2>6. EndedAs(i, ask, e.kind, e.reason)'
      BY <1>2, <1>4, <1>7, <2>2, <2>3, <2>4, <2>5 DEF Result, EndedAs, Backed
    <2> QED
      BY <1>1, <1>3, <2>6, ReturnAnswers
  <1>8. CASE epc[p] = "rejected" /\ e = Error("rejected")
    <2>1. sends[ask.req] = 1 /\ chain[ask.req] = "unsent"
      BY <1>4, <1>5, <1>8 DEF EP!JobTrue
    <2>2. EndedAs(i, ask, e.kind, e.reason)'
      BY <1>2, <1>8, <2>1 DEF Error, EndedAs
    <2> QED
      BY <1>1, <1>3, <2>2, ReturnAnswers
  <1> QED
    BY <1>2, <1>3, <1>4, <1>6, <1>7, <1>8 DEF Ends, Sent

\* status and recover.
LEMMA LookAnswers ==
    ASSUME Context, [Next]_vars, NEW p \in Procs, MethodStep(p), E!Recover(p)
    PROVE  AnswersInv'
  <1>1. PICK i \in Ids, ask \in Inputs : i = jlocal[p].id /\ ask = Ask(p)
    BY DispatchingAsks DEF MethodStep, Context, Halves
  <1>2. epc[p] \in Looking /\ ~E!Send(p) /\ jpc[p] = "dispatching"
    BY DEF E!Recover, E!SecondLook, E!Inspect, E!Query, E!RecordObservation, E!Reread,
        E!DecideByHeight, E!Send, Looking, MethodStep
  <1>3. epc'[p] \in Looking \cup {"idle"}
    BY Places DEF E!Recover, E!SecondLook, E!Inspect, E!Query, E!RecordObservation, E!Reread,
        E!DecideByHeight, E!Return, E!Continue, Looking, Context
  <1>4. ask.cmd \in {"status", "recover"}
    BY <1>1, <1>2 DEF Context, AnswersInv, CallOK
  <1>5. CASE epc'[p] = "idle"
    <2>1. ReturnWith(p, {Result})
      BY <1>2, <1>5 DEF MethodStep, RunOn, Ends, Looking
    <2> QED
      BY <1>1, <1>4, <2>1, PlainReturn
  <1>6. CASE epc'[p] # "idle"
    <2>1. SentNothing(i)'
      BY <1>1, <1>2, StillNothing DEF Looking, Sent
    <2> QED
      BY <1>1, <1>3, <1>4, <1>6, <2>1, RunOnAnswers DEF Looking, Sent
  <1> QED
    BY <1>5, <1>6

LEMMA MethodStepAnswers ==
    ASSUME Context, [Next]_vars, NEW p \in Procs, MethodStep(p)
    PROVE  AnswersInv'
  <1>1. \/ E!SavePreparation(p) \/ E!CheckHeight(p) \/ E!Claim(p)
        \/ E!Send(p) \/ E!StorageBusy(p)
        \/ E!RecordSubmitted(p) \/ E!RecordRejection(p) \/ E!MarkNeedsRecovery(p)
        \/ E!Recover(p)
    BY DEF MethodStep
  <1> QED
    BY <1>1, SaveAnswers, BeforeSendAnswers, SendAnswers, RecordAnswers, LookAnswers

\* The journal's own steps change nothing that is known of an id.
LEMMA JournalAnswers ==
    ASSUME Context, [Next]_vars, NEW p \in Procs, UNCHANGED <<epc, elocal, sender, reason>>,
           \/ \E i \in Ids, input \in Inputs : J!Reserve(p, i, input)
           \/ J!Handle(p),
           jpc'[p] = "dispatching" => CallOK(p)',
           jpc'[p] \in {"completing", "failing"} => EndOK(p)',
           \A i \in Ids :
              \/ rows'[i].input = rows[i].input /\ rows'[i].response = rows[i].response
              \/ StoredOK(i)'
    PROVE  AnswersInv'
  <1>1. \A i \in Ids : Same(i)
    BY DEF Same, SentNothing
  <1>2. ASSUME NEW q \in Procs, q # p, jpc[q] \in JP!Working
        PROVE  Same(jlocal[q].id)
    BY <1>1, <1>2, OneWorker DEF Context
  <1>3. \A q \in Procs : q # p => jpc'[q] = jpc[q] /\ jlocal'[q] = jlocal[q]
    BY JournalMoves DEF Context
  <1>4. DOMAIN reason' = Ids
    BY DEF Context, AnswersInv
  <1> QED
    BY <1>1, <1>2, <1>3, <1>4, AnswersStep

\* Nothing was sent under an id that is new to the journal.
LEMMA ReadRequestAnswers ==
    ASSUME Context, [Next]_vars, NEW p \in Procs, NEW i \in Ids, NEW input \in Inputs,
           ReadRequest(p, i, input)
    PROVE  AnswersInv'
  <1>1. /\ J!Reserve(p, i, input) /\ UNCHANGED <<epc, elocal, sender, reason>>
        /\ jpc[p] = "idle"
    BY DEF ReadRequest, backend, J!Reserve
  <1>2. epc[p] = "idle"
    BY <1>1 DEF Context, SystemInv, CoupledInv, Coupled
  <1>3. CASE jpc'[p] = "dispatching"
    <2>1. /\ rows[i].state = "none"
          /\ rows' = [rows EXCEPT ![i] = [state |-> "reserved", input |-> input,
                                          response |-> "none"]]
          /\ jlocal'[p] = J!Request(i, input, "none", FALSE)
      BY <1>1, <1>3, Places DEF J!Reserve, J!Continue, Context
    <2>2. SentNothing(i)
      BY <2>1, NoneAssumption DEF SentNothing, Context, AnswersInv, SystemInv, SendIsAccountedFor
    <2>3. CallOK(p)'
      BY <1>1, <1>2, <2>1, <2>2 DEF CallOK, Sent, Looking, SentNothing, J!Request
    <2>4. \A k \in Ids : \/ rows'[k].input = rows[k].input /\ rows'[k].response = rows[k].response
                         \/ StoredOK(k)'
      <3>1. rows'[i].response = "none"
        BY <2>1 DEF Context, Halves, JP!Typed, JP!TypeOK
      <3>2. StoredOK(i)'
        BY <3>1 DEF StoredOK, EndedAs
      <3> QED
        BY <2>1, <3>2
    <2> QED
      BY <1>1, <1>3, <2>3, <2>4, JournalAnswers
  <1>4. CASE jpc'[p] # "dispatching"
    <2>1. jpc'[p] \notin {"completing", "failing"} /\ rows' = rows
      BY <1>1, <1>4, Places DEF J!Reserve, J!Continue, Context
    <2> QED
      BY <1>1, <1>4, <2>1, JournalAnswers
  <1> QED
    BY <1>3, <1>4

\* complete stores what the call ended with.
LEMMA HandleStepAnswers ==
    ASSUME Context, [Next]_vars, NEW p \in Procs, HandleStep(p)
    PROVE  AnswersInv'
  <1>1. J!Handle(p) /\ UNCHANGED <<epc, elocal, sender, reason>>
    BY DEF HandleStep, J!Handle, backend
  <1>2. CASE J!RecordResponse(p) \/ J!WriteResponse(p)
    <2>1. jpc'[p] \in {"printing", "idle"} /\ rows' = rows
      BY <1>2, Places DEF J!RecordResponse, J!WriteResponse, J!Continue, Context
    <2> QED
      BY <1>1, <2>1, JournalAnswers
  <1>3. CASE J!CompleteRaises(p)
    <2>1. /\ jpc'[p] = "failing" /\ rows' = rows
          /\ jlocal'[p] = [jlocal[p] EXCEPT !.kind = "backend_failure"]
      BY <1>3, Places DEF J!CompleteRaises, J!Continue, Context
    <2>2. jlocal'[p].kind = "backend_failure"
      BY <2>1 DEF Context, Halves, JP!Typed, JP!TypeOK, JP!Job
    <2>3. EndOK(p)'
      BY <2>2 DEF EndOK, EndedAs
    <2> QED
      BY <1>1, <2>1, <2>3, JournalAnswers
  <1>4. CASE J!Complete(p)
    <2>1. jpc[p] \in {"completing", "failing"} /\ jpc[p] \in JP!Working
      BY <1>4 DEF J!Complete, JP!Working
    <2>2. PICK i \in Ids, ask \in Inputs : i = jlocal[p].id /\ ask = Ask(p)
      BY <2>1, OneWorker DEF Context
    <2>3. rows[i].input = ask
      BY <2>1, <2>2, OneWorker DEF Context
    <2>4. PICK kind : kind = jlocal[p].kind
      OBVIOUS
    <2>5. \E state : rows' = [rows EXCEPT ![i] = [state |-> state, input |-> ask, response |-> kind]]
      BY <1>4, <2>2, <2>3, <2>4 DEF J!Complete, Ask
    <2>6. rows'[i].input = ask /\ rows'[i].response = kind /\ jpc'[p] = "printing"
      BY <1>4, <2>5, Places DEF J!Complete, J!Continue, Context, Halves, JP!Typed, JP!TypeOK
    <2>7. EndedAs(i, ask, kind, reason[i])
      BY <2>1, <2>2, <2>4 DEF Context, AnswersInv, EndOK
    <2>8. PICK why : why = reason[i]
      OBVIOUS
    <2>9. EndedAs(i, ask, kind, why)'
      BY <1>1, <2>7, <2>8, StepKeeps, EndStays DEF Context, SentNothing
    <2>10. StoredOK(i)'
      BY <1>1, <2>6, <2>8, <2>9 DEF StoredOK, EndedAs, Backed, SentNothing
    <2>11. \A k \in Ids : k # i => rows'[k] = rows[k]
      BY <2>5
    <2> QED
      BY <1>1, <2>6, <2>10, <2>11, JournalAnswers
  <1> QED
    BY <1>2, <1>3, <1>4 DEF HandleStep

LEMMA DieAnswers ==
    ASSUME Context, [Next]_vars, NEW p \in Procs, Die(p)
    PROVE  AnswersInv'
  <1>1. jpc'[p] = "idle" /\ UNCHANGED <<rows, sender, reason>>
    BY Places DEF Die, J!Die, J!Continue, Context
  <1>2. \A i \in Ids : Same(i)
    BY <1>1 DEF Same, SentNothing
  <1>3. ASSUME NEW q \in Procs, q # p, jpc[q] \in JP!Working
        PROVE  Same(jlocal[q].id)
    BY <1>2, <1>3, OneWorker DEF Context
  <1> QED
    BY <1>1, <1>2, <1>3, OthersUnmoved, AnswersStep DEF Context, AnswersInv

\* Steps that leave the gateway alone.
LEMMA OutsideAnswers ==
    ASSUME Context, [Next]_vars, UNCHANGED <<rows, jpc, jlocal, epc, elocal, sender, reason>>
    PROVE  AnswersInv'
  <1>1. \A i \in Ids : Same(i)
    BY DEF Same, SentNothing
  <1>2. \A q \in Procs : jpc[q] \in JP!Working => Same(jlocal[q].id)
    BY <1>1, OneWorker DEF Context
  <1> QED
    BY <1>1, <1>2, AnswersStep DEF Context, AnswersInv

LEMMA NextAnswers == Context /\ [Next]_vars => AnswersInv'
  <1> SUFFICES ASSUME Context, [Next]_vars PROVE AnswersInv'
    OBVIOUS
  <1>1. CASE \E p \in Procs, i \in Ids, input \in Inputs : ReadRequest(p, i, input)
    BY <1>1, ReadRequestAnswers
  <1>2. ASSUME NEW p \in Procs, Step(p) \/ MethodRaises(p) \/ Die(p)
        PROVE  AnswersInv'
    BY <1>2, HandleStepAnswers, CallMethodAnswers, EndMethodAnswers, MethodStepAnswers,
       MethodRaisesAnswers, DieAnswers DEF Step
  <1>3. CASE \E r \in Requests : Environment(r)
    <2>1. UNCHANGED <<rows, jpc, jlocal, epc, elocal, sender, reason>>
      BY <1>3 DEF Environment, journal, E!Environment, E!BecomeLate, E!BecomeStale, E!Include,
          E!SettleBlock, E!SettledAs, E!Drop, E!Cluster
    <2> QED
      BY <2>1, OutsideAnswers
  <1>4. CASE UNCHANGED vars
    BY <1>4, OutsideAnswers DEF vars, journal, backend
  <1> QED
    BY <1>1, <1>2, <1>3, <1>4 DEF Next

LEMMA InitAnswers == Init => AnswersInv
  BY DEF Init, J!Init, J!NoRow, AnswersInv, StoredOK, EndedAs

LEMMA AnswersInvariant == Spec => []AnswersInv
  BY InitAnswers, NextAnswers, HalvesInvariant, SystemInvariant, PTL DEF Spec, Context

\* A result under an id is backed by the backend's tables and the cluster
\* (service.py stores what solana_prepare.py and solana_execute.py return):
\* the prepared message is the stored one, and a receipt is of the transaction
\* that this very call sent, under the authorization it carried.
THEOREM ResultsAreBacked == Spec => []ResultIsBacked
  <1>1. AnswersInv => ResultIsBacked
    BY DEF AnswersInv, StoredOK, EndedAs, Backed, ResultIsBacked
  <1> QED
    BY <1>1, AnswersInvariant, PTL

\* An error that does not tell its caller to recover was raised before
\* anything was sent for its id, and a rejection is of a transaction that the
\* cluster never has (the except clauses of solana_execute.py).
THEOREM RefusalsSentNothing == Spec => []RefusalSentNothing
  <1>1. AnswersInv => RefusalSentNothing
    BY DEF AnswersInv, StoredOK, EndedAs, SentNothing, RefusalSentNothing
  <1> QED
    BY <1>1, AnswersInvariant, PTL

-----------------------------------------------------------------------------
(* The chaos harness is a client of the gateway                            *)

\* Every step of the harness is one of the gateway, or changes nothing of it.
LEMMA ChaosStep == [ChaosNext]_chaosVars => [Next]_vars
  <1>1. ASSUME NEW p \in Procs, GatewayStep(p)
        PROVE  Next
    BY <1>1 DEF GatewayStep, Next
  <1>2. World => Next
    BY FixtureAssumption DEF World, Next
  <1>3. ASSUME NEW p \in Procs, NEW i \in Ids, NEW input \in Inputs, ReadRequest(p, i, input)
        PROVE  Next
    BY <1>3 DEF Next
  <1> QED
    BY <1>1, <1>2, <1>3 DEF ChaosNext, NextStage, Report, chaosVars

\* Every behaviour of the harness, in a script or at will, is one of the
\* gateway: all theorems about the gateway hold of it.
THEOREM ChaosRefined == ChaosSpec => Spec
  BY ChaosStep, PTL DEF ChaosSpec, ChaosInit, Spec

-----------------------------------------------------------------------------
(* The scripts                                                             *)

Told == scenario \in ScenarioNames

\* Where the execution of a script is killed, and what the proxy does.
KillAt ==
    CASE scenario = "kill_before_broadcast" -> "validated"
      [] scenario = "kill_after_broadcast_intent" -> "claimed"
      [] scenario = "kill_during_send_transaction" -> "unknown"
      [] OTHER -> "never"

Mode ==
    CASE scenario \in {"kill_during_send_transaction", "response_lost_after_acceptance",
                       "replay_after_restart"} -> "drop_after_upstream"
      [] scenario = "definitive_rejection" -> "reject_before_forward"
      [] scenario = "not_found_after_expiry" -> "drop_before_forward"
      [] OTHER -> "pass"

Recovering == {"kill_after_broadcast_intent", "kill_during_send_transaction",
               "response_lost_after_acceptance", "not_found_after_expiry"}

Executes == Call(first, gw_execute, "authorize-and-execute", KillAt)
Competes == Call(second, gw_execute_competing, "authorize-and-execute", "never")

\* The call of the third stage.
Checks ==
    CASE scenario = "kill_before_broadcast" -> Call(first, gw_status, "status", "never")
      [] scenario = "definitive_rejection" -> Call(first, gw_evidence, "evidence", "never")
      [] scenario = "replay_after_restart" -> Executes
      [] OTHER -> Call(first, gw_recover, "recover", "never")

Racers == scenario = "concurrent_gateways"

LEMMA Elements ==
    ASSUME NEW a, NEW b, NEW c
    PROVE  /\ Len(<<a>> \o <<b, c>>) = 3
           /\ (<<a>> \o <<b, c>>)[1] = a
           /\ (<<a>> \o <<b, c>>)[2] = b
           /\ (<<a>> \o <<b, c>>)[3] = c
  OBVIOUS

LEMMA TwoElements ==
    ASSUME NEW a, NEW b
    PROVE  /\ Len(<<a>> \o <<b>>) = 2
           /\ (<<a>> \o <<b>>)[1] = a
           /\ (<<a>> \o <<b>>)[2] = b
  OBVIOUS

LEMMA StageChanged ==
    ASSUME NEW calls, NEW send, NEW e, NEW f
    PROVE  [Stage(calls, send, e) EXCEPT !.expired = f] = Stage(calls, send, f)
  BY DEF Stage

\* The calls of stage n, and the end.
LEMMA Scripting ==
    ASSUME Told, scenario \in Scenarios
    PROVE  /\ Len(Script) = IF Racers THEN 2 ELSE 3
           /\ Script[1] = Stage({Call(first, gw_prepare, "prepare", "never")}, "pass", FALSE)
           /\ Script[2] = Stage(IF Racers THEN {Executes, Competes} ELSE {Executes}, Mode, FALSE)
           /\ ~Racers => /\ Script[3].calls = {Checks}
                         /\ Script[3].expired = (scenario = "not_found_after_expiry")
  <1>1. Script = ScriptOf(scenario)
    BY DEF Script, Scripts
  <1> DEFINE Third == Stage({Checks}, IF scenario = "replay_after_restart" THEN Mode ELSE "pass",
                            scenario = "not_found_after_expiry")
  <1>2. ScriptOf(scenario) = <<Prepared>> \o
           IF Racers THEN <<Stage({Executes, Competes}, Mode, FALSE)>>
           ELSE <<Stage({Executes}, Mode, FALSE), Third>>
    <2>0. [Recovered EXCEPT !.expired = TRUE] =
             Stage({Call(first, gw_recover, "recover", "never")}, "pass", TRUE)
      <3>1. PICK e, f : e = FALSE /\ f = TRUE
        OBVIOUS
      <3>2. Recovered = Stage({Call(first, gw_recover, "recover", "never")}, "pass", e)
        BY <3>1 DEF Recovered, Alone
      <3>3. [Recovered EXCEPT !.expired = f] =
               Stage({Call(first, gw_recover, "recover", "never")}, "pass", f)
        BY <3>2, StageChanged
      <3> QED
        BY <3>1, <3>3
    <2> USE DEF ScriptOf, Execute, Alone, KillAt, Mode, Executes, Competes, Checks, Racers
    <2> USE DEF Recovered
    <2>1. CASE scenario = "kill_before_broadcast"
      BY <2>1
    <2>2. CASE scenario = "kill_after_broadcast_intent"
      BY <2>2
    <2>3. CASE scenario = "kill_during_send_transaction"
      BY <2>3
    <2>4. CASE scenario = "response_lost_after_acceptance"
      BY <2>4
    <2>5. CASE scenario = "definitive_rejection"
      BY <2>5
    <2>6. CASE scenario = "not_found_after_expiry"
      <3> HIDE DEF Recovered
      <3> QED
        BY <2>0, <2>6
    <2>7. CASE scenario = "replay_after_restart"
      BY <2>7
    <2>8. CASE scenario = "concurrent_gateways"
      BY <2>8
    <2> QED
      BY <2>1, <2>2, <2>3, <2>4, <2>5, <2>6, <2>7, <2>8 DEF Told, ScenarioNames
  <1>3. Prepared = Stage({Call(first, gw_prepare, "prepare", "never")}, "pass", FALSE)
    BY DEF Prepared, Alone
  <1>4. Third.calls = {Checks} /\ Third.expired = (scenario = "not_found_after_expiry")
    BY DEF Stage
  <1> HIDE DEF Third
  <1>5. CASE Racers
    <2>1. Script = <<Prepared>> \o <<Stage({Executes, Competes}, Mode, FALSE)>>
      BY <1>1, <1>2, <1>5
    <2>2. Len(Script) = 2 /\ Script[1] = Prepared
          /\ Script[2] = Stage({Executes, Competes}, Mode, FALSE)
      <3>1. PICK a, b : a = Prepared /\ b = Stage({Executes, Competes}, Mode, FALSE)
        OBVIOUS
      <3>2. Script = <<a>> \o <<b>>
        BY <2>1, <3>1
      <3>3. Len(<<a>> \o <<b>>) = 2 /\ (<<a>> \o <<b>>)[1] = a /\ (<<a>> \o <<b>>)[2] = b
        BY TwoElements
      <3> QED
        BY <3>1, <3>2, <3>3
    <2> QED
      BY <1>3, <1>5, <2>2
  <1>6. CASE ~Racers
    <2>1. Script = <<Prepared>> \o <<Stage({Executes}, Mode, FALSE), Third>>
      BY <1>1, <1>2, <1>6
    <2>2. Len(Script) = 3 /\ Script[1] = Prepared /\ Script[2] = Stage({Executes}, Mode, FALSE)
          /\ Script[3] = Third
      <3>1. PICK a, b, c : a = Prepared /\ b = Stage({Executes}, Mode, FALSE) /\ c = Third
        OBVIOUS
      <3>2. Script = <<a>> \o <<b, c>>
        BY <2>1, <3>1
      <3>3. /\ Len(<<a>> \o <<b, c>>) = 3 /\ (<<a>> \o <<b, c>>)[1] = a
            /\ (<<a>> \o <<b, c>>)[2] = b /\ (<<a>> \o <<b, c>>)[3] = c
        BY Elements
      <3> QED
        BY <3>1, <3>2, <3>3
    <2> QED
      BY <1>3, <1>4, <1>6, <2>2
  <1> QED
    BY <1>5, <1>6

-----------------------------------------------------------------------------
(* Calls and stages                                                        *)

Prepares == Call(first, gw_prepare, "prepare", "never")

Last == IF Racers THEN 2 ELSE 3

\* The calls of the stage.
Calls ==
    CASE stage = 1 -> {Prepares}
      [] stage = 2 -> IF Racers THEN {Executes, Competes} ELSE {Executes}
      [] stage = 3 /\ ~Racers -> {Checks}
      [] OTHER -> {}

\* The ids that earlier stages have used.
Used ==
    CASE stage = 1 -> {}
      [] stage = 2 -> {gw_prepare}
      [] OTHER -> {gw_prepare, gw_execute, gw_execute_competing}

\* The stage that repeats the request of the one before.
Replays == scenario = "replay_after_restart" /\ stage = 3

\* Process p serves the call c: it was not refused, and is answered from the
\* journal in the replay only.
Serving(p, c) ==
    /\ c.proc = p /\ c.id = jlocal[p].id /\ c.input = Ask(p)
    /\ jpc[p] # "refusing"
    /\ jlocal[p].replayed <=> Replays

\* The processes serve the calls of the stage, and nobody has used the ids of
\* the calls to come.
StageInv ==
    /\ scenario \in Scenarios
    /\ stage \in 1..(Last + 1)
    /\ begun \subseteq Calls
    /\ \A p \in Procs : jpc[p] # "idle" => \E c \in begun : Serving(p, c)
    /\ stage <= Last =>
          \A i \in Ids : rows[i].state # "none" => i \in Used \/ \E c \in begun : c.id = i

LEMMA Stages ==
    ASSUME Told, scenario \in Scenarios, stage \in 1..(Last + 1)
    PROVE  /\ Scripted <=> stage <= Last
           /\ Scripted => Now.calls = Calls
           /\ Scripted => (Now.expired <=> stage = 3 /\ scenario = "not_found_after_expiry")
           /\ stage = 2 => Now.send = Mode
  <1>1. Len(Script) = Last
    BY Scripting DEF Last
  <1>2. Scripted <=> stage <= Last
    BY <1>1 DEF Scripted, Ended, Last
  <1>3. Last \in {2, 3} /\ (Racers <=> Last = 2)
    BY DEF Last
  <1>4. CASE stage = 1
    BY <1>2, <1>3, <1>4, Scripting DEF Now, Stage, Calls, Prepares
  <1>5. CASE stage = 2
    BY <1>2, <1>3, <1>5, Scripting DEF Now, Stage, Calls
  <1>6. CASE stage = 3
    <2>1. ~Racers => /\ Script[3].calls = {Checks}
                     /\ Script[3].expired = (scenario = "not_found_after_expiry")
      BY Scripting
    <2>2. ~Racers => (Script[3].expired <=> scenario = "not_found_after_expiry")
      BY <2>1
    <2>3. Scripted => ~Racers
      BY <1>2, <1>3, <1>6
    <2>4. ~Racers => Calls = {Checks}
      BY <1>6 DEF Calls
    <2>5. Now = Script[3] /\ stage # 2
      BY <1>6 DEF Now
    <2> QED
      BY <1>2, <1>6, <2>1, <2>2, <2>3, <2>4, <2>5
  <1>7. CASE stage = 4
    BY <1>2, <1>3, <1>7
  <1> QED
    BY <1>3, <1>4, <1>5, <1>6, <1>7

\* Who calls what, under which id.
LEMMA TheCalls ==
    /\ Prepares.proc = first /\ Prepares.id = gw_prepare /\ Prepares.input = Asked("prepare")
    /\ Executes.proc = first /\ Executes.id = gw_execute
    /\ Executes.input = Asked("authorize-and-execute") /\ Executes.killAt = KillAt
    /\ Competes.proc = second /\ Competes.id = gw_execute_competing
    /\ Competes.input = Asked("authorize-and-execute")
    /\ Prepares.killAt = "never" /\ Competes.killAt = "never"
    /\ Checks.proc = first
    /\ scenario = "kill_before_broadcast" =>
          Checks.id = gw_status /\ Checks.input = Asked("status") /\ Checks.killAt = "never"
    /\ scenario = "definitive_rejection" =>
          Checks.id = gw_evidence /\ Checks.input = Asked("evidence") /\ Checks.killAt = "never"
    /\ scenario = "replay_after_restart" => Checks = Executes
    /\ scenario \in Recovering =>
          Checks.id = gw_recover /\ Checks.input = Asked("recover") /\ Checks.killAt = "never"
  BY DEF Prepares, Executes, Competes, Checks, Call, Recovering

LEMMA TheRequests ==
    ASSUME NEW cmd
    PROVE  /\ Asked(cmd).cmd = cmd /\ Asked(cmd).req = exec
           /\ Asked("prepare").plan = economic_plan
           /\ Asked("authorize-and-execute").auth = auth
  BY DEF Asked

\* What a process in handle works on.
LEMMA AtWork ==
    ASSUME Told, StageInv, NEW p \in Procs, jpc[p] # "idle"
    PROVE  /\ stage <= Last /\ begun # {} /\ jpc[p] # "refusing"
           /\ jlocal[p].replayed <=> Replays
           /\ stage = 1 => p = first /\ jlocal[p].id = gw_prepare /\ Ask(p) = Asked("prepare")
           /\ stage = 2 => /\ Ask(p) = Asked("authorize-and-execute")
                           /\ \/ p = first /\ jlocal[p].id = gw_execute
                              \/ Racers /\ p = second /\ jlocal[p].id = gw_execute_competing
           /\ stage = 3 => /\ ~Racers /\ p = first
                           /\ jlocal[p].id = Checks.id /\ Ask(p) = Checks.input
  <1>1. PICK c \in Calls : c \in begun /\ Serving(p, c)
    BY DEF StageInv
  <1>2. stage \in 1..(Last + 1) /\ stage <= Last
    BY <1>1 DEF StageInv, Calls, Last
  <1> QED
    BY <1>1, <1>2, TheCalls DEF Serving, Calls, Last, Racers

\* Whether the harness kills it.
LEMMA KillPoints ==
    ASSUME Context, Told, StageInv, NEW p \in Procs, jpc[p] # "idle"
    PROVE  AtKillPoint(p) <=> stage = 2 /\ epc[p] = KillAt
  <1>1. epc[p] \in EP!Locations
    BY DEF Context, Halves, EP!Typed, EP!TypeOK
  <1>2. epc[p] # "never"
    BY <1>1 DEF EP!Locations
  <1>3. PICK c \in Calls : c \in begun /\ Serving(p, c)
    BY DEF StageInv
  <1>4. \A d \in Calls : d.proc = p /\ d.id = jlocal[p].id => d = c
    BY <1>3, TheCalls, FixtureAssumption DEF Serving, Calls
  <1>5. \/ c.killAt = "never"
        \/ stage = 2 /\ c.killAt = KillAt /\ c = Executes
        \/ stage = 3 /\ Replays /\ c = Executes
    BY <1>3, TheCalls DEF Calls, Recovering, Told, ScenarioNames, Racers, Replays
  <1>6. Racers \/ Replays => KillAt = "never"
    BY DEF KillAt, Racers, Replays
  <1>7. stage = 2 /\ KillAt # "never" => c = Executes
    BY <1>3, <1>6 DEF Calls
  <1>8. AtKillPoint(p) <=> c.killAt = epc[p]
    BY <1>3, <1>4 DEF AtKillPoint, Serving, StageInv
  <1> QED
    BY <1>2, <1>5, <1>6, <1>7, <1>8, TheCalls

-----------------------------------------------------------------------------
(* Steps of a script around the backend                                    *)

\* The fixture's plan is not late, its blockhash expires in the last stage at
\* the earliest, and nobody asks for another request.
CalmInv ==
    /\ late = {}
    /\ stage <= 2 => stale = {}
    /\ \A q \in Requests \ {exec} : prep[q].state = "none" /\ attempt[q].state = "none"

\* The request was answered, and answered from the journal.
ReplyTo(a) ==
    a.id = gw_execute /\ a.input = Asked("authorize-and-execute") /\ a.kind \in JP!Final

Replied == \E a \in printed : ReplyTo(a) /\ ~a.replayed
Repeated == \E a \in printed : ReplyTo(a) /\ a.replayed

OthersStay(p) ==
    \A q \in Procs : q # p =>
        /\ jpc'[q] = jpc[q] /\ jlocal'[q] = jlocal[q]
        /\ epc'[q] = epc[q] /\ elocal'[q] = elocal[q]

\* The id of a call that has not begun is new, but in the replay.
LEMMA FreshCall ==
    ASSUME Context, Told, StageInv, Replays => Replied, NEW c \in Calls \ begun
    PROVE  IF Replays
           THEN rows[c.id].input = c.input /\ rows[c.id].response \in JP!Final
           ELSE rows[c.id].state = "none"
  <1>1. CASE Replays
    <2>1. c.id = gw_execute /\ c.input = Asked("authorize-and-execute")
      BY <1>1, TheCalls DEF Replays, Calls, Racers
    <2>2. PICK a \in printed : ReplyTo(a)
      BY <1>1 DEF Replied
    <2> QED
      BY <1>1, <2>1, <2>2 DEF ReplyTo, Context, Halves, JP!JournalInv, JP!InRow
  <1>2. CASE ~Replays
    <2>1. c.id \in Ids /\ stage <= Last
      BY TheCalls, FixtureAssumption DEF Calls, Told, ScenarioNames, Recovering, Racers,
          StageInv, Last
    <2>2. c.id \notin Used
      BY <1>2, TheCalls, FixtureAssumption DEF Calls, Used, Replays, Told, ScenarioNames,
          Recovering, Racers
    <2>3. \A d \in begun : d.id # c.id
      BY TheCalls, FixtureAssumption DEF Calls, StageInv
    <2> QED
      BY <1>2, <2>1, <2>2, <2>3 DEF StageInv
  <1> QED
    BY <1>1, <1>2

\* A gateway reads a call: it reserves the new id, or finds the answer.
LEMMA ReadsCall ==
    ASSUME Context, Told, StageInv, Replays => Replied,
           NEW p \in Procs, NEW i \in Ids, NEW input \in Inputs,
           MayRead(p, i, input), ReadRequest(p, i, input)
    PROVE  /\ stage <= Last /\ jpc[p] = "idle" /\ OthersStay(p) /\ stage' = stage
           /\ UNCHANGED <<backend, sender, reason, printed>>
           /\ \E c \in Calls \ begun : c.proc = p /\ c.id = i /\ c.input = input
                                        /\ begun' = begun \cup {c}
           /\ jlocal'[p].id = i /\ jlocal'[p].input = input
           /\ \A j \in Ids : j # i => rows'[j] = rows[j]
           /\ IF Replays
              THEN /\ jpc'[p] = "printing" /\ jlocal'[p].replayed
                   /\ jlocal'[p].kind \in JP!Final /\ rows' = rows
              ELSE jpc'[p] = "dispatching" /\ ~jlocal'[p].replayed
  <1>1. Scripted /\ stage <= Last
    <2>1. Scripted
      BY DEF MayRead, Told, ScenarioNames
    <2> QED
      BY <2>1, Stages DEF StageInv
  <1>2. PICK c \in Calls \ begun : /\ c.proc = p /\ c.id = i /\ c.input = input
                                   /\ begun' = begun \cup {c} /\ stage' = stage
    BY <1>1, Stages DEF MayRead, StageInv
  <1>3. jpc[p] = "idle" /\ UNCHANGED <<backend, sender, reason, printed>>
    BY DEF ReadRequest, J!Reserve
  <1>4. OthersStay(p)
    BY <1>3, JournalMoves DEF ReadRequest, OthersStay, backend, Context
  <1>5. CASE Replays
    <2>1. rows[i].input = input /\ rows[i].response \in JP!Final
      BY <1>2, <1>5, FreshCall
    <2>2. rows[i].response # "none" /\ rows[i].state # "none"
      BY <2>1 DEF JP!Final, Context, Halves, JP!JournalInv, JP!RowsInv
    <2>3. J!Continue(p, "printing", J!Request(i, input, rows[i].response, TRUE)) /\ rows' = rows
      BY <2>1, <2>2 DEF ReadRequest, J!Reserve
    <2>4. jpc'[p] = "printing" /\ jlocal'[p] = J!Request(i, input, rows[i].response, TRUE)
      BY <2>3, Places DEF J!Continue, Context
    <2> QED
      BY <1>1, <1>2, <1>3, <1>4, <1>5, <2>1, <2>3, <2>4 DEF J!Request
  <1>6. CASE ~Replays
    <2>1. rows[i].state = "none"
      BY <1>2, <1>6, FreshCall
    <2>2. rows[i].input = None /\ rows[i].input # input
      BY <2>1, NoneAssumption DEF Context, Halves, JP!JournalInv, JP!RowsInv
    <2>3. /\ J!Continue(p, "dispatching", J!Request(i, input, "none", FALSE))
          /\ rows' = [rows EXCEPT ![i] = [state |-> "reserved", input |-> input,
                                          response |-> "none"]]
      BY <2>1, <2>2 DEF ReadRequest, J!Reserve
    <2>4. jpc'[p] = "dispatching" /\ jlocal'[p] = J!Request(i, input, "none", FALSE)
      BY <2>3, Places DEF J!Continue, Context
    <2>5. \A j \in Ids : j # i => rows'[j] = rows[j]
      BY <2>3 DEF Context, Halves, JP!Typed, JP!TypeOK
    <2> QED
      BY <1>1, <1>2, <1>3, <1>4, <1>6, <2>4, <2>5 DEF J!Request
  <1> QED
    BY <1>5, <1>6

\* handle stores the answer of its call, and prints it.
LEMMA TellsAnswer ==
    ASSUME Context, NEW p \in Procs, HandleStep(p), StorageWorks(p), jpc[p] # "refusing"
    PROVE  /\ UNCHANGED <<backend, sender, reason>> /\ OthersStay(p) /\ epc[p] = "idle"
           /\ \/ /\ jpc[p] \in {"completing", "failing"} /\ jpc'[p] = "printing"
                 /\ jlocal'[p] = jlocal[p] /\ printed' = printed
                 /\ rows'[jlocal[p].id].response = jlocal[p].kind
                 /\ \A i \in Ids : i # jlocal[p].id => rows'[i] = rows[i]
              \/ /\ jpc[p] = "printing" /\ jpc'[p] = "idle" /\ rows' = rows
                 /\ printed' = printed \cup
                       {[id |-> jlocal[p].id, input |-> jlocal[p].input,
                         kind |-> jlocal[p].kind, replayed |-> jlocal[p].replayed]}
  <1>1. UNCHANGED <<backend, sender, reason>>
    BY DEF HandleStep
  <1>2. OthersStay(p)
    BY <1>1, JournalMoves DEF HandleStep, J!Handle, OthersStay, backend, Context
  <1>3. epc[p] = "idle"
    BY DEF HandleStep, J!RecordResponse, J!Complete, J!CompleteRaises, J!WriteResponse, Context,
        SystemInv, CoupledInv, Coupled
  <1>4. CASE J!Complete(p)
    <2>1. jpc[p] \in {"completing", "failing"} /\ jpc[p] \in JP!Working
      BY <1>4 DEF J!Complete, JP!Working
    <2>2. rows[jlocal[p].id].input = jlocal[p].input /\ jlocal[p].id \in Ids
      BY <2>1, OneWorker DEF Context, Ask
    <2>3. PICK s : rows' = [rows EXCEPT ![jlocal[p].id] =
                              [state |-> s, input |-> jlocal[p].input, response |-> jlocal[p].kind]]
      BY <1>4, <2>2 DEF J!Complete
    <2>4. DOMAIN rows = Ids
      BY DEF Context, Halves, JP!Typed, JP!TypeOK
    <2>5. jpc'[p] = "printing" /\ jlocal'[p] = jlocal[p] /\ printed' = printed
      BY <1>4, Places DEF J!Complete, J!Continue, Context
    <2> QED
      BY <1>1, <1>2, <1>3, <2>1, <2>2, <2>3, <2>4, <2>5
  <1>5. CASE J!WriteResponse(p)
    BY <1>1, <1>2, <1>3, <1>5, Places DEF J!WriteResponse, J!Continue, Context
  <1>6. ~J!RecordResponse(p) /\ ~J!CompleteRaises(p)
    BY Places DEF J!RecordResponse, J!CompleteRaises, J!Continue, StorageWorks, Context
  <1> QED
    BY <1>4, <1>5, <1>6 DEF HandleStep

-----------------------------------------------------------------------------
(* Steps of the methods                                                    *)

Method(p) == CallMethod(p) \/ EndMethod(p) \/ MethodStep(p)

\* The method goes on at location l, or ends with e.
Goes(p, l) ==
    /\ epc'[p] = l
    /\ UNCHANGED <<jpc, jlocal, reason>>

Returns(p, e) ==
    /\ epc'[p] = "idle"
    /\ jpc'[p] = IF e.kind = "result" THEN "completing" ELSE "failing"
    /\ jlocal'[p].kind = e.kind
    /\ jlocal'[p].id = jlocal[p].id /\ jlocal'[p].input = jlocal[p].input
    /\ jlocal'[p].replayed = jlocal[p].replayed
    /\ reason'[jlocal[p].id] = e.reason

\* What every method leaves alone.
LEMMA MethodFrame ==
    ASSUME Context, NEW p \in Procs, Method(p)
    PROVE  /\ UNCHANGED <<rows, printed, late, stale>> /\ OthersStay(p)
           /\ jpc[p] = "dispatching"
  <1>1. OthersStay(p)
    BY OthersUnmoved DEF Method, OthersStay, Context
  <1>2. UNCHANGED <<rows, printed>> /\ jpc[p] = "dispatching"
    BY DEF Method, CallMethod, EndMethod, MethodStep, RunOn, ReturnWith, J!Dispatch, journal
  <1>3. CallMethod(p) => UNCHANGED <<late, stale>>
    BY DEF CallMethod, E!StartPrepare, E!StartExecute, E!StartInspection, E!clock
  <1>4. EndMethod(p) => UNCHANGED <<late, stale>>
    BY DEF EndMethod, backend
  <1>5. MethodStep(p) => UNCHANGED <<late, stale>>
    BY DEF MethodStep, E!SavePreparation, E!CheckHeight, E!Claim, E!Send, E!RecordSubmitted,
        E!StorageBusy, E!RecordRejection, E!MarkNeedsRecovery, E!Recover, E!SecondLook, E!Inspect,
        E!Query, E!RecordObservation, E!Reread, E!DecideByHeight, E!clock
  <1> QED
    BY <1>1, <1>2, <1>3, <1>4, <1>5 DEF Method

LEMMA Returning ==
    ASSUME Context, NEW p \in Procs, NEW ends, ReturnWith(p, ends), epc'[p] = "idle"
    PROVE  \E e \in ends : Returns(p, e)
  <1>1. PICK e \in ends : /\ jlocal'[p].kind = e.kind
                          /\ reason' = [reason EXCEPT ![jlocal[p].id] = e.reason]
    BY DEF ReturnWith
  <1>2. PICK l, kind : /\ jpc'[p] = l /\ jlocal'[p] = [jlocal[p] EXCEPT !.kind = kind]
                       /\ l = IF kind = "result" THEN "completing" ELSE "failing"
    <2>1. \/ J!Continue(p, "completing", [jlocal[p] EXCEPT !.kind = "result"])
          \/ J!Continue(p, "failing", [jlocal[p] EXCEPT !.kind = "error"])
          \/ J!Continue(p, "failing", [jlocal[p] EXCEPT !.kind = "backend_failure"])
      BY DEF ReturnWith, J!Dispatch
    <2>2. ASSUME NEW l, NEW j, J!Continue(p, l, j)
          PROVE  jpc'[p] = l /\ jlocal'[p] = j
      BY <2>2, Places DEF J!Continue, Context
    <2>3. \/ jpc'[p] = "completing" /\ jlocal'[p] = [jlocal[p] EXCEPT !.kind = "result"]
          \/ jpc'[p] = "failing" /\ jlocal'[p] = [jlocal[p] EXCEPT !.kind = "error"]
          \/ jpc'[p] = "failing" /\ jlocal'[p] = [jlocal[p] EXCEPT !.kind = "backend_failure"]
      BY <2>1, <2>2
    <2> QED
      BY <2>3
  <1>4. jlocal[p] \in JP!Job
    BY DEF Context, Halves, JP!Typed, JP!TypeOK
  <1>5. /\ jlocal'[p].kind = kind /\ jlocal'[p].id = jlocal[p].id
        /\ jlocal'[p].input = jlocal[p].input /\ jlocal'[p].replayed = jlocal[p].replayed
    BY <1>2, <1>4 DEF JP!Job
  <1>6. jlocal[p].id \in Ids /\ DOMAIN reason = Ids
    BY DispatchingAsks DEF ReturnWith, J!Dispatch, Context, Halves, AnswersInv
  <1>7. reason'[jlocal[p].id] = e.reason
    BY <1>1, <1>6
  <1> QED
    BY <1>1, <1>2, <1>5, <1>7 DEF Returns

LEMMA RunningOn ==
    ASSUME Context, NEW p \in Procs, NEW ends, RunOn(p, ends)
    PROVE  IF epc'[p] = "idle" THEN \E e \in ends : Returns(p, e) ELSE Goes(p, epc'[p])
  BY Returning DEF RunOn, Goes, journal

\* The handler that runs is the one of the command.
LEMMA AtCommand ==
    ASSUME Context, NEW p \in Procs, jpc[p] = "dispatching"
    PROVE  /\ epc[p] # "idle" => elocal[p].req = Ask(p).req
           /\ epc[p] = "compiling" => Ask(p).cmd = "prepare" /\ elocal[p].plan = Ask(p).plan
           /\ epc[p] \in {"checking", "validated", "claimed", "answered", "rejected", "unknown"}
              => Ask(p).cmd = "authorize-and-execute"
           /\ epc[p] \in {"checking", "validated"} => elocal[p].auth = Ask(p).auth
           /\ epc[p] \in Looking => Ask(p).cmd \in {"status", "recover"}
           /\ epc[p] \in {"idle", "compiling", "checking", "validated", "claimed"} \cup Sent \cup Looking
  <1>1. /\ epc[p] # "idle" => elocal[p].req = Ask(p).req
        /\ epc[p] \in {"checking", "validated"} => elocal[p].auth = Ask(p).auth
        /\ epc[p] \in {"checking", "validated", "claimed"} => Ask(p).cmd = "authorize-and-execute"
    BY DEF Context, SystemInv, CoupledInv, Coupled
  <1>2. CallOK(p)
    BY DEF Context, AnswersInv
  <1>3. epc[p] \in Sent => Ask(p).cmd = "authorize-and-execute"
    <2> SUFFICES ASSUME epc[p] \in Sent PROVE Ask(p).cmd = "authorize-and-execute"
      OBVIOUS
    <2>1. PICK r \in Requests : r = elocal[p].req
      BY DEF Sent, Context, Halves, EP!Typed, EP!JobOK
    <2>2. sender[r] = jlocal[p].id /\ jlocal[p].id \in Ids
      BY <1>2, <2>1, DispatchingAsks DEF CallOK, Context, Halves
    <2>3. sends[r] = 1
      BY <2>2, NoneAssumption DEF Context, AnswersInv
    <2>4. rows[jlocal[p].id].input.cmd = "authorize-and-execute"
      BY <2>2, <2>3 DEF Context, SystemInv, SendIsAccountedFor
    <2> QED
      BY <2>4, OneWorker DEF Context, JP!Working
  <1>4. epc[p] \in EP!Locations
    BY DEF Context, Halves, EP!Typed, EP!TypeOK
  <1> QED
    BY <1>1, <1>2, <1>3, <1>4 DEF CallOK, EP!Locations, Sent, Looking

\* What prepare does for the fixture's plan.
LEMMA PrepareSteps ==
    ASSUME Context, CalmInv, NEW p \in Procs, Method(p), Ask(p) = Asked("prepare"),
           prep[exec].state = "none"
    PROVE  /\ UNCHANGED <<attempt, chain, sends, verdicts>>
           /\ epc[p] = "idle" => Goes(p, "compiling") /\ prep' = prep
           /\ epc[p] = "compiling" => Returns(p, Result) /\ prep'[exec].state = "prepared"
           /\ epc[p] \in {"idle", "compiling"}
  <1>1. jpc[p] = "dispatching"
    BY MethodFrame
  <1>2. /\ Ask(p).cmd = "prepare" /\ Ask(p).req = exec /\ Ask(p).plan = economic_plan
        /\ exec \in Requests
    BY TheRequests, FixtureAssumption
  <1>3. epc[p] \in {"idle", "compiling"}
    BY <1>1, <1>2, AtCommand DEF Looking, Sent
  <1>4. \A o : E!Blocking(exec, o) = {}
    BY DEF E!Blocking, CalmInv
  <1>5. PrepareEnds(exec, economic_plan) = {}
    BY <1>4 DEF PrepareEnds
  <1>6. CASE epc[p] = "idle"
    <2>1. ~EndMethod(p)
      BY <1>2, <1>5 DEF EndMethod, ReturnWith, EndsAtOnce
    <2>2. CallMethod(p) /\ E!StartPrepare(p, exec, economic_plan)
      BY <1>2, <1>6, <2>1 DEF Method, MethodStep, CallMethod
    <2>3. epc'[p] = "compiling" /\ UNCHANGED <<prep, attempt, chain, sends, verdicts>>
      BY <2>2, Places DEF E!StartPrepare, E!Continue, E!network, Context
    <2>4. Goes(p, "compiling")
      BY <2>2, <2>3, RunningOn DEF CallMethod
    <2> QED
      BY <1>3, <1>6, <2>3, <2>4
  <1>7. CASE epc[p] = "compiling"
    <2>1. MethodStep(p) /\ E!SavePreparation(p)
      BY <1>7 DEF Method, CallMethod, EndMethod, MethodStep, E!Send, E!CheckHeight, E!Claim,
          E!RecordSubmitted, E!StorageBusy, E!RecordRejection, E!MarkNeedsRecovery, E!Recover,
          E!SecondLook, E!Inspect, E!Query, E!RecordObservation, E!Reread, E!DecideByHeight
    <2>2. elocal[p].req = exec /\ elocal[p].plan = economic_plan
      BY <1>1, <1>2, <1>7, AtCommand
    <2>3. /\ prep' = [prep EXCEPT ![exec] = [state |-> "prepared", plan |-> economic_plan]]
          /\ UNCHANGED <<attempt, chain, sends, verdicts>> /\ epc'[p] = "idle"
      BY <1>4, <2>1, <2>2, Places DEF E!SavePreparation, E!Return, E!Continue, E!network, Context
    <2>4. DOMAIN prep = Requests
      BY DEF Context, Halves, EP!Typed, EP!TypeOK
    <2>5. Ends(p) = {Result}
      BY <1>5, <1>7, <2>2 DEF Ends
    <2>6. Returns(p, Result)
      BY <2>1, <2>3, <2>5, RunningOn DEF MethodStep
    <2> QED
      BY <1>2, <1>7, <2>3, <2>4, <2>6
  <1> QED
    BY <1>3, <1>6, <1>7

\* What authorize-and-execute does where SQLite works and the proxy follows
\* the script.
LEMMA ExecuteSteps ==
    ASSUME Context, CalmInv, stage = 2, Now.send = Mode,
           NEW p \in Procs, Method(p), Proxied(p), StorageWorks(p),
           Ask(p) = Asked("authorize-and-execute"), prep[exec].state = "prepared"
    PROVE  /\ UNCHANGED <<prep, verdicts>>
           /\ epc[p] \in {"idle", "checking", "validated", "claimed"} \cup Sent
           /\ epc[p] = "idle" => Goes(p, "checking") /\ UNCHANGED <<attempt, chain, sends>>
           /\ epc[p] = "checking" => Goes(p, "validated") /\ UNCHANGED <<attempt, chain, sends>>
           /\ epc[p] = "validated" =>
                 /\ UNCHANGED <<chain, sends>>
                 /\ IF attempt[exec].state = "none"
                    THEN Goes(p, "claimed") /\ attempt'[exec].state = "broadcast_started"
                    ELSE Returns(p, Error("refused")) /\ attempt' = attempt
           /\ epc[p] = "claimed" =>
                 /\ attempt' = attempt /\ sends'[exec] = sends[exec] + 1
                 /\ Goes(p, CASE Mode = "pass" -> "answered"
                              [] Mode = "reject_before_forward" -> "rejected"
                              [] OTHER -> "unknown")
                 /\ Mode \in {"reject_before_forward", "drop_before_forward"} =>
                       chain'[exec] = "unsent"
           /\ epc[p] \in Sent /\ attempt[exec].state = "broadcast_started" =>
                 /\ UNCHANGED <<chain, sends>>
                 /\ epc[p] = "answered" =>
                       Returns(p, Result) /\ attempt'[exec].state = "submitted"
                 /\ epc[p] = "rejected" =>
                       Returns(p, Error("rejected")) /\ attempt'[exec].state = "failed"
                 /\ epc[p] = "unknown" =>
                       Returns(p, Error("uncertain")) /\ attempt'[exec].state = "needs_recovery"
  <1> USE DEF Context
  <1>1. jpc[p] = "dispatching"
    BY MethodFrame
  <1>2. /\ Ask(p).cmd = "authorize-and-execute" /\ Ask(p).req = exec /\ Ask(p).auth = auth
        /\ exec \in Requests
    BY TheRequests, FixtureAssumption
  <1>3. epc[p] \in {"idle", "checking", "validated", "claimed"} \cup Sent
    BY <1>1, <1>2, AtCommand DEF Looking
  <1>4. epc[p] # "idle" => elocal[p].req = exec
    BY <1>1, <1>2, AtCommand
  <1>5. /\ DOMAIN attempt = Requests /\ DOMAIN sends = Requests /\ DOMAIN chain = Requests
        /\ attempt[exec] \in EP!AttemptRow
    BY <1>2 DEF Halves, EP!Typed, EP!TypeOK
  <1>6. epc[p] # "idle" => MethodStep(p)
    BY DEF Method, CallMethod, EndMethod
  <1>7. CASE epc[p] = "idle"
    <2>1. ~EndMethod(p)
      BY <1>2 DEF EndMethod, ReturnWith, EndsAtOnce
    <2>2. CallMethod(p) /\ E!StartExecute(p, exec, auth)
      BY <1>2, <1>7, <2>1 DEF Method, MethodStep, CallMethod
    <2>3. epc'[p] = "checking" /\ UNCHANGED <<prep, attempt, chain, sends, verdicts>>
      BY <2>2, Places DEF E!StartExecute, E!Continue, E!network, CalmInv
    <2>4. Goes(p, "checking")
      BY <2>2, <2>3, RunningOn DEF CallMethod
    <2> QED
      BY <1>3, <1>7, <2>3, <2>4 DEF Sent
  <1>8. CASE epc[p] = "checking"
    <2>1. E!CheckHeight(p)
      BY <1>6, <1>8 DEF MethodStep, E!Send, E!SavePreparation, E!Claim,
          E!RecordSubmitted, E!StorageBusy, E!RecordRejection, E!MarkNeedsRecovery, E!Recover,
          E!SecondLook, E!Inspect, E!Query, E!RecordObservation, E!Reread, E!DecideByHeight
    <2>2. epc'[p] = "validated" /\ UNCHANGED <<prep, attempt, chain, sends, verdicts>>
      BY <2>1, Places DEF E!CheckHeight, E!Continue, E!network, CalmInv
    <2>3. Goes(p, "validated")
      BY <1>6, <1>8, <2>2, RunningOn DEF MethodStep
    <2> QED
      BY <1>3, <1>8, <2>2, <2>3 DEF Sent
  <1>9. CASE epc[p] = "validated"
    <2>1. E!Claim(p)
      BY <1>6, <1>9 DEF MethodStep, E!Send, E!SavePreparation, E!CheckHeight,
          E!RecordSubmitted, E!StorageBusy, E!RecordRejection, E!MarkNeedsRecovery, E!Recover,
          E!SecondLook, E!Inspect, E!Query, E!RecordObservation, E!Reread, E!DecideByHeight
    <2>2. UNCHANGED <<prep, chain, sends, verdicts>>
      BY <2>1 DEF E!Claim, E!network
    <2>3. Ends(p) = {Error("refused")}
      BY <1>9 DEF Ends
    <2>4. E!Taken(exec, elocal[p].auth) <=> attempt[exec].state # "none"
      BY <1>2 DEF E!Taken, CalmInv
    <2>5. CASE attempt[exec].state = "none"
      <3>1. /\ attempt' = [attempt EXCEPT ![exec] =
                  [E!NoAttempt EXCEPT !.state = "broadcast_started", !.auth = elocal[p].auth]]
            /\ epc'[p] = "claimed"
        BY <1>4, <1>9, <2>1, <2>4, <2>5, Places DEF E!Claim, E!Continue
      <3>2. attempt'[exec].state = "broadcast_started"
        BY <1>2, <1>5, <3>1 DEF E!NoAttempt
      <3>3. Goes(p, "claimed")
        BY <1>6, <1>9, <3>1, RunningOn DEF MethodStep
      <3> QED
        BY <1>3, <1>9, <2>2, <2>5, <3>1, <3>2, <3>3 DEF Sent
    <2>6. CASE attempt[exec].state # "none"
      <3>1. attempt' = attempt /\ epc'[p] = "idle"
        BY <1>4, <1>9, <2>1, <2>4, <2>6, Places DEF E!Claim, E!Return, E!Continue
      <3>2. Returns(p, Error("refused"))
        BY <1>6, <1>9, <2>3, <3>1, RunningOn DEF MethodStep
      <3> QED
        BY <1>3, <1>9, <2>2, <2>6, <3>1, <3>2 DEF Sent
    <2> QED
      BY <2>5, <2>6
  <1>10. CASE epc[p] = "claimed"
    <2>1. E!Send(p)
      BY <1>6, <1>10 DEF MethodStep, E!SavePreparation, E!CheckHeight, E!Claim,
          E!RecordSubmitted, E!StorageBusy, E!RecordRejection, E!MarkNeedsRecovery, E!Recover,
          E!SecondLook, E!Inspect, E!Query, E!RecordObservation, E!Reread, E!DecideByHeight
    <2>2. /\ UNCHANGED <<prep, attempt, verdicts>> /\ sends' = [sends EXCEPT ![exec] = @ + 1]
          /\ epc'[p] \in {"answered", "rejected", "unknown"}
      BY <1>4, <1>10, <2>1, Places DEF E!Send, E!Continue
    <2>3. sends'[exec] = sends[exec] + 1
      BY <1>2, <1>5, <2>2
    <2>4. Goes(p, epc'[p])
      BY <1>6, <1>10, <2>2, RunningOn DEF MethodStep
    <2>5. /\ epc'[p] = CASE Mode = "pass" -> "answered"
                         [] Mode = "reject_before_forward" -> "rejected"
                         [] OTHER -> "unknown"
          /\ Mode \in {"reject_before_forward", "drop_before_forward"} => chain'[exec] = "unsent"
      BY <1>10 DEF Proxied, Mode
    <2> QED
      BY <1>3, <1>10, <2>2, <2>3, <2>4, <2>5 DEF Sent
  <1>11. CASE epc[p] \in Sent
    <2>1. /\ epc[p] = "answered" => E!RecordSubmitted(p)
          /\ epc[p] = "rejected" => E!RecordRejection(p)
          /\ epc[p] = "unknown" => E!MarkNeedsRecovery(p)
      BY <1>6, <1>11, Places DEF MethodStep, E!SavePreparation, E!CheckHeight, E!Claim, E!Send,
          E!RecordSubmitted, E!StorageBusy, E!RecordRejection, E!MarkNeedsRecovery, E!Recover,
          E!SecondLook, E!Inspect, E!Query, E!RecordObservation, E!Reread, E!DecideByHeight,
          StorageWorks, E!Continue, Sent
    <2>2. /\ UNCHANGED <<prep, chain, sends, verdicts>> /\ epc'[p] = "idle"
      BY <1>4, <1>11, <2>1, Places DEF E!RecordSubmitted, E!RecordRejection, E!MarkNeedsRecovery,
          E!Return, E!Continue, E!network, Sent
    <2>3. ASSUME attempt[exec].state = "broadcast_started"
          PROVE  attempt'[exec].state = CASE epc[p] = "answered" -> "submitted"
                                          [] epc[p] = "rejected" -> "failed"
                                          [] epc[p] = "unknown" -> "needs_recovery"
      BY <1>2, <1>4, <1>5, <1>11, <2>1, <2>3 DEF E!RecordSubmitted, E!RecordRejection,
          E!MarkNeedsRecovery, EP!AttemptRow, Sent
    <2>4. ASSUME attempt[exec].state = "broadcast_started"
          PROVE  Ends(p) = {CASE epc[p] = "answered" -> Result
                              [] epc[p] = "rejected" -> Error("rejected")
                              [] epc[p] = "unknown" -> Error("uncertain")}
      BY <1>4, <1>11, <2>4 DEF Ends, Sent
    <2>5. \E e \in Ends(p) : Returns(p, e)
      BY <1>6, <1>11, <2>2, RunningOn DEF MethodStep, Sent
    <2> QED
      BY <1>3, <1>11, <2>2, <2>3, <2>4, <2>5 DEF Sent
  <1> QED
    BY <1>3, <1>7, <1>8, <1>9, <1>10, <1>11

\* What status does for a request that was never broadcast.
Inspects(p) ==
    /\ epc[p] \in {"idle", "inspecting"}
    /\ epc[p] = "inspecting" => elocal[p].cmd = "status"

LEMMA StatusSteps ==
    ASSUME Context, NEW p \in Procs, Method(p), Ask(p) = Asked("status"), Inspects(p),
           prep[exec].state # "none", attempt[exec].state = "none"
    PROVE  /\ UNCHANGED <<attempt, chain, sends, verdicts>>
           /\ prep'[exec].state # "none"
           /\ Inspects(p)'
           /\ IF epc'[p] = "idle" THEN Returns(p, Result) ELSE Goes(p, epc'[p])
  <1> USE DEF Context
  <1>1. jpc[p] = "dispatching"
    BY MethodFrame
  <1>2. Ask(p).cmd = "status" /\ Ask(p).req = exec /\ exec \in Requests
    BY TheRequests, FixtureAssumption
  <1>3. epc[p] # "idle" => elocal[p].req = exec
    BY <1>1, <1>2, AtCommand
  <1>4. DOMAIN prep = Requests /\ prep[exec] \in EP!PrepRow
    BY <1>2 DEF Halves, EP!Typed, EP!TypeOK
  <1>5. CASE epc[p] = "idle"
    <2>1. ~EndMethod(p)
      BY <1>2 DEF EndMethod, ReturnWith, EndsAtOnce
    <2>2. CallMethod(p) /\ E!StartInspection(p, exec, "status")
      BY <1>2, <1>5, <2>1 DEF Method, MethodStep, CallMethod
    <2>3. /\ epc'[p] = "inspecting" /\ elocal'[p].cmd = "status"
          /\ UNCHANGED <<prep, attempt, chain, sends, verdicts>>
      BY <2>2, Places DEF E!StartInspection, E!Continue, E!network, E!Terminal, E!NoJob
    <2>4. Goes(p, "inspecting")
      BY <2>2, <2>3, RunningOn DEF CallMethod
    <2> QED
      BY <2>3, <2>4 DEF Inspects
  <1>6. CASE epc[p] = "inspecting"
    <2>1. MethodStep(p) /\ E!Inspect(p)
      BY <1>6 DEF Method, CallMethod, EndMethod, MethodStep, E!SavePreparation, E!CheckHeight,
          E!Claim, E!Send, E!RecordSubmitted, E!StorageBusy, E!RecordRejection,
          E!MarkNeedsRecovery, E!Recover, E!SecondLook, E!Query, E!RecordObservation, E!Reread,
          E!DecideByHeight
    <2>2. /\ UNCHANGED <<attempt, chain, sends, verdicts>> /\ epc'[p] = "idle"
          /\ prep' = prep \/ prep' = [prep EXCEPT ![exec].state = "expired"]
      BY <1>3, <1>6, <2>1, Places DEF E!Inspect, E!Return, E!Continue, E!network, E!Expire, Inspects
    <2>3. prep'[exec].state # "none"
      BY <1>2, <1>4, <2>2 DEF EP!PrepRow
    <2>4. Ends(p) = {Result}
      BY <1>6 DEF Ends
    <2>5. Returns(p, Result)
      BY <2>1, <2>2, <2>4, RunningOn DEF MethodStep
    <2> QED
      BY <2>2, <2>3, <2>5 DEF Inspects
  <1> QED
    BY <1>5, <1>6 DEF Inspects

\* What evidence does.
LEMMA EvidenceSteps ==
    ASSUME Context, NEW p \in Procs, Method(p), Ask(p) = Asked("evidence"),
           prep[exec].state # "none"
    PROVE  /\ UNCHANGED <<prep, attempt, chain, sends, verdicts>>
           /\ Returns(p, Result)
  <1>1. jpc[p] = "dispatching"
    BY MethodFrame
  <1>2. Ask(p).cmd = "evidence" /\ Ask(p).req = exec
    BY TheRequests
  <1>3. epc[p] = "idle"
    BY <1>1, <1>2, AtCommand DEF Sent, Looking
  <1>4. EndMethod(p)
    BY <1>2, <1>3 DEF Method, CallMethod, MethodStep
  <1>5. EndsAtOnce(Ask(p)) = {Result}
    BY <1>2 DEF EndsAtOnce
  <1>6. ReturnWith(p, {Result}) /\ UNCHANGED backend
    BY <1>4, <1>5 DEF EndMethod
  <1>7. epc'[p] = "idle" /\ UNCHANGED <<prep, attempt, chain, sends, verdicts>>
    BY <1>3, <1>6 DEF backend
  <1> QED
    BY <1>6, <1>7, Returning

\* recover looks at an attempt that is there.
Recovers(p) ==
    /\ prep[exec].state # "none" /\ attempt[exec].state # "none"
    /\ epc[p] \in {"idle", "querying", "observed", "reread", "deciding"}
    /\ epc[p] # "idle" => elocal[p].cmd = "recover"

Undone == chain[exec] \in {"reverted", "failed"}

\* A failure is recorded, about to be recorded or told of a transaction only
\* that the node has reported as failed.
TrueFailures(p) ==
    /\ MayRematerialize => Undone
    /\ attempt[exec].state = "failed" => Undone
    /\ epc[p] = "observed" /\ elocal[p].finding = "failed" => Undone

Absent == attempt[exec].state = "needs_recovery" /\ attempt[exec].obs = "null"
Open == {"broadcast_started", "needs_recovery"}

\* Recovery of a transaction that never arrived finds it absent.
Unaware(p) ==
    /\ chain[exec] = "unsent"
    /\ attempt[exec].state \in Open
    /\ epc[p] = "querying" => elocal[p].seen \in Open
    /\ epc[p] = "observed" => elocal[p].finding = "needs_recovery" /\ elocal[p].value = "null"
    /\ epc[p] \in {"reread", "deciding"} => Absent

LEMMA RecoverSteps ==
    ASSUME Context, NEW p \in Procs, Method(p), Ask(p) = Asked("recover"), Recovers(p),
           TrueFailures(p)
    PROVE  /\ UNCHANGED <<prep, chain, sends>>
           /\ Recovers(p)' /\ TrueFailures(p)'
           /\ Unaware(p) => Unaware(p)' /\ (epc'[p] = "idle" => Absent')
           /\ IF epc'[p] = "idle" THEN Returns(p, Result) ELSE Goes(p, epc'[p])
  <1> USE DEF Context
  <1>1. jpc[p] = "dispatching"
    BY MethodFrame
  <1>2. Ask(p).cmd = "recover" /\ Ask(p).req = exec /\ exec \in Requests
    BY TheRequests, FixtureAssumption
  <1>3. epc[p] # "idle" => elocal[p].req = exec /\ elocal[p].cmd = "recover"
    BY <1>1, <1>2, AtCommand DEF Recovers
  <1>4. DOMAIN attempt = Requests /\ attempt[exec] \in EP!AttemptRow /\ elocal[p] \in EP!Job
    BY <1>2 DEF Halves, EP!Typed, EP!TypeOK
  <1>5. epc[p] # "idle" => MethodStep(p)
    BY DEF Method, CallMethod, EndMethod
  <1>6. CASE epc[p] = "idle"
    <2>1. ~EndMethod(p)
      BY <1>2 DEF EndMethod, ReturnWith, EndsAtOnce, Recovers
    <2>2. CallMethod(p) /\ E!StartInspection(p, exec, "recover")
      BY <1>2, <1>6, <2>1 DEF Method, MethodStep, CallMethod
    <2>3. UNCHANGED <<prep, attempt, chain, sends>>
      BY <2>2 DEF E!StartInspection, E!network
    <2>4. CASE attempt[exec].state \in E!Terminal
      <3>1. epc'[p] = "idle" /\ E!AnswerTerminal(exec)
        BY <1>6, <2>2, <2>4 DEF E!StartInspection, E!Terminal
      <3>2. Returns(p, Result)
        BY <1>2, <2>2, <3>1, RunningOn DEF CallMethod
      <3>3. MayRematerialize' => MayRematerialize \/ attempt[exec].state = "failed"
        BY <2>4, <3>1 DEF E!AnswerTerminal, E!Answer, MayRematerialize, E!Terminal
      <3> QED
        BY <1>6, <2>3, <2>4, <3>1, <3>2, <3>3 DEF Recovers, TrueFailures, Unaware, Undone, E!Terminal, Open
    <2>5. CASE attempt[exec].state \notin E!Terminal
      <3>1. /\ epc'[p] = "querying" /\ elocal'[p].cmd = "recover"
            /\ elocal'[p].seen = attempt[exec].state /\ verdicts' = verdicts
        BY <2>2, <2>5, Places DEF E!StartInspection, E!Continue, E!NoJob, Recovers
      <3>2. Goes(p, "querying")
        BY <2>2, <3>1, RunningOn DEF CallMethod
      <3> QED
        BY <2>3, <3>1, <3>2 DEF Recovers, TrueFailures, Unaware, Undone, MayRematerialize
    <2> QED
      BY <2>4, <2>5
  <1>7. CASE epc[p] = "querying"
    <2>1. E!Query(p)
      BY <1>5, <1>7 DEF MethodStep, E!SavePreparation, E!CheckHeight,
          E!Claim, E!Send, E!RecordSubmitted, E!StorageBusy, E!RecordRejection,
          E!MarkNeedsRecovery, E!Recover, E!SecondLook, E!Inspect, E!RecordObservation, E!Reread,
          E!DecideByHeight
    <2>2. UNCHANGED <<prep, attempt, chain, sends, verdicts>>
      BY <2>1 DEF E!Query, E!network
    <2>3. PICK v \in E!Observable(exec) :
             E!Continue(p, "observed",
                [elocal[p] EXCEPT !.seen = "none",
                                  !.finding = E!DerivedState(v, elocal[p].seen),
                                  !.value = IF v = "null" THEN "null" ELSE "value"])
      BY <1>3, <1>7, <2>1 DEF E!Query
    <2>4. /\ epc'[p] = "observed"
          /\ elocal'[p] = [elocal[p] EXCEPT !.seen = "none",
                              !.finding = E!DerivedState(v, elocal[p].seen),
                              !.value = IF v = "null" THEN "null" ELSE "value"]
      BY <2>3, Places DEF E!Continue
    <2>5. /\ elocal'[p].cmd = "recover" /\ elocal'[p].finding = E!DerivedState(v, elocal[p].seen)
          /\ elocal'[p].value = IF v = "null" THEN "null" ELSE "value"
      BY <1>3, <1>4, <1>7, <2>4 DEF EP!Job
    <2>6. /\ elocal'[p].finding = "failed" => Undone
          /\ chain[exec] = "unsent" /\ elocal[p].seen \in Open =>
                elocal'[p].finding = "needs_recovery" /\ elocal'[p].value = "null"
      BY <2>5 DEF E!DerivedState, E!Observable, Undone, Open
    <2>7. Goes(p, "observed")
      BY <1>5, <1>7, <2>4, RunningOn DEF MethodStep
    <2> QED
      BY <1>7, <2>2, <2>4, <2>5, <2>6, <2>7 DEF Recovers, TrueFailures, Unaware, Undone, MayRematerialize
  <1>8. CASE epc[p] = "observed"
    <2>1. E!RecordObservation(p)
      BY <1>5, <1>8 DEF MethodStep, E!SavePreparation, E!CheckHeight,
          E!Claim, E!Send, E!RecordSubmitted, E!StorageBusy, E!RecordRejection,
          E!MarkNeedsRecovery, E!Recover, E!SecondLook, E!Inspect, E!Query, E!Reread,
          E!DecideByHeight
    <2>2. /\ UNCHANGED <<prep, chain, sends, verdicts>>
          /\ epc'[p] = "reread" /\ elocal'[p].cmd = "recover"
      BY <1>3, <1>8, <2>1, Places DEF E!RecordObservation, E!Continue, E!network, E!NoJob
    <2>3. PICK receipt :
             attempt' = [attempt EXCEPT ![exec].state = elocal[p].finding,
                                        ![exec].obs = elocal[p].value,
                                        ![exec].receipt = receipt]
      BY <1>3, <1>8, <2>1 DEF E!RecordObservation
    <2>4. /\ attempt'[exec].state = elocal[p].finding /\ attempt'[exec].obs = elocal[p].value
      BY <1>2, <1>4, <2>3 DEF EP!AttemptRow
    <2>5. elocal[p].finding # "none"
      BY <1>8 DEF Halves, EP!Typed, EP!JobOK
    <2>6. Goes(p, "reread")
      BY <1>5, <1>8, <2>2, RunningOn DEF MethodStep
    <2> QED
      BY <1>8, <2>2, <2>4, <2>5, <2>6 DEF Recovers, TrueFailures, Unaware, Undone,
          MayRematerialize, Absent, Open
  <1>9. CASE epc[p] = "reread"
    <2>1. E!Reread(p)
      BY <1>5, <1>9 DEF MethodStep, E!SavePreparation, E!CheckHeight,
          E!Claim, E!Send, E!RecordSubmitted, E!StorageBusy, E!RecordRejection,
          E!MarkNeedsRecovery, E!Recover, E!SecondLook, E!Inspect, E!Query, E!RecordObservation,
          E!DecideByHeight
    <2>2. UNCHANGED <<prep, attempt, chain, sends>>
      BY <2>1 DEF E!Reread, E!network
    <2>3. \/ epc'[p] = "idle"
          \/ /\ epc'[p] = "deciding" /\ elocal'[p] = elocal[p] /\ verdicts' = verdicts
      BY <1>3, <1>9, <2>1, Places DEF E!Reread, E!Return, E!Continue
    <2>4. MayRematerialize' => MayRematerialize \/ attempt[exec].state = "failed"
      BY <1>3, <1>9, <2>1 DEF E!Reread, E!AnswerTerminal, E!Answer, MayRematerialize, E!Terminal
    <2>5. Absent => epc'[p] = "deciding"
      BY <1>3, <1>9, <2>1, Places DEF E!Reread, E!Return, E!Continue, Absent, E!Terminal
    <2>6. Ends(p) = {Result}
      BY <1>9 DEF Ends
    <2>7. IF epc'[p] = "idle" THEN Returns(p, Result) ELSE Goes(p, epc'[p])
      BY <1>5, <1>9, <2>6, RunningOn DEF MethodStep
    <2> QED
      BY <1>3, <1>9, <2>2, <2>3, <2>4, <2>5, <2>7 DEF Recovers, TrueFailures, Unaware, Undone,
          MayRematerialize, Absent
  <1>10. CASE epc[p] = "deciding"
    <2>1. E!DecideByHeight(p)
      BY <1>5, <1>10 DEF MethodStep, E!SavePreparation, E!CheckHeight,
          E!Claim, E!Send, E!RecordSubmitted, E!StorageBusy, E!RecordRejection,
          E!MarkNeedsRecovery, E!Recover, E!SecondLook, E!Inspect, E!Query, E!RecordObservation,
          E!Reread
    <2>2. /\ UNCHANGED <<prep, chain, sends>> /\ epc'[p] = "idle" /\ verdicts' = verdicts
          /\ \/ attempt' = attempt
             \/ attempt' = [attempt EXCEPT ![exec].state = "needs_recovery", ![exec].obs = "null"]
      BY <1>3, <1>10, <2>1, Places DEF E!DecideByHeight, E!Return, E!Continue, E!network, E!Answer,
          E!Conclusive
    <2>3. /\ attempt' = attempt \/ Absent'
      BY <1>2, <1>4, <2>2 DEF EP!AttemptRow, Absent
    <2>4. Ends(p) = {Result}
      BY <1>10 DEF Ends
    <2>5. Returns(p, Result)
      BY <1>5, <1>10, <2>2, <2>4, RunningOn DEF MethodStep
    <2> QED
      BY <1>10, <2>2, <2>3, <2>5 DEF Recovers, TrueFailures, Unaware, Undone,
          MayRematerialize, Absent, Open
  <1> QED
    BY <1>6, <1>7, <1>8, <1>9, <1>10 DEF Recovers

-----------------------------------------------------------------------------
(* The steps of a script                                                   *)

\* A gateway reads a call, works on it, tells the answer, or is killed; the
\* cluster and the clock move, or nothing does.
Reads ==
    \E p \in Procs, i \in Ids, input \in Inputs : MayRead(p, i, input) /\ ReadRequest(p, i, input)

Works(p) == Method(p) /\ Proxied(p) /\ StorageWorks(p) /\ ~AtKillPoint(p)
Tells(p) == HandleStep(p) /\ StorageWorks(p)
Killed(p) == AtKillPoint(p) /\ Die(p)
Serves(p) == jpc[p] # "idle" /\ (Works(p) \/ Tells(p) \/ Killed(p))

Outside ==
    /\ UNCHANGED <<journal, prep, attempt, sends, verdicts, epc, elocal, sender, reason, late>>
    /\ stage <= 2 => stale' = stale
    /\ chain[exec] = "unsent" => chain'[exec] = "unsent"
    /\ Undone => Undone'

LEMMA WorldOutside ==
    ASSUME Context, Told, StageInv, World \/ UNCHANGED vars
    PROVE  Outside
  <1>1. exec \in Requests /\ ForksPossible = FALSE
    BY FixtureAssumption
  <1>2. DOMAIN chain = Requests
    BY DEF Context, Halves, EP!Typed, EP!TypeOK
  <1>3. CASE World
    <2>1. /\ UNCHANGED <<journal, prep, attempt, sends, verdicts, epc, elocal, sender, reason, late>>
      BY <1>3 DEF World, Environment, E!Environment, E!BecomeLate, E!BecomeStale, E!Include,
          E!SettleBlock, E!Drop, E!Cluster, E!clock, E!network
    <2>2. stage <= 2 => stale' = stale
      <3>1. stage <= 2 => stage <= Last /\ stage # 3
        BY DEF StageInv, Last
      <3>2. stage <= 2 => Scripted /\ ~Now.expired
        BY <3>1, Stages DEF StageInv
      <3> QED
        BY <1>3, <3>2 DEF World
    <2>3. \/ chain' = chain
          \/ chain[exec] = "pending" /\ \E s \in {"processed", "reverted", "dropped"} :
                                            chain' = [chain EXCEPT ![exec] = s]
          \/ chain[exec] = "processed" /\ chain' = [chain EXCEPT ![exec] = "confirmed"]
          \/ chain[exec] = "reverted" /\ chain' = [chain EXCEPT ![exec] = "failed"]
      BY <1>1, <1>3 DEF World, Environment, E!Environment, E!BecomeLate, E!BecomeStale, E!Include,
          E!SettleBlock, E!SettledAs, E!Drop, E!Cluster, E!network
    <2> QED
      BY <1>1, <1>2, <2>1, <2>2, <2>3 DEF Outside, Undone
  <1>4. CASE UNCHANGED vars
    BY <1>4 DEF Outside, vars, backend, Undone
  <1> QED
    BY <1>3, <1>4

LEMMA ScriptSteps ==
    ASSUME Context, Told, StageInv, [ChaosNext]_chaosVars
    PROVE  /\ scenario' = scenario
           /\ \/ Reads
              \/ (\E p \in Procs : Serves(p)) /\ UNCHANGED <<stage, begun>>
              \/ Outside /\ UNCHANGED <<stage, begun>>
              \/ NextStage
  <1>1. scenario # "any"
    BY DEF Told, ScenarioNames
  <1>2. ASSUME NEW p \in Procs, GatewayStep(p)
        PROVE  Serves(p)
    <2>1. Scripted
      BY <1>1, <1>2 DEF GatewayStep
    <2>2. CASE AtKillPoint(p) /\ Die(p)
      BY <2>2 DEF Serves, Killed, Die, J!Die
    <2>3. CASE Step(p) /\ ~AtKillPoint(p) /\ Proxied(p) /\ StorageWorks(p)
      <3>1. jpc[p] # "idle"
        BY <2>3 DEF Step, HandleStep, CallMethod, EndMethod, MethodStep, J!RecordResponse,
            J!Complete, J!CompleteRaises, J!WriteResponse
      <3> QED
        BY <2>3, <3>1 DEF Serves, Works, Tells, Step, Method
    <2> QED
      BY <1>2, <2>1, <2>2, <2>3 DEF GatewayStep
  <1>3. CASE \E p \in Procs, i \in Ids, input \in Inputs :
                MayRead(p, i, input) /\ ReadRequest(p, i, input) /\ UNCHANGED scenario
    BY <1>3 DEF Reads
  <1>4. CASE \E p \in Procs : GatewayStep(p) /\ UNCHANGED <<scenario, stage, begun>>
    BY <1>2, <1>4
  <1>5. CASE World /\ UNCHANGED <<scenario, stage, begun>>
    BY <1>5, WorldOutside
  <1>6. CASE NextStage
    BY <1>6 DEF NextStage
  <1>7. CASE UNCHANGED chaosVars
    BY <1>7, WorldOutside DEF chaosVars
  <1> QED
    BY <1>3, <1>4, <1>5, <1>6, <1>7 DEF ChaosNext, Report

\* What a method, an answer and a kill have in common.
LEMMA MethodStays ==
    ASSUME Context, NEW p \in Procs, Method(p)
    PROVE  /\ jlocal'[p].id = jlocal[p].id /\ jlocal'[p].input = jlocal[p].input
           /\ jlocal'[p].replayed = jlocal[p].replayed
           /\ jpc'[p] \in {"dispatching", "completing", "failing"}
  <1>1. jpc[p] = "dispatching"
    BY MethodFrame
  <1>2. (\E e : Returns(p, e)) \/ Goes(p, epc'[p])
    <2>1. CASE EndMethod(p)
      <3>1. epc'[p] = "idle" /\ ReturnWith(p, EndsAtOnce(Ask(p)))
        BY <2>1 DEF EndMethod, backend
      <3> QED
        BY <3>1, Returning
    <2>2. CASE CallMethod(p)
      BY <2>2, RunningOn DEF CallMethod
    <2>3. CASE MethodStep(p)
      BY <2>3, RunningOn DEF MethodStep
    <2> QED
      BY <2>1, <2>2, <2>3 DEF Method
  <1> QED
    BY <1>1, <1>2 DEF Returns, Goes

LEMMA KilledStays ==
    ASSUME Context, NEW p \in Procs, Killed(p)
    PROVE  /\ UNCHANGED <<rows, printed, reason, prep, attempt, chain, sends, verdicts, late, stale>>
           /\ OthersStay(p)
           /\ jpc'[p] = "idle" /\ epc'[p] = "idle"
  <1>1. OthersStay(p)
    BY OthersUnmoved DEF Killed, OthersStay, Context
  <1> QED
    BY <1>1, Places DEF Killed, Die, J!Die, J!Continue, E!Abandon, E!Return, E!Continue, E!clock,
        E!network, backend, Context

\* A process that serves a call still does, or has stopped, and writes the
\* row of this call only.
LEMMA ServesStays ==
    ASSUME Context, Told, StageInv, NEW p \in Procs, Serves(p)
    PROVE  /\ OthersStay(p) /\ UNCHANGED <<late, stale>>
           /\ jpc'[p] # "idle" =>
                 /\ jlocal'[p].id = jlocal[p].id /\ jlocal'[p].input = jlocal[p].input
                 /\ jlocal'[p].replayed = jlocal[p].replayed /\ jpc'[p] # "refusing"
           /\ \A i \in Ids : i # jlocal[p].id => rows'[i] = rows[i]
           /\ jpc[p] = "dispatching" => rows' = rows /\ printed' = printed
  <1>0. jpc[p] # "refusing"
    BY AtWork DEF Serves
  <1>1. CASE Works(p)
    BY <1>1, MethodFrame, MethodStays DEF Works
  <1>2. CASE Tells(p)
    BY <1>0, <1>2, TellsAnswer DEF Tells, backend
  <1>3. CASE Killed(p)
    BY <1>3, KilledStays
  <1> QED
    BY <1>1, <1>2, <1>3 DEF Serves

LEMMA StageStays ==
    ASSUME Context, Told, StageInv, Replays => Replied, [ChaosNext]_chaosVars
    PROVE  StageInv'
  <1>1. CASE Reads
    <2>1. PICK p \in Procs, i \in Ids, input \in Inputs :
             MayRead(p, i, input) /\ ReadRequest(p, i, input)
      BY <1>1 DEF Reads
    <2>2. IF Replays THEN jpc'[p] = "printing" /\ jlocal'[p].replayed
                     ELSE jpc'[p] = "dispatching" /\ ~jlocal'[p].replayed
      BY <2>1, ReadsCall
    <2>3. jpc'[p] # "refusing" /\ (jlocal'[p].replayed <=> Replays)
      <3>1. CASE Replays
        BY <2>2, <3>1
      <3>2. CASE ~Replays
        BY <2>2, <3>2
      <3> QED
        BY <3>1, <3>2
    <2>4. scenario' = scenario
      BY ScriptSteps
    <2>5. /\ stage <= Last /\ OthersStay(p) /\ stage' = stage
          /\ jlocal'[p].id = i /\ jlocal'[p].input = input
      BY <2>1, ReadsCall
    <2>6. \A j \in Ids : j # i => rows'[j] = rows[j]
      BY <2>1, ReadsCall
    <2>7. PICK c \in Calls \ begun : /\ c.proc = p /\ c.id = i /\ c.input = input
                                     /\ begun' = begun \cup {c}
      BY <2>1, ReadsCall
    <2>8. Serving(p, c)'
      BY <2>3, <2>4, <2>5, <2>7 DEF Serving, Ask, Replays
    <2>9. \A q \in Procs : q # p /\ jpc'[q] # "idle" => \E d \in begun' : Serving(q, d)'
      BY <2>4, <2>5, <2>7 DEF OthersStay, StageInv, Serving, Ask, Replays
    <2>10. Calls' = Calls /\ Used' = Used /\ Last' = Last
      BY <2>4, <2>5 DEF Calls, Used, Last, Racers, Executes, Competes, Checks, KillAt
    <2> QED
      BY <2>4, <2>5, <2>6, <2>7, <2>8, <2>9, <2>10 DEF StageInv
  <1>2. CASE (\E p \in Procs : Serves(p)) /\ UNCHANGED <<stage, begun>>
    <2>1. PICK p \in Procs : Serves(p)
      BY <1>2
    <2>2. scenario' = scenario /\ UNCHANGED <<stage, begun>>
      BY <1>2, ScriptSteps
    <2>3. PICK c \in begun : Serving(p, c)
      BY <2>1 DEF Serves, StageInv
    <2>4. jpc'[p] # "idle" => Serving(p, c)'
      BY <2>1, <2>2, <2>3, ServesStays DEF Serving, Ask, Replays
    <2>5. \A q \in Procs : q # p /\ jpc'[q] # "idle" => \E d \in begun' : Serving(q, d)'
      BY <2>1, <2>2, ServesStays DEF OthersStay, StageInv, Serving, Ask, Replays
    <2>6. \A i \in Ids : i # c.id => rows'[i] = rows[i]
      BY <2>1, <2>3, ServesStays DEF Serving
    <2>7. Calls' = Calls /\ Used' = Used /\ Last' = Last
      BY <2>2 DEF Calls, Used, Last, Racers, Executes, Competes, Checks, KillAt
    <2> QED
      BY <2>2, <2>3, <2>4, <2>5, <2>6, <2>7 DEF StageInv
  <1>3. CASE Outside /\ UNCHANGED <<stage, begun>>
    <2>1. scenario' = scenario /\ UNCHANGED <<stage, begun, rows, jpc, jlocal>>
      BY <1>3, ScriptSteps DEF Outside, journal
    <2> QED
      BY <2>1 DEF StageInv, Calls, Used, Last, Racers, Executes, Competes, Checks, KillAt,
          Serving, Ask, Replays
  <1>4. CASE NextStage
    <2>1. /\ scenario' = scenario /\ stage' = stage + 1 /\ begun' = {} /\ begun = Now.calls
          /\ Scripted /\ UNCHANGED <<rows, jpc>> /\ \A p \in Procs : jpc[p] = "idle"
      BY <1>4 DEF NextStage, vars, journal
    <2>2. stage <= Last /\ begun = Calls /\ Last' = Last /\ Last \in {2, 3}
      BY <2>1, Stages DEF StageInv, Last, Racers
    <2>3. stage' <= Last => \A c \in begun : c.id \in Used'
      BY <2>1, <2>2, TheCalls DEF StageInv, Calls, Used, Last
    <2>4. Used \subseteq Used'
      BY <2>1, <2>2 DEF Used, StageInv
    <2> QED
      BY <2>1, <2>2, <2>3, <2>4 DEF StageInv
  <1> QED
    BY <1>1, <1>2, <1>3, <1>4, ScriptSteps

\* A method touches the rows of its request only.
LEMMA OtherRequests ==
    ASSUME Context, NEW p \in Procs, Method(p), NEW q \in Requests, q # Ask(p).req
    PROVE  prep'[q] = prep[q] /\ attempt'[q] = attempt[q]
  <1>1. jpc[p] = "dispatching"
    BY MethodFrame
  <1>2. epc[p] # "idle" => elocal[p].req = Ask(p).req
    BY <1>1, AtCommand
  <1>3. DOMAIN prep = Requests /\ DOMAIN attempt = Requests
    BY DEF Context, Halves, EP!Typed, EP!TypeOK
  <1>4. CASE EndMethod(p)
    BY <1>4 DEF EndMethod, backend
  <1>5. CASE CallMethod(p)
    BY <1>3, <1>5 DEF CallMethod, E!StartPrepare, E!StartExecute, E!StartInspection, E!Expire
  <1>6. CASE MethodStep(p)
    <2>1. prep'[q] = prep[q]
      BY <1>2, <1>3, <1>6 DEF MethodStep, E!SavePreparation, E!CheckHeight, E!Claim, E!Send,
          E!RecordSubmitted, E!StorageBusy, E!RecordRejection, E!MarkNeedsRecovery, E!Recover,
          E!SecondLook, E!Inspect, E!Query, E!RecordObservation, E!Reread, E!DecideByHeight,
          E!Expire
    <2>2. attempt'[q] = attempt[q]
      BY <1>2, <1>3, <1>6 DEF MethodStep, E!SavePreparation, E!CheckHeight, E!Claim, E!Send,
          E!RecordSubmitted, E!StorageBusy, E!RecordRejection, E!MarkNeedsRecovery, E!Recover,
          E!SecondLook, E!Inspect, E!Query, E!RecordObservation, E!Reread, E!DecideByHeight
    <2> QED
      BY <2>1, <2>2
  <1> QED
    BY <1>4, <1>5, <1>6 DEF Method

LEMMA CalmStays ==
    ASSUME Context, Told, StageInv, CalmInv, [ChaosNext]_chaosVars
    PROVE  CalmInv'
  <1>1. CASE Reads
    <2>1. PICK p \in Procs, i \in Ids, input \in Inputs :
             MayRead(p, i, input) /\ ReadRequest(p, i, input)
      BY <1>1 DEF Reads
    <2>2. UNCHANGED <<prep, attempt, late, stale>>
      BY <2>1 DEF ReadRequest, backend
    <2>3. stage' = stage
      <3>1. Scripted
        BY <2>1 DEF MayRead, Told, ScenarioNames
      <3> QED
        BY <2>1, <3>1 DEF MayRead
    <2> QED
      BY <2>2, <2>3 DEF CalmInv
  <1>2. ASSUME NEW p \in Procs, Serves(p), UNCHANGED <<stage, begun>>
        PROVE  CalmInv'
    <2>1. UNCHANGED <<late, stale>>
      BY <1>2, ServesStays
    <2>2. CASE Works(p)
      <3>1. Ask(p).req = exec
        BY <1>2, AtWork, TheCalls, TheRequests DEF Serves, StageInv, Last, Told, ScenarioNames,
            Recovering, Racers
      <3>2. \A q \in Requests \ {exec} : prep'[q] = prep[q] /\ attempt'[q] = attempt[q]
        BY <2>2, <3>1, OtherRequests DEF Works
      <3> QED
        BY <1>2, <2>1, <3>2 DEF CalmInv
    <2>3. CASE Tells(p)
      BY <1>2, <2>3 DEF CalmInv, Tells, HandleStep, backend
    <2>4. CASE Killed(p)
      BY <1>2, <2>4, KilledStays DEF CalmInv
    <2> QED
      BY <1>2, <2>2, <2>3, <2>4 DEF Serves
  <1>3. CASE Outside /\ UNCHANGED <<stage, begun>>
    BY <1>3 DEF CalmInv, Outside
  <1>4. CASE NextStage
    BY <1>4 DEF CalmInv, NextStage, vars, backend, StageInv
  <1> QED
    BY <1>1, <1>2, <1>3, <1>4, ScriptSteps

-----------------------------------------------------------------------------
(* The stages where one gateway works                                      *)

Attempted(state, n) == attempt[exec].state = state /\ sends[exec] = n

\* No verdict was given.
Silent == verdicts = {}

OneWorks == ~(Racers /\ stage = 2)

\* Only the first gateway works, on the one call of the stage.
LEMMA FirstServes ==
    ASSUME Context, Told, StageInv, OneWorks, NEW p \in Procs, Serves(p)
    PROVE  p = first /\ begun # {} /\ jpc[first] # "idle" /\ jpc[first] # "refusing"
  BY AtWork DEF Serves, OneWorks, StageInv, Last

LEMMA FirstReads ==
    ASSUME Context, Told, StageInv, OneWorks, Replays => Replied, Reads
    PROVE  /\ UNCHANGED <<backend, sender, reason, printed, stage>> /\ stage <= Last
           /\ begun = {} /\ begun' # {}
           /\ rows'[gw_execute].response = rows[gw_execute].response \/ stage = 2
           /\ IF Replays
              THEN /\ jpc'[first] = "printing" /\ jlocal'[first].kind \in JP!Final
                   /\ rows' = rows
              ELSE jpc'[first] = "dispatching"
  <1>1. PICK p \in Procs, i \in Ids, input \in Inputs :
           MayRead(p, i, input) /\ ReadRequest(p, i, input)
    BY DEF Reads
  <1>2. PICK c \in Calls \ begun : c.proc = p /\ c.id = i /\ begun' = begun \cup {c}
    BY <1>1, ReadsCall
  <1>3. /\ UNCHANGED <<backend, sender, reason, printed>> /\ stage' = stage /\ stage <= Last
        /\ \A j \in Ids : j # i => rows'[j] = rows[j]
    BY <1>1, ReadsCall
  <1>4. IF Replays
        THEN jpc'[p] = "printing" /\ jlocal'[p].kind \in JP!Final /\ rows' = rows
        ELSE jpc'[p] = "dispatching"
    BY <1>1, ReadsCall
  <1>5. p = first /\ begun = {} /\ begun' # {}
    BY <1>2, <1>3, TheCalls DEF Calls, StageInv, OneWorks, Last
  <1>6. i # gw_execute \/ stage = 2 \/ Replays
    BY <1>2, <1>3, TheCalls, FixtureAssumption DEF Calls, StageInv, OneWorks, Last, Told,
        ScenarioNames, Recovering, Racers, Replays
  <1>7. gw_execute \in Ids
    BY FixtureAssumption
  <1> QED
    BY <1>3, <1>4, <1>5, <1>6, <1>7

\* The fixture prepares the plan.
PrepareInv ==
    /\ Silent
    /\ IF begun = {} \/ jpc[first] = "dispatching"
       THEN prep[exec].state = "none" ELSE prep[exec].state = "prepared"
    /\ Attempted("none", 0)

LEMMA PrepareStays ==
    ASSUME Context, Told, StageInv, CalmInv, stage = 1, PrepareInv,
           [ChaosNext]_chaosVars, ~NextStage
    PROVE  PrepareInv'
  <1>1. OneWorks /\ ~Replays
    BY DEF OneWorks, Replays
  <1>2. CASE Reads
    <2>1. /\ begun = {} /\ jpc'[first] = "dispatching" /\ UNCHANGED <<prep, attempt, sends, verdicts>>
      BY <1>1, <1>2, FirstReads DEF backend
    <2> QED
      BY <2>1 DEF PrepareInv, Attempted, Silent
  <1>3. ASSUME Serves(first), UNCHANGED <<stage, begun>>
        PROVE  PrepareInv'
    <2>1. begun # {} /\ jpc[first] # "refusing" /\ Ask(first) = Asked("prepare") /\ first \in Procs
      BY <1>1, <1>3, FirstServes, AtWork, FixtureAssumption DEF Serves
    <2>2. CASE Works(first)
      <3>1. jpc[first] = "dispatching"
        BY <2>1, <2>2, MethodFrame DEF Works
      <3>2. prep[exec].state = "none"
        BY <3>1 DEF PrepareInv
      <3>3. /\ UNCHANGED <<attempt, sends, verdicts>>
            /\ epc[first] = "idle" => Goes(first, "compiling") /\ prep' = prep
            /\ epc[first] = "compiling" => Returns(first, Result) /\ prep'[exec].state = "prepared"
            /\ epc[first] \in {"idle", "compiling"}
        BY <2>1, <2>2, <3>2, PrepareSteps DEF Works
      <3> QED
        BY <1>3, <2>1, <3>1, <3>2, <3>3 DEF PrepareInv, Attempted, Silent, Goes, Returns, Result
    <2>3. CASE Tells(first)
      BY <1>3, <2>1, <2>3, TellsAnswer DEF Tells, PrepareInv, Attempted, Silent, backend
    <2>4. ~Killed(first)
      BY <1>3, <2>1, KillPoints DEF Killed, Serves
    <2> QED
      BY <1>3, <2>2, <2>3, <2>4 DEF Serves
  <1>4. CASE Outside /\ UNCHANGED <<stage, begun>>
    BY <1>4 DEF Outside, journal, PrepareInv, Attempted, Silent
  <1> QED
    BY <1>1, <1>2, <1>3, <1>4, ScriptSteps, FirstServes

\* The execution on its way: what it has done, and how far the script lets
\* it come.
Executing ==
    /\ epc[first] \in {"idle", "checking", "validated"} => Attempted("none", 0)
    /\ epc[first] = "claimed" =>
          Attempted("broadcast_started", 0) /\ scenario # "kill_before_broadcast"
    /\ epc[first] \in Sent =>
          /\ Attempted("broadcast_started", 1)
          /\ scenario \notin {"kill_before_broadcast", "kill_after_broadcast_intent"}
          /\ epc[first] = IF scenario = "definitive_rejection" THEN "rejected" ELSE "unknown"
          /\ scenario = "not_found_after_expiry" => chain[exec] = "unsent"

\* The execution of the script at its end.  A killed one has no answer.
Unanswered == jpc[first] = "idle" /\ rows[gw_execute].response = "none"

Executed ==
    CASE scenario = "kill_before_broadcast" -> Attempted("none", 0) /\ Unanswered
      [] scenario = "kill_after_broadcast_intent" -> Attempted("broadcast_started", 0)
      [] scenario = "kill_during_send_transaction" ->
            Attempted("broadcast_started", 1) /\ Unanswered
      [] scenario = "response_lost_after_acceptance" ->
            Attempted("needs_recovery", 1) /\ reason[gw_execute] = "uncertain"
      [] scenario = "definitive_rejection" ->
            Attempted("failed", 1) /\ reason[gw_execute] = "rejected"
      [] scenario = "not_found_after_expiry" ->
            Attempted("needs_recovery", 1) /\ chain[exec] = "unsent"
      [] scenario = "replay_after_restart" ->
            /\ Attempted("needs_recovery", 1)
            /\ \/ jpc[first] \in {"failing", "printing"} /\ jlocal[first].kind = "error"
               \/ jpc[first] = "idle" /\ Replied

ExecuteInv ==
    /\ Silent
    /\ prep[exec].state = "prepared"
    /\ IF begun = {} THEN Attempted("none", 0)
       ELSE IF jpc[first] = "dispatching" THEN Executing ELSE Executed

LEMMA ExecuteReads ==
    ASSUME Context, Told, StageInv, ~Racers, stage = 2, ExecuteInv, Reads
    PROVE  ExecuteInv'
  <1>1. OneWorks /\ ~Replays
    BY DEF OneWorks, Replays
  <1>2. /\ begun = {} /\ begun' # {} /\ jpc'[first] = "dispatching"
        /\ UNCHANGED <<prep, attempt, sends, verdicts, epc>>
    BY <1>1, FirstReads DEF backend
  <1>3. epc[first] = "idle"
    <2>1. jpc[first] = "idle"
      BY <1>2, FixtureAssumption DEF StageInv
    <2> QED
      BY <2>1, FixtureAssumption DEF Context, SystemInv, CoupledInv, Coupled
  <1> QED
    BY <1>2, <1>3 DEF ExecuteInv, Executing, Attempted, Silent, Sent

LEMMA ExecuteWorks ==
    ASSUME Context, Told, StageInv, CalmInv, ~Racers, stage = 2, ExecuteInv,
           Serves(first), Works(first), UNCHANGED <<scenario, stage, begun>>
    PROVE  ExecuteInv'
  <1>1. OneWorks /\ first \in Procs
    BY FixtureAssumption DEF OneWorks
  <1>2. /\ begun # {} /\ Ask(first) = Asked("authorize-and-execute")
        /\ jlocal[first].id = gw_execute /\ epc[first] # KillAt
    BY <1>1, FirstServes, AtWork, KillPoints, FixtureAssumption DEF Serves, Works
  <1>3. jpc[first] = "dispatching" /\ jpc[first] \in JP!Working
    BY <1>1, MethodFrame DEF Works, JP!Working
  <1>4. Now.send = Mode
    BY Stages DEF StageInv
  <1>5. prep[exec].state = "prepared" /\ Executing /\ Silent
    BY <1>2, <1>3 DEF ExecuteInv
  <1> DEFINE l == epc[first]
  <1>6. /\ UNCHANGED <<prep, verdicts>>
        /\ l \in {"idle", "checking", "validated", "claimed"} \cup Sent
        /\ l = "idle" => Goes(first, "checking") /\ UNCHANGED <<attempt, chain, sends>>
        /\ l = "checking" => Goes(first, "validated") /\ UNCHANGED <<attempt, chain, sends>>
        /\ l = "validated" =>
              /\ UNCHANGED <<chain, sends>>
              /\ IF attempt[exec].state = "none"
                 THEN Goes(first, "claimed") /\ attempt'[exec].state = "broadcast_started"
                 ELSE Returns(first, Error("refused")) /\ attempt' = attempt
        /\ l = "claimed" =>
              /\ attempt' = attempt /\ sends'[exec] = sends[exec] + 1
              /\ Goes(first, CASE Mode = "pass" -> "answered"
                               [] Mode = "reject_before_forward" -> "rejected"
                               [] OTHER -> "unknown")
              /\ Mode \in {"reject_before_forward", "drop_before_forward"} =>
                    chain'[exec] = "unsent"
        /\ l \in Sent /\ attempt[exec].state = "broadcast_started" =>
              /\ UNCHANGED <<chain, sends>>
              /\ l = "rejected" =>
                    Returns(first, Error("rejected")) /\ attempt'[exec].state = "failed"
              /\ l = "unknown" =>
                    Returns(first, Error("uncertain")) /\ attempt'[exec].state = "needs_recovery"
    BY <1>1, <1>2, <1>4, <1>5, ExecuteSteps DEF Works
  <1>7. Silent' /\ prep'[exec].state = "prepared" /\ begun' # {}
    BY <1>2, <1>5, <1>6 DEF Silent
  <1>8. CASE l \in {"idle", "checking"}
    <2>1. jpc'[first] = "dispatching" /\ epc'[first] \in {"checking", "validated"}
          /\ UNCHANGED <<attempt, sends>>
      BY <1>3, <1>6, <1>8 DEF Goes
    <2> QED
      BY <1>5, <1>7, <1>8, <2>1 DEF ExecuteInv, Executing, Attempted, Sent
  <1>9. CASE l = "validated"
    <2>1. Attempted("none", 0) /\ scenario # "kill_before_broadcast"
      BY <1>2, <1>5, <1>9 DEF Executing, KillAt
    <2>2. jpc'[first] = "dispatching" /\ epc'[first] = "claimed" /\ sends' = sends
          /\ attempt'[exec].state = "broadcast_started"
      BY <1>3, <1>6, <1>9, <2>1 DEF Goes, Attempted
    <2> QED
      BY <1>7, <2>1, <2>2 DEF ExecuteInv, Executing, Attempted, Sent
  <1>10. CASE l = "claimed"
    <2>1. Attempted("broadcast_started", 0)
          /\ scenario \notin {"kill_before_broadcast", "kill_after_broadcast_intent"}
      BY <1>2, <1>5, <1>10 DEF Executing, KillAt
    <2>2. jpc'[first] = "dispatching" /\ attempt' = attempt /\ sends'[exec] = 1
      BY <1>3, <1>6, <1>10, <2>1 DEF Goes, Attempted
    <2>3. epc'[first] = IF scenario = "definitive_rejection" THEN "rejected" ELSE "unknown"
      BY <1>6, <1>10, <2>1 DEF Goes, Mode, Told, ScenarioNames, Racers
    <2>4. scenario = "not_found_after_expiry" => chain'[exec] = "unsent"
      BY <1>6, <1>10 DEF Mode
    <2> QED
      BY <1>7, <2>1, <2>2, <2>3, <2>4 DEF ExecuteInv, Executing, Attempted, Sent
  <1>11. CASE l \in Sent
    <2>1. /\ Attempted("broadcast_started", 1)
          /\ scenario \in {"response_lost_after_acceptance", "definitive_rejection",
                           "not_found_after_expiry", "replay_after_restart"}
          /\ l = IF scenario = "definitive_rejection" THEN "rejected" ELSE "unknown"
          /\ scenario = "not_found_after_expiry" => chain[exec] = "unsent"
      BY <1>2, <1>5, <1>11 DEF Executing, KillAt, Told, ScenarioNames, Racers
    <2>2. /\ UNCHANGED <<chain, sends>> /\ jpc'[first] = "failing" /\ jlocal'[first].kind = "error"
          /\ IF scenario = "definitive_rejection"
             THEN attempt'[exec].state = "failed" /\ reason'[gw_execute] = "rejected"
             ELSE attempt'[exec].state = "needs_recovery" /\ reason'[gw_execute] = "uncertain"
      BY <1>2, <1>6, <1>11, <2>1 DEF Returns, Error, Attempted
    <2>3. Executed'
      BY <2>1, <2>2 DEF Executed, Attempted
    <2> QED
      BY <1>7, <2>2, <2>3 DEF ExecuteInv
  <1> QED
    BY <1>6, <1>8, <1>9, <1>10, <1>11

LEMMA ExecuteTells ==
    ASSUME Context, Told, StageInv, ~Racers, stage = 2, ExecuteInv,
           Serves(first), Tells(first), UNCHANGED <<scenario, stage, begun>>
    PROVE  ExecuteInv'
  <1>1. OneWorks /\ first \in Procs /\ ~Replays
    BY FixtureAssumption DEF OneWorks, Replays
  <1>2. /\ begun # {} /\ jpc[first] # "refusing" /\ jpc[first] # "idle"
        /\ jlocal[first].id = gw_execute /\ Ask(first) = Asked("authorize-and-execute")
    BY <1>1, FirstServes, AtWork, FixtureAssumption DEF Serves
  <1>3. ~jlocal[first].replayed
    BY <1>1, <1>2, AtWork
  <1>4. /\ UNCHANGED <<prep, attempt, chain, sends, verdicts, reason>>
        /\ \/ /\ jpc[first] \in {"completing", "failing"} /\ jpc'[first] = "printing"
              /\ jlocal'[first] = jlocal[first] /\ printed' = printed
           \/ /\ jpc[first] = "printing" /\ jpc'[first] = "idle"
              /\ printed' = printed \cup
                    {[id |-> jlocal[first].id, input |-> jlocal[first].input,
                      kind |-> jlocal[first].kind, replayed |-> jlocal[first].replayed]}
    BY <1>1, <1>2, TellsAnswer DEF Tells, backend
  <1>5. Executed /\ ~Unanswered /\ jpc'[first] # "dispatching"
    BY <1>2, <1>4 DEF ExecuteInv, Unanswered
  <1>6. jpc[first] = "printing" /\ jlocal[first].kind = "error" => Replied'
    <2> SUFFICES ASSUME jpc[first] = "printing", jlocal[first].kind = "error"
                 PROVE  Replied'
      OBVIOUS
    <2> DEFINE a == [id |-> jlocal[first].id, input |-> jlocal[first].input,
                     kind |-> jlocal[first].kind, replayed |-> jlocal[first].replayed]
    <2>1. a \in printed'
      BY <1>4
    <2>2. ReplyTo(a) /\ ~a.replayed
      BY <1>2, <1>3 DEF ReplyTo, Ask, JP!Final
    <2> HIDE DEF a
    <2> QED
      BY <2>1, <2>2 DEF Replied, ReplyTo
  <1>7. Executed'
    BY <1>2, <1>4, <1>5, <1>6 DEF Executed, Attempted, Told, ScenarioNames, Racers
  <1> QED
    BY <1>2, <1>4, <1>5, <1>7 DEF ExecuteInv, Silent

LEMMA ExecuteKilled ==
    ASSUME Context, Told, StageInv, ~Racers, stage = 2, ExecuteInv,
           Serves(first), Killed(first), UNCHANGED <<scenario, stage, begun>>
    PROVE  ExecuteInv'
  <1>1. OneWorks /\ first \in Procs
    BY FixtureAssumption DEF OneWorks
  <1>2. begun # {} /\ jlocal[first].id = gw_execute /\ epc[first] = KillAt
    BY <1>1, FirstServes, AtWork, KillPoints, FixtureAssumption DEF Serves, Killed
  <1>3. /\ UNCHANGED <<rows, prep, attempt, chain, sends, verdicts>> /\ jpc'[first] = "idle"
    BY <1>1, KilledStays
  <1>4. KillAt # "never" /\ KillAt # "idle"
    <2>1. epc[first] \in EP!Locations
      BY <1>1 DEF Context, Halves, EP!Typed, EP!TypeOK
    <2> QED
      BY <1>2, <2>1 DEF KillAt, EP!Locations
  <1>5. jpc[first] = "dispatching"
    BY <1>1, <1>2, <1>4 DEF Context, SystemInv, CoupledInv, Coupled
  <1>6. Executing /\ Silent /\ prep[exec].state = "prepared"
    BY <1>2, <1>5 DEF ExecuteInv
  <1>7. rows[gw_execute].response = "none"
    BY <1>1, <1>2, <1>5, OneWorker DEF Context, JP!Working
  <1>8. Executed'
    BY <1>2, <1>3, <1>4, <1>6, <1>7 DEF Executing, Executed, KillAt, Attempted, Sent, Unanswered
  <1> QED
    BY <1>2, <1>3, <1>6, <1>8 DEF ExecuteInv, Silent

LEMMA ExecuteStays ==
    ASSUME Context, Told, StageInv, CalmInv, ~Racers, stage = 2, ExecuteInv,
           [ChaosNext]_chaosVars, ~NextStage
    PROVE  ExecuteInv'
  <1>1. OneWorks /\ scenario' = scenario
    BY ScriptSteps DEF OneWorks
  <1>2. CASE Outside /\ UNCHANGED <<stage, begun>>
    <2>1. UNCHANGED <<scenario, begun, rows, printed, jpc, jlocal, prep, attempt, sends, verdicts,
                      epc, reason>>
      BY <1>1, <1>2 DEF Outside, journal
    <2>2. chain[exec] = "unsent" => chain'[exec] = "unsent"
      BY <1>2 DEF Outside
    <2>3. Executing => Executing'
      BY <2>1, <2>2 DEF Executing, Attempted
    <2>4. Replied => Replied'
      BY <2>1 DEF Replied, ReplyTo
    <2>5. Executed => Executed'
      BY <2>1, <2>2, <2>4 DEF Executed, Attempted, Unanswered, Told, ScenarioNames, Racers
    <2>6. /\ begun' = begun /\ jpc' = jpc /\ Silent' = Silent /\ prep' = prep
          /\ attempt' = attempt /\ sends' = sends
      BY <2>1 DEF Silent
    <2> QED
      BY <2>3, <2>5, <2>6 DEF ExecuteInv, Attempted
  <1> QED
    BY <1>1, <1>2, ScriptSteps, FirstServes, ExecuteReads, ExecuteWorks, ExecuteTells,
       ExecuteKilled DEF Serves
-----------------------------------------------------------------------------
(* The stage that looks at what the execution left                         *)

\* A method gives a reason for its own id only.
LEMMA OtherReasons ==
    ASSUME Context, NEW p \in Procs, Method(p), NEW i \in Ids, i # jlocal[p].id
    PROVE  reason'[i] = reason[i]
  <1>1. DOMAIN reason = Ids
    BY DEF Context, AnswersInv
  <1>2. reason' = reason \/ \E e : reason' = [reason EXCEPT ![jlocal[p].id] = e]
    BY DEF Method, CallMethod, EndMethod, MethodStep, RunOn, ReturnWith
  <1> QED
    BY <1>1, <1>2

\* The first gateway answers the one call of the last stage, and nothing
\* kills it.
LEMMA ThirdServes ==
    ASSUME Context, Told, StageInv, stage = 3, NEW p \in Procs, Serves(p)
    PROVE  /\ p = first /\ begun # {} /\ ~Racers
           /\ jpc[first] # "idle" /\ jpc[first] # "refusing"
           /\ jlocal[first].id = Checks.id /\ Ask(first) = Checks.input
           /\ jlocal[first].replayed <=> Replays
           /\ Works(first) \/ Tells(first)
  <1>1. OneWorks
    BY DEF OneWorks
  <1>2. p = first /\ begun # {} /\ jpc[first] # "idle" /\ jpc[first] # "refusing"
    BY <1>1, FirstServes
  <1>3. ~Killed(p)
    BY <1>2, KillPoints DEF Killed
  <1> QED
    BY <1>2, <1>3, AtWork DEF Serves

\* Nothing was claimed, and nobody was told.
StatusInv ==
    /\ Silent
    /\ prep[exec].state # "none" /\ Attempted("none", 0)
    /\ rows[gw_execute].response = "none"
    /\ Inspects(first)

LEMMA StatusStays ==
    ASSUME Context, Told, StageInv, scenario = "kill_before_broadcast", stage = 3, StatusInv,
           [ChaosNext]_chaosVars, ~NextStage
    PROVE  StatusInv'
  <1>1. OneWorks /\ ~Replays /\ first \in Procs /\ gw_execute \in Ids
    BY FixtureAssumption DEF OneWorks, Replays
  <1>2. CASE Reads
    <2>1. /\ UNCHANGED <<prep, attempt, sends, verdicts, epc, elocal>>
          /\ rows'[gw_execute].response = rows[gw_execute].response
      BY <1>1, <1>2, FirstReads DEF backend
    <2> QED
      BY <2>1 DEF StatusInv, Attempted, Silent, Inspects
  <1>3. ASSUME NEW p \in Procs, Serves(p)
        PROVE  StatusInv'
    <2>1. /\ Ask(first) = Asked("status") /\ jlocal[first].id # gw_execute
          /\ jpc[first] # "refusing"
          /\ Works(first) \/ Tells(first)
      BY <1>3, ThirdServes, TheCalls, FixtureAssumption
    <2>2. CASE Works(first)
      <3>1. /\ UNCHANGED <<attempt, sends, verdicts>> /\ prep'[exec].state # "none"
            /\ Inspects(first)'
        BY <1>1, <2>1, <2>2, StatusSteps DEF Works, StatusInv, Attempted
      <3>2. rows' = rows
        BY <1>1, <2>2, MethodFrame DEF Works
      <3> QED
        BY <3>1, <3>2 DEF StatusInv, Attempted, Silent
    <2>3. CASE Tells(first)
      <3>1. /\ UNCHANGED <<prep, attempt, sends, verdicts, epc, elocal>>
            /\ rows'[gw_execute] = rows[gw_execute]
        BY <1>1, <2>1, <2>3, TellsAnswer DEF Tells, backend
      <3> QED
        BY <3>1 DEF StatusInv, Attempted, Silent, Inspects
    <2> QED
      BY <2>1, <2>2, <2>3
  <1>4. CASE Outside
    BY <1>4 DEF Outside, journal, StatusInv, Attempted, Silent, Inspects
  <1> QED
    BY <1>2, <1>3, <1>4, ScriptSteps

\* The rejection is recorded, and evidence finds its request.
EvidenceInv ==
    /\ Silent
    /\ prep[exec].state # "none" /\ Attempted("failed", 1)
    /\ reason[gw_execute] = "rejected"
    /\ begun # {} => \/ jpc[first] = "dispatching"
                     \/ jpc[first] = "completing" /\ jlocal[first].kind = "result"
                     \/ rows[gw_evidence].response = "result"

LEMMA EvidenceStays ==
    ASSUME Context, Told, StageInv, scenario = "definitive_rejection", stage = 3, EvidenceInv,
           [ChaosNext]_chaosVars, ~NextStage
    PROVE  EvidenceInv'
  <1>1. OneWorks /\ ~Replays /\ first \in Procs /\ {gw_execute, gw_evidence} \subseteq Ids
    BY FixtureAssumption DEF OneWorks, Replays
  <1>2. CASE Reads
    <2>1. UNCHANGED <<prep, attempt, sends, verdicts, reason>> /\ jpc'[first] = "dispatching"
      BY <1>1, <1>2, FirstReads DEF backend
    <2> QED
      BY <2>1 DEF EvidenceInv, Attempted, Silent
  <1>3. ASSUME NEW p \in Procs, Serves(p)
        PROVE  EvidenceInv'
    <2>1. /\ Ask(first) = Asked("evidence") /\ jlocal[first].id = gw_evidence
          /\ gw_evidence # gw_execute /\ begun # {}
          /\ jpc[first] # "refusing"
          /\ Works(first) \/ Tells(first)
      BY <1>3, ThirdServes, TheCalls, FixtureAssumption
    <2>2. CASE Works(first)
      <3>1. UNCHANGED <<prep, attempt, sends, verdicts>> /\ Returns(first, Result)
        BY <1>1, <2>1, <2>2, EvidenceSteps DEF Works, EvidenceInv
      <3>2. reason'[gw_execute] = reason[gw_execute]
        BY <1>1, <2>1, <2>2, OtherReasons DEF Works
      <3> QED
        BY <3>1, <3>2 DEF EvidenceInv, Attempted, Silent, Returns, Result
    <2>3. CASE Tells(first)
      <3>1. /\ UNCHANGED <<prep, attempt, sends, verdicts, reason>>
            /\ \/ /\ jpc[first] \in {"completing", "failing"} /\ jpc'[first] = "printing"
                  /\ rows'[gw_evidence].response = jlocal[first].kind
               \/ jpc[first] = "printing" /\ jpc'[first] = "idle" /\ rows' = rows
        BY <1>1, <2>1, <2>3, TellsAnswer DEF Tells, backend
      <3>2. \/ jpc[first] = "completing" /\ jlocal[first].kind = "result"
            \/ rows[gw_evidence].response = "result"
        BY <2>1, <3>1 DEF EvidenceInv
      <3>3. rows'[gw_evidence].response = "result"
        <4>1. rows[gw_evidence].response = "none" \/ jpc[first] = "printing"
          BY <1>1, <2>1, <3>1, OneWorker DEF Context, JP!Working
        <4> QED
          BY <3>1, <3>2, <4>1
      <3> QED
        BY <3>1, <3>3 DEF EvidenceInv, Attempted, Silent
    <2> QED
      BY <2>1, <2>2, <2>3
  <1>4. CASE Outside /\ UNCHANGED begun
    BY <1>4 DEF Outside, journal, EvidenceInv, Attempted, Silent
  <1> QED
    BY <1>2, <1>3, <1>4, ScriptSteps

\* The request is answered from the journal.
ReplayInv ==
    /\ Silent
    /\ sends[exec] = 1 /\ Replied
    /\ begun # {} => \/ jpc[first] = "printing" /\ jlocal[first].kind \in JP!Final
                     \/ jpc[first] = "idle" /\ Repeated

LEMMA ReplayStays ==
    ASSUME Context, Told, StageInv, Replays, ReplayInv, [ChaosNext]_chaosVars, ~NextStage
    PROVE  ReplayInv'
  <1>1. OneWorks /\ first \in Procs /\ stage = 3 /\ Replied
    BY FixtureAssumption DEF OneWorks, Replays, ReplayInv
  <1>2. CASE Reads
    <2>1. /\ UNCHANGED <<sends, verdicts, printed>>
          /\ jpc'[first] = "printing" /\ jlocal'[first].kind \in JP!Final
      BY <1>1, <1>2, FirstReads DEF backend
    <2>2. Replied'
      BY <1>1, <2>1 DEF Replied, ReplyTo
    <2> QED
      BY <2>1, <2>2 DEF ReplayInv, Silent
  <1>3. ASSUME NEW p \in Procs, Serves(p)
        PROVE  ReplayInv'
    <2>1. /\ Ask(first) = Asked("authorize-and-execute") /\ jlocal[first].id = gw_execute
          /\ jlocal[first].replayed /\ begun # {} /\ jpc[first] # "idle"
          /\ jpc[first] # "refusing"
          /\ Works(first) \/ Tells(first)
      BY <1>1, <1>3, ThirdServes, TheCalls DEF Replays
    <2>2. jpc[first] = "printing" /\ jlocal[first].kind \in JP!Final
      BY <2>1 DEF ReplayInv
    <2>3. Tells(first)
      BY <1>1, <2>1, <2>2, MethodFrame DEF Works
    <2> DEFINE a == [id |-> jlocal[first].id, input |-> jlocal[first].input,
                     kind |-> jlocal[first].kind, replayed |-> jlocal[first].replayed]
    <2>4. /\ UNCHANGED <<sends, verdicts>> /\ jpc'[first] = "idle"
          /\ printed' = printed \cup {a}
      BY <1>1, <2>1, <2>2, <2>3, TellsAnswer DEF Tells, backend
    <2>5. ReplyTo(a) /\ a.replayed
      BY <2>1, <2>2 DEF ReplyTo, Ask
    <2> HIDE DEF a
    <2>6. Replied' /\ Repeated'
      BY <1>1, <2>4, <2>5 DEF Replied, Repeated, ReplyTo
    <2> QED
      BY <2>4, <2>6 DEF ReplayInv, Silent
  <1>4. CASE Outside /\ UNCHANGED begun
    <2>1. UNCHANGED <<jpc, jlocal, printed, sends, verdicts, begun>>
      BY <1>4 DEF Outside, journal
    <2>2. Replied' /\ (Repeated => Repeated')
      BY <1>1, <2>1 DEF Replied, Repeated, ReplyTo
    <2> QED
      BY <2>1, <2>2 DEF ReplayInv, Silent
  <1> QED
    BY <1>2, <1>3, <1>4, ScriptSteps
-----------------------------------------------------------------------------
\* What recovery finds: an attempt that it may settle as the cluster does, or,
\* where the transaction never arrived, can only leave open.
RecoverInv ==
    /\ Recovers(first) /\ TrueFailures(first)
    /\ sends[exec] = IF scenario = "kill_after_broadcast_intent" THEN 0 ELSE 1
    /\ scenario = "response_lost_after_acceptance" => reason[gw_execute] = "uncertain"
    /\ scenario = "kill_during_send_transaction" => rows[gw_execute].response = "none"
    /\ scenario \in {"kill_after_broadcast_intent", "not_found_after_expiry"} =>
          /\ Unaware(first)
          /\ begun # {} /\ jpc[first] # "dispatching" => Absent

LEMMA RecoverStays ==
    ASSUME Context, Told, StageInv, scenario \in Recovering, stage = 3, RecoverInv,
           [ChaosNext]_chaosVars, ~NextStage
    PROVE  RecoverInv'
  <1>1. OneWorks /\ ~Replays /\ first \in Procs /\ gw_execute \in Ids /\ exec \in Requests
    BY FixtureAssumption DEF OneWorks, Replays, Recovering
  <1>2. scenario' = scenario
    BY ScriptSteps
  <1>3. ASSUME UNCHANGED <<prep, attempt, chain, sends, verdicts, epc, elocal, reason>>,
               rows'[gw_execute].response = rows[gw_execute].response,
               begun' # {} /\ jpc'[first] # "dispatching"
                  => begun # {} /\ jpc[first] # "dispatching"
        PROVE  RecoverInv'
    BY <1>2, <1>3 DEF RecoverInv, Recovers, TrueFailures, Unaware, Absent, MayRematerialize, Undone
  <1>4. CASE Reads
    BY <1>1, <1>3, <1>4, FirstReads DEF backend
  <1>5. ASSUME NEW p \in Procs, Serves(p), UNCHANGED begun
        PROVE  RecoverInv'
    <2>1. /\ Ask(first) = Asked("recover") /\ jlocal[first].id # gw_execute
          /\ jpc[first] # "refusing" /\ begun # {}
          /\ Works(first) \/ Tells(first)
      BY <1>5, ThirdServes, TheCalls, FixtureAssumption
    <2>2. CASE Works(first)
      <3>1. /\ UNCHANGED sends
            /\ Recovers(first)' /\ TrueFailures(first)'
            /\ Unaware(first) => Unaware(first)' /\ (epc'[first] = "idle" => Absent')
            /\ IF epc'[first] = "idle" THEN Returns(first, Result) ELSE Goes(first, epc'[first])
        BY <1>1, <2>1, <2>2, RecoverSteps DEF Works, RecoverInv
      <3>2. /\ rows' = rows /\ reason'[gw_execute] = reason[gw_execute]
            /\ jpc[first] = "dispatching"
        BY <1>1, <2>1, <2>2, OtherReasons, MethodFrame DEF Works
      <3>3. epc'[first] # "idle" => jpc'[first] = "dispatching"
        BY <3>1, <3>2 DEF Goes
      <3> QED
        BY <1>2, <3>1, <3>2, <3>3 DEF RecoverInv
    <2>3. CASE Tells(first)
      <3>1. /\ UNCHANGED <<prep, attempt, chain, sends, verdicts, epc, elocal, reason>>
            /\ rows'[gw_execute] = rows[gw_execute] /\ jpc[first] # "dispatching"
        BY <1>1, <2>1, <2>3, TellsAnswer DEF Tells, backend
      <3> QED
        BY <1>3, <2>1, <3>1
    <2> QED
      BY <2>1, <2>2, <2>3
  <1>6. CASE Outside /\ UNCHANGED begun
    <2>1. /\ UNCHANGED <<rows, jpc, prep, attempt, sends, verdicts, epc, elocal, reason, begun>>
          /\ chain[exec] = "unsent" => chain'[exec] = "unsent"
          /\ Undone => Undone'
      BY <1>6 DEF Outside, journal
    <2>2. TrueFailures(first) => TrueFailures(first)'
      BY <2>1 DEF TrueFailures, MayRematerialize
    <2>3. Recovers(first) => Recovers(first)'
      BY <2>1 DEF Recovers
    <2>4. (Unaware(first) => Unaware(first)') /\ (Absent => Absent')
      BY <2>1 DEF Unaware, Absent
    <2>5. begun' = begun /\ jpc' = jpc /\ sends' = sends /\ reason' = reason /\ rows' = rows
      BY <2>1
    <2> QED
      BY <1>2, <2>2, <2>3, <2>4, <2>5 DEF RecoverInv
  <1> QED
    BY <1>4, <1>5, <1>6, ScriptSteps

-----------------------------------------------------------------------------
(* Two gateways race                                                       *)

Begun(i) == \E c \in begun : c.id = i

\* The process p answers kind under the id i.
Says(p, i, kind) ==
    \/ jpc[p] \in {"completing", "failing"} /\ jlocal[p].kind = kind
    \/ jpc[p] \in {"printing", "idle"} /\ rows[i].response = kind

\* It has not tried to claim; it holds the attempt; it came too late.
Racing(p, i) ==
    Begun(i) => jpc[p] = "dispatching" /\ epc[p] \in {"idle", "checking", "validated"}

Won(p, i) ==
    /\ Begun(i)
    /\ \/ epc[p] = "claimed" /\ jpc[p] = "dispatching" /\ Attempted("broadcast_started", 0)
       \/ epc[p] = "answered" /\ jpc[p] = "dispatching" /\ Attempted("broadcast_started", 1)
       \/ Says(p, i, "result") /\ Attempted("submitted", 1)

Lost(p, i) == Begun(i) /\ Says(p, i, "error")

\* p races with q: one has won at most.
Race(p, i, q, j) ==
    \/ Attempted("none", 0) /\ Racing(p, i) /\ Racing(q, j)
    \/ Won(p, i) /\ (Racing(q, j) \/ Lost(q, j))
    \/ Won(q, j) /\ (Racing(p, i) \/ Lost(p, i))

RaceInv ==
    /\ Silent
    /\ prep[exec].state = "prepared"
    /\ Race(first, gw_execute, second, gw_execute_competing)

\* A step of p, of which q sees nothing.
LEMMA RaceServes ==
    ASSUME Context, Told, StageInv, CalmInv, stage = 2, Racers, prep[exec].state = "prepared",
           NEW p \in Procs, NEW i \in Ids, NEW q \in Procs, NEW j \in Ids, p # q, i # j,
           Serves(p), jlocal[p].id = i, Begun(i), Race(p, i, q, j),
           Silent, UNCHANGED <<stage, begun>>
    PROVE  Silent' /\ prep'[exec].state = "prepared" /\ Race(p, i, q, j)'
  <1>1. /\ Ask(p) = Asked("authorize-and-execute") /\ jpc[p] # "refusing" /\ jpc[p] # "idle"
    BY AtWork DEF Serves
  <1>2. Begun(i)' /\ (Begun(j)' <=> Begun(j))
    BY DEF Begun
  <1>3. /\ jpc'[q] = jpc[q] /\ jlocal'[q] = jlocal[q] /\ epc'[q] = epc[q]
        /\ rows'[j] = rows[j]
    BY ServesStays DEF OthersStay
  <1>4. (Racing(q, j) => Racing(q, j)') /\ (Lost(q, j) => Lost(q, j)')
    BY <1>2, <1>3 DEF Racing, Lost, Says
  <1>5. UNCHANGED <<attempt, sends>> /\ Won(q, j) => Won(q, j)'
    BY <1>2, <1>3 DEF Won, Says, Attempted
  <1>6. CASE Works(p)
    <2>1. jpc[p] = "dispatching"
      BY <1>6, MethodFrame DEF Works
    <2>2. Mode = "pass"
      BY DEF Mode, Racers
    <2>3. Now.send = Mode
      BY Stages DEF StageInv
    <2> DEFINE l == epc[p]
    <2>4. /\ UNCHANGED <<prep, verdicts>>
          /\ l \in {"idle", "checking", "validated", "claimed"} \cup Sent
          /\ l = "idle" => Goes(p, "checking") /\ UNCHANGED <<attempt, chain, sends>>
          /\ l = "checking" => Goes(p, "validated") /\ UNCHANGED <<attempt, chain, sends>>
          /\ l = "validated" =>
                /\ UNCHANGED <<chain, sends>>
                /\ IF attempt[exec].state = "none"
                   THEN Goes(p, "claimed") /\ attempt'[exec].state = "broadcast_started"
                   ELSE Returns(p, Error("refused")) /\ attempt' = attempt
          /\ l = "claimed" =>
                /\ attempt' = attempt /\ sends'[exec] = sends[exec] + 1
                /\ Goes(p, "answered")
          /\ l \in Sent /\ attempt[exec].state = "broadcast_started" =>
                /\ UNCHANGED <<chain, sends>>
                /\ l = "answered" => Returns(p, Result) /\ attempt'[exec].state = "submitted"
      BY <1>1, <1>6, <2>2, <2>3, ExecuteSteps DEF Works
    <2>5. Silent' /\ prep'[exec].state = "prepared"
      BY <2>4 DEF Silent
    <2>6. \/ l \in {"idle", "checking", "validated"} /\ Racing(p, i)
          \/ l \in {"claimed", "answered"} /\ Won(p, i) /\ (Racing(q, j) \/ Lost(q, j))
      BY <2>1 DEF Race, Racing, Won, Lost, Says
    <2>7. CASE l \in {"idle", "checking"}
      <3>1. Racing(p, i)' /\ UNCHANGED <<attempt, sends>>
        BY <2>1, <2>4, <2>7 DEF Goes, Racing
      <3>2. ~Won(p, i)
        BY <2>1, <2>7 DEF Won, Says
      <3>3. Attempted("none", 0) => Attempted("none", 0)'
        BY <3>1 DEF Attempted
      <3> QED
        BY <1>4, <1>5, <2>5, <3>1, <3>2, <3>3 DEF Race
    <2>8. CASE l = "validated"
      <3>1. sends' = sends /\ ~Won(p, i)
        BY <2>1, <2>4, <2>8 DEF Won, Says
      <3>2. CASE attempt[exec].state = "none"
        <4>1. ~Won(q, j)
          BY <3>2 DEF Won, Attempted
        <4>2. Attempted("none", 0) /\ Racing(q, j)
          BY <3>1, <4>1 DEF Race
        <4>3. Won(p, i)'
          BY <1>2, <2>1, <2>4, <2>8, <3>1, <3>2, <4>2 DEF Won, Attempted, Goes
        <4> QED
          BY <1>4, <2>5, <4>2, <4>3 DEF Race
      <3>3. CASE attempt[exec].state # "none"
        <4>1. Won(q, j)
          BY <3>1, <3>3 DEF Race, Attempted
        <4>2. attempt' = attempt /\ Lost(p, i)'
          BY <1>2, <2>4, <2>8, <3>3 DEF Returns, Error, Lost, Says
        <4> QED
          BY <1>5, <2>5, <3>1, <4>1, <4>2 DEF Race
      <3> QED
        BY <3>2, <3>3
    <2>9. CASE l = "claimed"
      <3>1. Attempted("broadcast_started", 0) /\ (Racing(q, j) \/ Lost(q, j))
        BY <2>1, <2>6, <2>9 DEF Won, Says
      <3>2. Won(p, i)'
        BY <1>2, <2>1, <2>4, <2>9, <3>1 DEF Won, Attempted, Goes
      <3> QED
        BY <1>4, <2>5, <3>1, <3>2 DEF Race
    <2>10. CASE l = "answered"
      <3>1. Attempted("broadcast_started", 1) /\ (Racing(q, j) \/ Lost(q, j))
        BY <2>1, <2>6, <2>10 DEF Won, Says
      <3>2. Won(p, i)'
        BY <1>2, <2>4, <2>10, <3>1 DEF Won, Attempted, Returns, Result, Says, Sent
      <3> QED
        BY <1>4, <2>5, <3>1, <3>2 DEF Race
    <2> QED
      BY <2>6, <2>7, <2>8, <2>9, <2>10
  <1>7. CASE Tells(p)
    <2>1. /\ UNCHANGED <<prep, attempt, sends, verdicts, epc>> /\ epc[p] = "idle"
          /\ \/ /\ jpc[p] \in {"completing", "failing"} /\ jpc'[p] = "printing"
                /\ rows'[i].response = jlocal[p].kind
             \/ jpc[p] = "printing" /\ jpc'[p] = "idle" /\ rows' = rows
      BY <1>1, <1>7, TellsAnswer DEF Tells, backend
    <2>2. ASSUME NEW kind, Says(p, i, kind)
          PROVE  Says(p, i, kind)'
      BY <2>1, <2>2 DEF Says
    <2>3. ~Racing(p, i)
      BY <2>1 DEF Racing
    <2>4. (Won(p, i) => Won(p, i)') /\ (Lost(p, i) => Lost(p, i)')
      BY <1>2, <2>1, <2>2 DEF Won, Lost, Attempted
    <2> QED
      BY <1>4, <1>5, <2>1, <2>3, <2>4 DEF Race, Silent
  <1>8. ~Killed(p)
    <2>1. epc[p] # "never"
      BY DEF Context, Halves, EP!Typed, EP!TypeOK, EP!Locations
    <2> QED
      BY <1>1, <2>1, KillPoints DEF Killed, KillAt, Racers
  <1> QED
    BY <1>6, <1>7, <1>8 DEF Serves

LEMMA RaceReads ==
    ASSUME Context, Told, StageInv, stage = 2, Racers,
           NEW p \in Procs, NEW i \in Ids, NEW q \in Procs, NEW j \in Ids, p # q, i # j,
           NEW input \in Inputs, MayRead(p, i, input), ReadRequest(p, i, input),
           Race(p, i, q, j)
    PROVE  Race(p, i, q, j)'
  <1>1. ~Replays
    BY DEF Replays
  <1>2. /\ jpc[p] = "idle" /\ OthersStay(p) /\ UNCHANGED <<attempt, sends, epc>>
        /\ \E c \in Calls \ begun : c.id = i /\ begun' = begun \cup {c}
        /\ rows'[j] = rows[j] /\ jpc'[p] = "dispatching"
    BY <1>1, ReadsCall DEF backend
  <1>3. Begun(i)' /\ (Begun(j)' <=> Begun(j)) /\ ~Begun(i)
    <2>1. \A c, d \in Calls : c.id = d.id => c = d
      BY TheCalls, FixtureAssumption DEF Calls
    <2>2. begun \subseteq Calls
      BY DEF StageInv
    <2> QED
      BY <1>2, <2>1, <2>2 DEF Begun
  <1>4. epc[p] = "idle"
    BY <1>2 DEF Context, SystemInv, CoupledInv, Coupled
  <1>5. Racing(p, i)' /\ ~Won(p, i) /\ ~Lost(p, i)
    BY <1>2, <1>3, <1>4 DEF Racing, Won, Lost
  <1>6. /\ jpc'[q] = jpc[q] /\ jlocal'[q] = jlocal[q] /\ epc'[q] = epc[q]
    BY <1>2 DEF OthersStay
  <1>7. (Racing(q, j) => Racing(q, j)') /\ (Won(q, j) => Won(q, j)')
    BY <1>2, <1>3, <1>6 DEF Racing, Won, Says, Attempted
  <1>8. Attempted("none", 0) => Attempted("none", 0)'
    BY <1>2 DEF Attempted
  <1> QED
    BY <1>5, <1>7, <1>8 DEF Race
-----------------------------------------------------------------------------
LEMMA RaceStays ==
    ASSUME Context, Told, StageInv, CalmInv, stage = 2, Racers, RaceInv,
           [ChaosNext]_chaosVars, ~NextStage
    PROVE  RaceInv'
  <1> DEFINE This == Race(first, gw_execute, second, gw_execute_competing)
             That == Race(second, gw_execute_competing, first, gw_execute)
  <1>1. /\ first \in Procs /\ second \in Procs /\ first # second
        /\ gw_execute \in Ids /\ gw_execute_competing \in Ids /\ gw_execute # gw_execute_competing
    BY FixtureAssumption
  <1>2. This /\ That /\ (That' => This') /\ Silent /\ prep[exec].state = "prepared"
    BY DEF RaceInv, Race
  <1>3. CASE Reads
    <2>1. PICK p \in Procs, i \in Ids, input \in Inputs :
             MayRead(p, i, input) /\ ReadRequest(p, i, input)
      BY <1>3 DEF Reads
    <2>2. UNCHANGED <<prep, verdicts>>
      BY <2>1 DEF ReadRequest, backend
    <2>3. \E c \in Calls : c.proc = p /\ c.id = i
      <3>1. ~Replays
        BY DEF Replays
      <3> QED
        BY <2>1, <3>1, ReadsCall
    <2>4. \/ p = first /\ i = gw_execute
          \/ p = second /\ i = gw_execute_competing
      BY <2>3, TheCalls DEF Calls
    <2>5. CASE p = first /\ i = gw_execute
      BY <1>1, <1>2, <2>1, <2>2, <2>5, RaceReads DEF RaceInv, Silent
    <2>6. CASE p = second /\ i = gw_execute_competing
      BY <1>1, <1>2, <2>1, <2>2, <2>6, RaceReads DEF RaceInv, Silent
    <2> QED
      BY <2>4, <2>5, <2>6
  <1>4. ASSUME NEW p \in Procs, Serves(p), UNCHANGED <<stage, begun>>
        PROVE  RaceInv'
    <2>1. /\ Begun(jlocal[p].id)
          /\ \/ p = first /\ jlocal[p].id = gw_execute
             \/ p = second /\ jlocal[p].id = gw_execute_competing
      <3>1. PICK c \in begun : Serving(p, c)
        BY <1>4 DEF Serves, StageInv
      <3> QED
        BY <1>4, <3>1, AtWork DEF Serves, Serving, Begun
    <2>2. CASE p = first /\ jlocal[p].id = gw_execute
      BY <1>1, <1>2, <1>4, <2>1, <2>2, RaceServes DEF RaceInv
    <2>3. CASE p = second /\ jlocal[p].id = gw_execute_competing
      BY <1>1, <1>2, <1>4, <2>1, <2>3, RaceServes DEF RaceInv
    <2> QED
      BY <2>1, <2>2, <2>3
  <1>5. CASE Outside /\ UNCHANGED begun
    <2>1. UNCHANGED <<prep, attempt, sends, verdicts, epc, jpc, jlocal, rows, begun>>
      BY <1>5 DEF Outside, journal
    <2> QED
      BY <2>1 DEF RaceInv, Race, Racing, Won, Lost, Says, Begun, Attempted, Silent
  <1> QED
    BY <1>3, <1>4, <1>5, ScriptSteps

-----------------------------------------------------------------------------
(* From stage to stage                                                     *)

\* What holds in the stages of each script, and after its last one.
ThirdInv ==
    /\ scenario = "kill_before_broadcast" => StatusInv
    /\ scenario = "definitive_rejection" => EvidenceInv
    /\ scenario = "replay_after_restart" => ReplayInv
    /\ scenario \in Recovering => RecoverInv

PhaseInv ==
    /\ stage = 1 => PrepareInv
    /\ stage = 2 => IF Racers THEN RaceInv ELSE ExecuteInv
    /\ stage = 3 /\ ~Racers => ThirdInv
    /\ stage > Last => ScenariosEndAsDocumented

Story == scenario \in Scenarios /\ (Told => StageInv /\ CalmInv /\ PhaseInv)

\* When the next stage begins, every process is idle and the calls are done.
LEMMA StageOver ==
    ASSUME Context, Told, StageInv, NextStage
    PROVE  /\ UNCHANGED <<vars, scenario>> /\ stage' = stage + 1 /\ begun' = {}
           /\ begun = Calls /\ stage <= Last
           /\ \A p \in Procs : jpc[p] = "idle" /\ epc[p] = "idle"
           /\ first \in Procs /\ second \in Procs
  <1>1. Scripted /\ begun = Now.calls /\ \A p \in Procs : jpc[p] = "idle"
    BY DEF NextStage
  <1>2. \A p \in Procs : epc[p] = "idle"
    BY <1>1 DEF Context, SystemInv, CoupledInv, Coupled
  <1> QED
    BY <1>1, <1>2, Stages, FixtureAssumption DEF NextStage, StageInv

LEMMA PreparedNext ==
    ASSUME Context, Told, StageInv, stage = 1, PrepareInv, NextStage
    PROVE  IF Racers THEN RaceInv' ELSE ExecuteInv'
  <1>1. UNCHANGED <<prep, attempt, sends, verdicts>> /\ begun' = {} /\ begun = Calls
        /\ jpc[first] = "idle"
    BY StageOver DEF vars, backend
  <1>2. begun # {}
    BY <1>1 DEF Calls
  <1>3. Silent' /\ prep'[exec].state = "prepared" /\ Attempted("none", 0)'
    BY <1>1, <1>2 DEF PrepareInv, Attempted, Silent
  <1> QED
    BY <1>1, <1>3 DEF RaceInv, Race, Racing, Begun, ExecuteInv

LEMMA ExecutedNext ==
    ASSUME Context, Told, StageInv, stage = 2, ~Racers, ExecuteInv, NextStage
    PROVE  ThirdInv'
  <1>1. /\ UNCHANGED vars /\ scenario' = scenario /\ begun' = {} /\ begun = Calls
        /\ jpc[first] = "idle" /\ epc[first] = "idle"
    BY StageOver
  <1>2. Executed /\ Silent /\ prep[exec].state = "prepared"
    <2>1. begun # {}
      BY <1>1 DEF Calls
    <2> QED
      BY <1>1, <2>1 DEF ExecuteInv
  <1>3. UNCHANGED <<rows, printed, reason, prep, attempt, chain, sends, verdicts, epc, elocal>>
    BY <1>1 DEF vars, journal, backend
  <1>4. Silent' /\ prep'[exec].state # "none"
    BY <1>2, <1>3 DEF Silent
  <1>5. scenario = "kill_before_broadcast" => StatusInv'
    BY <1>1, <1>2, <1>3, <1>4 DEF Executed, StatusInv, Attempted, Unanswered, Inspects
  <1>6. scenario = "definitive_rejection" => EvidenceInv'
    BY <1>1, <1>2, <1>3, <1>4 DEF Executed, EvidenceInv, Attempted
  <1>7. scenario = "replay_after_restart" => ReplayInv'
    <2>1. Replied => Replied'
      BY <1>3 DEF Replied, ReplyTo
    <2> QED
      BY <1>1, <1>2, <1>3, <1>4, <2>1 DEF Executed, ReplayInv, Attempted
  <1>8. scenario \in Recovering => RecoverInv'
    <2> SUFFICES ASSUME scenario \in Recovering PROVE RecoverInv'
      OBVIOUS
    <2>1. sends[exec] = 0 => chain[exec] = "unsent"
      BY FixtureAssumption DEF Context, Halves, EP!BroadcastInv
    <2>2. /\ attempt[exec].state \in Open
          /\ sends[exec] = IF scenario = "kill_after_broadcast_intent" THEN 0 ELSE 1
          /\ scenario = "response_lost_after_acceptance" => reason[gw_execute] = "uncertain"
          /\ scenario = "kill_during_send_transaction" => rows[gw_execute].response = "none"
          /\ scenario \in {"kill_after_broadcast_intent", "not_found_after_expiry"} =>
                chain[exec] = "unsent"
      BY <1>2, <2>1 DEF Executed, Attempted, Unanswered, Open, Recovering
    <2>3. TrueFailures(first)'
      BY <1>1, <1>3, <1>4, <2>2 DEF TrueFailures, MayRematerialize, Silent, Open
    <2>4. Recovers(first)'
      BY <1>1, <1>3, <1>4, <2>2 DEF Recovers, Open
    <2>5. chain[exec] = "unsent" => Unaware(first)'
      BY <1>1, <1>3, <2>2 DEF Unaware
    <2> QED
      BY <1>1, <1>3, <2>2, <2>3, <2>4, <2>5 DEF RecoverInv
  <1> QED
    BY <1>1, <1>5, <1>6, <1>7, <1>8 DEF ThirdInv

LEMMA RacedNext ==
    ASSUME Context, Told, StageInv, stage = 2, Racers, RaceInv, NextStage
    PROVE  ScenariosEndAsDocumented'
  <1>1. /\ UNCHANGED vars /\ scenario' = scenario /\ begun = {Executes, Competes}
        /\ jpc[first] = "idle" /\ jpc[second] = "idle"
    BY StageOver DEF Calls
  <1>2. UNCHANGED <<rows, sends, verdicts>>
    BY <1>1 DEF vars, journal, backend
  <1>3. Begun(gw_execute) /\ Begun(gw_execute_competing)
    BY <1>1, TheCalls DEF Begun
  <1>4. /\ sends[exec] = 1
        /\ \/ rows[gw_execute].response = "result" /\ rows[gw_execute_competing].response = "error"
           \/ rows[gw_execute].response = "error" /\ rows[gw_execute_competing].response = "result"
    BY <1>1, <1>3 DEF RaceInv, Race, Racing, Won, Lost, Says, Attempted
  <1>5. Responses({gw_execute, gw_execute_competing})' = {"result", "error"}
    BY <1>2, <1>4 DEF Responses
  <1>6. ~MayRematerialize'
    BY <1>2 DEF MayRematerialize, RaceInv, Silent
  <1> QED
    BY <1>1, <1>2, <1>4, <1>5, <1>6 DEF ScenariosEndAsDocumented, Broadcasts, Racers

LEMMA CheckedNext ==
    ASSUME Context, Told, StageInv, stage = 3, ~Racers, ThirdInv, NextStage
    PROVE  ScenariosEndAsDocumented'
  <1>1. /\ UNCHANGED vars /\ scenario' = scenario /\ begun = {Checks} /\ jpc[first] = "idle"
    BY StageOver DEF Calls
  <1>2. UNCHANGED <<rows, printed, reason, attempt, chain, sends, verdicts>>
    BY <1>1 DEF vars, journal, backend
  <1>3. scenario \in ScenarioNames \ {"concurrent_gateways"} /\ begun # {}
    BY <1>1 DEF Told, Racers
  <1>4. CASE scenario = "kill_before_broadcast"
    BY <1>1, <1>2, <1>4 DEF ThirdInv, StatusInv, Attempted, Silent, ScenariosEndAsDocumented,
        Broadcasts, MayRematerialize
  <1>5. CASE scenario = "definitive_rejection"
    BY <1>1, <1>2, <1>3, <1>5 DEF ThirdInv, EvidenceInv, Attempted, Silent,
        ScenariosEndAsDocumented, Broadcasts, MayRematerialize
  <1>6. CASE scenario = "replay_after_restart"
    <2>1. PICK a \in printed : ReplyTo(a) /\ ~a.replayed
      BY <1>6 DEF ThirdInv, ReplayInv, Replied
    <2>2. PICK b \in printed : ReplyTo(b) /\ b.replayed
      BY <1>1, <1>3, <1>6 DEF ThirdInv, ReplayInv, Repeated
    <2>3. \A c \in printed : c.replayed \in BOOLEAN
      BY DEF Context, Halves, JP!Typed, JP!TypeOK, JP!Response
    <2>4. {c.replayed : c \in {c \in printed : c.id = gw_execute}} = BOOLEAN
      BY <2>1, <2>2, <2>3 DEF ReplyTo
    <2>5. {c.replayed : c \in {c \in printed' : c.id = gw_execute}} = BOOLEAN
      BY <1>2, <2>4
    <2>6. ~MayRematerialize' /\ sends'[exec] = 1
      BY <1>2, <1>6 DEF ThirdInv, ReplayInv, MayRematerialize, Silent
    <2> QED
      BY <1>1, <1>6, <2>5, <2>6 DEF ScenariosEndAsDocumented, Broadcasts
  <1>7. CASE scenario \in Recovering
    <2>1. RecoverInv
      BY <1>7 DEF ThirdInv
    <2>2. MayRematerialize' => chain'[exec] \in {"reverted", "failed"}
      BY <1>2, <2>1 DEF RecoverInv, TrueFailures, Undone, MayRematerialize
    <2>3. /\ sends'[exec] = IF scenario = "kill_after_broadcast_intent" THEN 0 ELSE 1
          /\ scenario = "response_lost_after_acceptance" => reason'[gw_execute] = "uncertain"
          /\ scenario = "kill_during_send_transaction" => rows'[gw_execute].response = "none"
          /\ scenario \in {"kill_after_broadcast_intent", "not_found_after_expiry"} =>
                attempt'[exec].state = "needs_recovery" /\ attempt'[exec].obs = "null"
      BY <1>1, <1>2, <1>3, <2>1 DEF RecoverInv, Absent
    <2> QED
      BY <1>1, <1>7, <2>2, <2>3 DEF ScenariosEndAsDocumented, Broadcasts, Recovering
  <1> QED
    BY <1>3, <1>4, <1>5, <1>6, <1>7 DEF ScenarioNames, Recovering
-----------------------------------------------------------------------------
(* The scenarios end as documented                                         *)

\* After the last stage only the cluster and the clock move.
LEMMA AfterEnd ==
    ASSUME Context, Told, StageInv, stage > Last, ScenariosEndAsDocumented,
           [ChaosNext]_chaosVars
    PROVE  ScenariosEndAsDocumented' /\ stage' = stage /\ scenario' = scenario
  <1>1. ~Scripted /\ begun = {} /\ ~Replays
    <2>1. Calls = {}
      BY DEF Calls, Last, StageInv
    <2>2. stage = 3 => Racers
      BY DEF Last
    <2> QED
      BY <2>1, <2>2, Stages DEF StageInv, Last, Replays, Racers
  <1>2. ~Reads
    <2> SUFFICES ASSUME Reads PROVE FALSE
      OBVIOUS
    <2>1. PICK p \in Procs, i \in Ids, input \in Inputs :
             MayRead(p, i, input) /\ ReadRequest(p, i, input)
      BY DEF Reads
    <2>2. stage <= Last
      BY <1>1, <2>1, ReadsCall
    <2> QED
      BY <2>2 DEF StageInv, Last
  <1>3. ~NextStage /\ \A p \in Procs : ~Serves(p)
    BY <1>1 DEF NextStage, StageInv, Serves
  <1>4. Outside /\ UNCHANGED <<stage, begun>> /\ scenario' = scenario
    BY <1>2, <1>3, ScriptSteps
  <1>5. UNCHANGED <<scenario, stage, rows, printed, reason, attempt, sends, verdicts>>
    BY <1>4 DEF Outside, journal
  <1>6. Ended /\ scenario # "any"
    BY <1>1 DEF Scripted, Told, ScenarioNames
  <1>7. (MayRematerialize => chain[exec] \in {"reverted", "failed"})
        => (MayRematerialize' => chain'[exec] \in {"reverted", "failed"})
    BY <1>4, <1>5 DEF Outside, Undone, MayRematerialize
  <1>8. /\ Broadcasts(0)' = Broadcasts(0) /\ Broadcasts(1)' = Broadcasts(1)
        /\ Responses({gw_execute, gw_execute_competing})' = Responses({gw_execute, gw_execute_competing})
    BY <1>5 DEF Broadcasts, Responses
  <1> QED
    BY <1>5, <1>6, <1>7, <1>8 DEF ScenariosEndAsDocumented, Told, ScenarioNames

LEMMA PhaseStays ==
    ASSUME Context, Told, StageInv, CalmInv, PhaseInv, [ChaosNext]_chaosVars
    PROVE  PhaseInv'
  <1>1. scenario' = scenario /\ Last' = Last /\ (Racers' <=> Racers) /\ (Racers <=> Last = 2)
        /\ Last \in {2, 3} /\ stage \in 1..(Last + 1)
    BY ScriptSteps DEF Last, Racers, StageInv
  <1>2. CASE NextStage
    <2>1. stage' = stage + 1 /\ stage <= Last
      BY <1>2, StageOver
    <2>2. CASE stage = 1
      BY <1>1, <1>2, <2>1, <2>2, PreparedNext DEF PhaseInv
    <2>3. CASE stage = 2 /\ ~Racers
      BY <1>1, <1>2, <2>1, <2>3, ExecutedNext DEF PhaseInv
    <2>4. CASE stage = 2 /\ Racers
      BY <1>1, <1>2, <2>1, <2>4, RacedNext DEF PhaseInv
    <2>5. CASE stage = 3
      BY <1>1, <1>2, <2>1, <2>5, CheckedNext DEF PhaseInv
    <2> QED
      BY <1>1, <2>1, <2>2, <2>3, <2>4, <2>5
  <1>3. CASE ~NextStage /\ stage <= Last
    <2>1. Replays => Replied
      BY DEF PhaseInv, ThirdInv, ReplayInv, Replays, Racers
    <2>2. stage' = stage
      <3>1. Reads => stage' = stage
        BY <2>1, ReadsCall DEF Reads
      <3> QED
        BY <1>3, <3>1, ScriptSteps
    <2>3. CASE stage = 1
      BY <1>1, <1>3, <2>2, <2>3, PrepareStays DEF PhaseInv
    <2>4. CASE stage = 2 /\ ~Racers
      BY <1>1, <1>3, <2>2, <2>4, ExecuteStays DEF PhaseInv
    <2>5. CASE stage = 2 /\ Racers
      BY <1>1, <1>3, <2>2, <2>5, RaceStays DEF PhaseInv
    <2>6. CASE stage = 3
      <3>1. ThirdInv /\ ~Racers
        BY <1>1, <1>3, <2>6 DEF PhaseInv
      <3>2. scenario = "kill_before_broadcast" => StatusInv'
        BY <1>3, <2>6, <3>1, StatusStays DEF ThirdInv
      <3>3. scenario = "definitive_rejection" => EvidenceInv'
        BY <1>3, <2>6, <3>1, EvidenceStays DEF ThirdInv
      <3>4. scenario = "replay_after_restart" => ReplayInv'
        BY <1>3, <2>6, <3>1, ReplayStays DEF ThirdInv, Replays
      <3>5. scenario \in Recovering => RecoverInv'
        BY <1>3, <2>6, <3>1, RecoverStays DEF ThirdInv
      <3>6. ThirdInv'
        BY <1>1, <3>2, <3>3, <3>4, <3>5 DEF ThirdInv, Recovering
      <3> QED
        BY <1>1, <1>3, <2>2, <2>6, <3>6 DEF PhaseInv
    <2> QED
      BY <1>1, <1>3, <2>3, <2>4, <2>5, <2>6
  <1>4. CASE stage > Last
    <2>1. ScenariosEndAsDocumented
      BY <1>4 DEF PhaseInv
    <2>2. ScenariosEndAsDocumented' /\ stage' = stage
      BY <1>4, <2>1, AfterEnd
    <2>3. stage = 3 => Racers
      BY <1>1, <1>4
    <2> QED
      BY <1>1, <1>4, <2>2, <2>3 DEF PhaseInv
  <1> QED
    BY <1>1, <1>2, <1>3, <1>4

LEMMA StoryStays == Context /\ Story /\ [ChaosNext]_chaosVars => Story'
  <1> SUFFICES ASSUME Context, Story, [ChaosNext]_chaosVars
               PROVE  Story'
    OBVIOUS
  <1>1. scenario' = scenario
    BY DEF ChaosNext, NextStage, Report, chaosVars
  <1>2. CASE Told
    <2>1. Replays => Replied
      BY <1>2 DEF Story, PhaseInv, ThirdInv, ReplayInv, Replays, Racers
    <2> QED
      BY <1>1, <1>2, <2>1, StageStays, CalmStays, PhaseStays DEF Story
  <1>3. CASE ~Told
    BY <1>1, <1>3 DEF Story, Told
  <1> QED
    BY <1>2, <1>3

LEMMA StoryBegins == ChaosInit => Story
  <1> SUFFICES ASSUME ChaosInit PROVE Story
    OBVIOUS
  <1>1. scenario \in Scenarios /\ stage = 1 /\ begun = {} /\ Init
    BY DEF ChaosInit
  <1>2. Last \in {2, 3}
    BY DEF Last
  <1>3. StageInv
    BY <1>1, <1>2 DEF StageInv, Init, J!Init, J!NoRow
  <1>4. CalmInv /\ PrepareInv
    BY <1>1, FixtureAssumption DEF CalmInv, PrepareInv, Silent, Attempted, Init, E!Init,
        E!NoPreparation, E!NoAttempt
  <1> QED
    BY <1>1, <1>2, <1>3, <1>4 DEF Story, PhaseInv

\* Every scenario of gateway/chaos_scenario.py that comes to its end ends
\* with the number of sendTransaction calls, the durable state and the
\* answers that docs/chaos-testing.md expects of it, wherever the processes
\* interleave and whatever the cluster makes of the transaction.
THEOREM Documented == ChaosSpec => []ScenariosEndAsDocumented
  <1>1. Story => ScenariosEndAsDocumented
    <2> SUFFICES ASSUME Story PROVE ScenariosEndAsDocumented
      OBVIOUS
    <2>1. CASE Told
      <3>1. stage \in 1..(Last + 1) /\ PhaseInv
        BY <2>1 DEF Story, StageInv
      <3>2. stage <= Last => ~Ended
        BY <2>1, <3>1, Stages DEF Scripted, Story
      <3>3. stage <= Last \/ stage > Last
        BY <3>1 DEF Last
      <3> QED
        BY <3>1, <3>2, <3>3 DEF PhaseInv, ScenariosEndAsDocumented
    <2>2. CASE ~Told
      BY <2>2, ScenariosAssumption DEF Told, Story, ScenariosEndAsDocumented
    <2> QED
      BY <2>1, <2>2
  <1>2. Halves /\ SystemInv /\ AnswersInv => Context
    BY DEF Context
  <1>3. ChaosSpec => []Context
    BY <1>2, ChaosRefined, HalvesInvariant, SystemInvariant, AnswersInvariant, PTL
  <1> QED
    BY <1>1, <1>3, StoryBegins, StoryStays, PTL DEF ChaosSpec
=============================================================================
