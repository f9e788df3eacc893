------------------------- MODULE LegacyRunnerProofs -------------------------
(***************************************************************************)
(* Theorems about LegacyRunner: what is on file, on the cluster and in the *)
(* workspace at each point of a run, and what its two records say at the   *)
(* end.                                                                    *)
(***************************************************************************)
EXTENDS LegacyRunner, TLAPS

-----------------------------------------------------------------------------
(* Types                                                                   *)

Locations == {"new", "opening", "checking", "gate", "ended"} \cup Saves \cup Tools \cup Closing

LEMMA FollowingType ==
    ASSUME NEW r \in Runs, NEW l \in Saves \cup Tools
    PROVE  Following(r, l) \in Locations
  BY DEF Following, Saves, Tools, Spends, Locations, Closing

LEMMA StepTyped ==
    ASSUME TypeOK, NEW r \in Runs, Step(r) \/ Die(r)
    PROVE  TypeOK'
  <1> USE DEF TypeOK, Recorded, Goto, Fail, disk
  <1>1. ASSUME NEW l, Goto(r, l), l \in Locations
        PROVE  pc' \in [Runs -> Locations]
    BY <1>1 DEF Locations
  <1>2. /\ {"opening", "checking", "airdrop-approval", "scaffolding", "deploy-approval", "failing",
            "completing_run", "failing_run", "ended"} \subseteq Locations
        /\ {"scaffolding", "templating", "installing"} \subseteq Saves \cup Tools
        /\ Spends \subseteq Saves \cup Tools
    BY DEF Locations, Saves, Tools, Closing
  <1> HIDE DEF Goto
  <1>3. CASE OpenSession(r) \/ OpenRun(r)
    BY <1>1, <1>2, <1>3 DEF OpenSession, OpenRun, Locations
  <1>4. CASE Check(r)
    BY <1>1, <1>2, <1>4 DEF Check, Locations
  <1>5. CASE Save(r)
    BY <1>1, <1>2, <1>5, FollowingType DEF Save, Locations
  <1>6. CASE Scaffold(r)
    BY <1>1, <1>2, <1>6, FollowingType DEF Scaffold, Locations
  <1>7. CASE Build(r)
    BY <1>1, <1>2, <1>7, FollowingType DEF Build, Locations
  <1>8. CASE Gate(r)
    BY <1>1, <1>2, <1>8 DEF Gate, Locations
  <1>9. CASE Spend(r)
    BY <1>1, <1>2, <1>9, FollowingType DEF Spend, Locations
  <1>10. CASE CloseSession(r) \/ CloseRun(r)
    BY <1>1, <1>2, <1>10 DEF CloseSession, CloseRun, Locations
  <1>11. CASE Die(r)
    BY <1>1, <1>2, <1>11 DEF Die, Locations
  <1> QED
    BY <1>3, <1>4, <1>5, <1>6, <1>7, <1>8, <1>9, <1>10, <1>11 DEF Step

\* The files, records and locations of the runs keep their types.
THEOREM TypeCorrect == Spec => []TypeOK
  <1>1. Init => TypeOK
    BY DEF Init, TypeOK, Recorded
  <1>2. TypeOK /\ [Next]_vars => TypeOK'
    <2>1. (TypeOK /\ UNCHANGED vars) => TypeOK'
      BY DEF TypeOK, vars
    <2> QED
      BY <2>1, StepTyped DEF Next
  <1>3. QED
    BY <1>1, <1>2, PTL DEF Spec

-----------------------------------------------------------------------------
(* What a run has behind it                                                *)

\* Locations after the calls on the deployed program, the deployment, the gate,
\* the test's log, the test, the scaffold and the airdrop.
Invoked == {"invoke", "evidence-pack"}
Deployed == {"deployment", "invoking"} \cup Invoked
Gated == {"deploy-approval", "deploying"} \cup Deployed
Logged == {"gate", "completing", "completing_run"} \cup Gated
Tested == {"test-log"} \cup Logged
Scaffolded == {"templating", "installing", "testing"} \cup Tested
Funded == {"scaffolding"} \cup Scaffolded

\* What a completed run has done.
Whole(r) ==
    /\ builder = r /\ r \in tested
    /\ <<r, "test-log">> \in files
    /\ Airdrops(r) => <<r, "airdrop">> \in files
    /\ "skip_deploy" \notin want[r] =>
          /\ {<<r, "deploying">>, <<r, "invoking">>} \subseteq spent
          /\ {<<r, "deployment">>, <<r, "invoke">>, <<r, "evidence-pack">>} \subseteq files

\* What run r at location l has filed, and what it was allowed.
PapersOK(r, l) ==
    /\ l \in {"airdrop-approval", "airdropping", "airdrop"} => Airdrops(r)
    /\ l \in {"airdropping", "airdrop"} => <<r, "airdrop-approval">> \in files
    /\ l \in {"gate"} \cup Gated => "skip_deploy" \notin want[r]
    /\ l \in Gated => "approve_deploy" \in want[r]
    /\ l \in Gated \ {"deploy-approval"} => <<r, "deploy-approval">> \in files

\* What run r at location l has done.
WorkOK(r, l) ==
    /\ l \in Funded /\ Airdrops(r) => <<r, "airdrop">> \in files
    /\ l \in Scaffolded => builder = r
    /\ l \in Tested => r \in tested
    /\ l \in Logged => <<r, "test-log">> \in files
    /\ l \in Deployed => <<r, "deploying">> \in spent
    /\ l \in Deployed \ {"deployment"} => <<r, "deployment">> \in files
    /\ l \in Invoked => <<r, "invoking">> \in spent
    /\ l = "evidence-pack" => <<r, "invoke">> \in files
    /\ l \in {"completing", "completing_run"} => Whole(r)

\* What the records of run r at location l say.
RecordsOK(r, l) ==
    /\ l = "completing_run" => session[r] = "completed"
    /\ l = "failing_run" => session[r] = "failed"
    /\ l # "ended" => record[r] \in {"none", "running"} /\ session[r] # "torn"
    /\ record[r] = "completed" => Whole(r)

RunInv ==
    /\ ApprovalOnFile
    /\ RecordsAgree
    /\ \A r \in Runs : PapersOK(r, pc[r]) /\ WorkOK(r, pc[r]) /\ RecordsOK(r, pc[r])

LEMMA InitRun == Init => RunInv
  BY NoneIsNoRun DEF Init, RunInv, ApprovalOnFile, RecordsAgree, PapersOK, WorkOK, RecordsOK,
     Gated, Deployed, Invoked, Logged, Tested, Scaffolded, Funded

\* The invariant after a step of r that takes nothing away and does nothing
\* to the other runs.
LEMMA StepOf ==
    ASSUME TypeOK, RunInv, NEW r \in Runs, NEW l, Goto(r, l), UNCHANGED want,
           files \subseteq files', spent \subseteq spent', tested \subseteq tested',
           builder # None => builder' = builder,
           \A q \in Runs \ {r} : session'[q] = session[q] /\ record'[q] = record[q],
           PapersOK(r, l)', WorkOK(r, l)', RecordsOK(r, l)',
           record'[r] \in {"completed", "failed"} => session'[r] = record'[r],
           session'[r] = "torn" => record'[r] \in {"none", "running"},
           ApprovalOnFile'
    PROVE  RunInv'
  <1>1. pc'[r] = l
    BY DEF Goto, TypeOK
  <1>2. RecordsAgree'
    BY DEF RunInv, RecordsAgree
  <1>3. ASSUME NEW q \in Runs, q # r
        PROVE  PapersOK(q, pc[q])' /\ WorkOK(q, pc[q])' /\ RecordsOK(q, pc[q])'
    <2>1. /\ pc'[q] = pc[q] /\ session'[q] = session[q] /\ record'[q] = record[q]
          /\ Airdrops(q)' = Airdrops(q)
          /\ builder = q => builder' = q
      BY <1>3, NoneIsNoRun DEF Goto, TypeOK, Airdrops
    <2>2. Whole(q) => Whole(q)'
      BY <2>1 DEF Whole
    <2>3. PapersOK(q, pc[q]) /\ WorkOK(q, pc[q]) /\ RecordsOK(q, pc[q])
      BY DEF RunInv
    <2>4. PapersOK(q, pc[q])' /\ RecordsOK(q, pc[q])'
      BY <2>1, <2>2, <2>3 DEF PapersOK, RecordsOK
    <2>5. WorkOK(q, pc[q])'
      BY <2>1, <2>2, <2>3 DEF WorkOK
    <2> QED
      BY <2>4, <2>5
  <1> QED
    BY <1>1, <1>2, <1>3 DEF RunInv

\* A run that goes on or fails, and writes neither of its records.
LEMMA Onward ==
    ASSUME TypeOK, RunInv, NEW r \in Runs, NEW l, Goto(r, l), UNCHANGED <<want, session, record>>,
           files \subseteq files', spent \subseteq spent', tested \subseteq tested',
           builder # None => builder' = builder,
           pc[r] \notin {"ended", "completing_run", "failing_run"},
           l \notin {"completing_run", "failing_run"},
           PapersOK(r, l)', WorkOK(r, l)', ApprovalOnFile'
    PROVE  RunInv'
  <1>1. RecordsOK(r, pc[r])
    BY DEF RunInv
  <1>2. RecordsOK(r, l)'
    BY <1>1 DEF RecordsOK
  <1>3. /\ record'[r] \in {"completed", "failed"} => session'[r] = record'[r]
        /\ session'[r] = "torn" => record'[r] \in {"none", "running"}
    BY DEF RunInv, RecordsAgree
  <1> QED
    BY <1>2, <1>3, StepOf

LEMMA SaveRun ==
    ASSUME TypeOK, RunInv, NEW r \in Runs, Save(r)
    PROVE  RunInv'
  <1>1. PICK s \in Saves : pc[r] = s
    BY DEF Save
  <1>2. PapersOK(r, s) /\ WorkOK(r, s)
    BY <1>1 DEF RunInv
  <1>3. PICK l : l = Following(r, s)
    OBVIOUS
  <1>4. /\ Goto(r, l) /\ files' = files \cup {<<r, s>>}
        /\ UNCHANGED <<want, session, record, builder, tested, spent>>
    BY <1>1, <1>3 DEF Save
  <1>5. Airdrops(r)' = Airdrops(r)
    BY <1>4 DEF Airdrops
  <1>6. PapersOK(r, l)'
    BY <1>2, <1>3, <1>4, <1>5 DEF PapersOK, Saves, Following, Gated, Deployed, Invoked
  <1>7. WorkOK(r, l)'
    BY <1>2, <1>3, <1>4, <1>5 DEF WorkOK, PapersOK, Saves, Following, Whole, Gated, Deployed,
       Invoked, Logged, Tested, Scaffolded, Funded
  <1>8. ApprovalOnFile'
    BY <1>4 DEF ApprovalOnFile, RunInv
  <1>9. l \notin {"completing_run", "failing_run"}
    BY <1>3 DEF Following, Saves
  <1> QED
    BY <1>1, <1>4, <1>6, <1>7, <1>8, <1>9, Onward DEF Saves

LEMMA ToolRun ==
    ASSUME TypeOK, RunInv, NEW r \in Runs, Check(r) \/ Scaffold(r) \/ Build(r) \/ Gate(r)
    PROVE  RunInv'
  <1>1. PICK c \in {"checking", "scaffolding", "templating", "installing", "gate"} :
           pc[r] = c
    BY DEF Check, Scaffold, Build, Gate
  <1>2. PapersOK(r, c) /\ WorkOK(r, c)
    BY <1>1 DEF RunInv
  <1>3. /\ UNCHANGED <<want, session, record, files, spent>>
        /\ tested \subseteq tested'
        /\ builder # None => builder' = builder
    BY DEF Check, Scaffold, Build, Gate, disk
  <1>4. ApprovalOnFile' /\ Airdrops(r)' = Airdrops(r)
    BY <1>3, NoneIsNoRun DEF ApprovalOnFile, RunInv, Airdrops
  <1>5. PICK l : Goto(r, l)
                 /\ \/ l = "failing"
                    \/ c = "checking" /\ l = IF Airdrops(r) THEN "airdrop-approval" ELSE "scaffolding"
                    \/ c = "scaffolding" /\ l = "templating" /\ builder' = r
                    \/ c = "templating" /\ l = "installing" /\ builder' = builder
                    \/ c = "installing" /\ l = "testing" /\ builder' = builder
                    \/ c = "gate" /\ l = "deploy-approval" /\ builder' = builder /\ tested' = tested
                       /\ "approve_deploy" \in want[r]
    <2>1. CASE Check(r)
      BY <1>1, <2>1 DEF Check, Fail
    <2>2. CASE Scaffold(r)
      BY <1>1, <2>2 DEF Scaffold, Fail, Following
    <2>3. CASE Build(r)
      BY <1>1, <2>3 DEF Build, Fail, Following
    <2>4. CASE Gate(r)
      BY <1>1, <2>4 DEF Gate, Fail
    <2> QED
      BY <2>1, <2>2, <2>3, <2>4
  <1>6. PapersOK(r, l)'
    BY <1>2, <1>3, <1>4, <1>5 DEF PapersOK, Gated, Deployed, Invoked
  <1>7. WorkOK(r, l)'
    BY <1>2, <1>3, <1>4, <1>5 DEF WorkOK, Gated, Deployed, Invoked, Logged, Tested, Scaffolded,
       Funded
  <1>8. l \notin {"completing_run", "failing_run"}
    BY <1>5
  <1> QED
    BY <1>1, <1>3, <1>4, <1>5, <1>6, <1>7, <1>8, Onward

LEMMA SpendRun ==
    ASSUME TypeOK, RunInv, NEW r \in Runs, Spend(r)
    PROVE  RunInv'
  <1>1. PICK c \in Spends : pc[r] = c
    BY DEF Spend
  <1>2. PapersOK(r, c) /\ WorkOK(r, c)
    BY <1>1 DEF RunInv
  <1>3. UNCHANGED <<want, session, record, files, builder>> /\ tested \subseteq tested'
    BY DEF Spend, disk
  <1>4. spent' = spent \/ spent' = spent \cup {<<r, c>>}
    BY <1>1 DEF Spend
  <1>5. ApprovalOnFile' /\ Airdrops(r)' = Airdrops(r)
    BY <1>2, <1>3, <1>4 DEF ApprovalOnFile, RunInv, Airdrops, PapersOK, WorkOK, Scaffolded, Spends,
       Gated, Deployed, Invoked
  <1>6. PICK l : /\ Goto(r, l)
                 /\ \/ l = "failing"
                    \/ /\ l = Following(r, c) /\ spent' = spent \cup {<<r, c>>}
                       /\ c = "testing" => r \in tested'
    BY <1>1 DEF Spend, Fail
  <1>7. PapersOK(r, l)'
    BY <1>2, <1>3, <1>5, <1>6 DEF PapersOK, Spends, Following, Gated, Deployed, Invoked
  <1>8. WorkOK(r, l)'
    BY <1>2, <1>3, <1>5, <1>6 DEF WorkOK, Spends, Following, Gated, Deployed, Invoked, Logged,
       Tested, Scaffolded, Funded
  <1>9. l \notin {"completing_run", "failing_run"}
    BY <1>6 DEF Following, Spends
  <1> QED
    BY <1>1, <1>3, <1>4, <1>5, <1>6, <1>7, <1>8, <1>9, Onward DEF Spends

LEMMA RecordRun ==
    ASSUME TypeOK, RunInv, NEW r \in Runs,
           OpenSession(r) \/ OpenRun(r) \/ CloseSession(r) \/ CloseRun(r)
    PROVE  RunInv'
  <1>1. /\ PapersOK(r, pc[r]) /\ WorkOK(r, pc[r]) /\ RecordsOK(r, pc[r])
        /\ record[r] \in {"completed", "failed"} => session[r] = record[r]
    BY DEF RunInv, RecordsAgree
  <1>2. UNCHANGED <<want, files, builder, tested, spent>>
    BY DEF OpenSession, OpenRun, CloseSession, CloseRun
  <1>3. ApprovalOnFile' /\ Airdrops(r)' = Airdrops(r) /\ Whole(r)' = Whole(r)
    BY <1>2 DEF ApprovalOnFile, RunInv, Airdrops, Whole
  <1>4. \A q \in Runs \ {r} : session'[q] = session[q] /\ record'[q] = record[q]
    BY DEF OpenSession, OpenRun, CloseSession, CloseRun, TypeOK
  <1>5. PICK l : /\ Goto(r, l)
                 /\ \/ pc[r] = "new" /\ l = "opening" /\ session'[r] = "running" /\ record' = record
                    \/ pc[r] = "opening" /\ l = "checking" /\ record'[r] = "running" /\ session' = session
                    \/ /\ pc[r] = "completing" /\ l = "completing_run"
                       /\ session'[r] = "completed" /\ record' = record
                    \/ /\ pc[r] = "failing" /\ l = "failing_run"
                       /\ session'[r] = "failed" /\ record' = record
                    \/ /\ pc[r] = "completing_run" /\ l = "ended"
                       /\ record'[r] = "completed" /\ session' = session
                    \/ /\ pc[r] = "failing_run" /\ l = "ended"
                       /\ record'[r] = "failed" /\ session' = session
    BY DEF OpenSession, OpenRun, CloseSession, CloseRun, TypeOK
  <1>6. PapersOK(r, l)'
    BY <1>5 DEF PapersOK, Gated, Deployed, Invoked
  <1>7. WorkOK(r, l)'
    BY <1>1, <1>2, <1>3, <1>5 DEF WorkOK, Gated, Deployed, Invoked, Logged, Tested, Scaffolded, Funded
  <1>8. RecordsOK(r, l)'
    BY <1>1, <1>3, <1>5 DEF RecordsOK, WorkOK
  <1>9. /\ record'[r] \in {"completed", "failed"} => session'[r] = record'[r]
        /\ session'[r] = "torn" => record'[r] \in {"none", "running"}
    BY <1>1, <1>5 DEF RecordsOK
  <1> QED
    BY <1>2, <1>3, <1>4, <1>5, <1>6, <1>7, <1>8, <1>9, StepOf

LEMMA DieRun ==
    ASSUME TypeOK, RunInv, NEW r \in Runs, Die(r)
    PROVE  RunInv'
  <1>1. /\ PapersOK(r, pc[r]) /\ WorkOK(r, pc[r]) /\ RecordsOK(r, pc[r])
        /\ record[r] \in {"completed", "failed"} => session[r] = record[r]
        /\ pc[r] # "ended"
    BY DEF RunInv, RecordsAgree, Die
  <1>2. /\ UNCHANGED <<want, files, tested>>
        /\ Goto(r, "ended")
        /\ builder # None => builder' = builder
        /\ \A q \in Runs \ {r} : session'[q] = session[q] /\ record'[q] = record[q]
    BY DEF Die, TypeOK
  <1>3. spent' = spent \/ (pc[r] \in Spends /\ spent' = spent \cup {<<r, pc[r]>>})
    BY DEF Die
  <1>4. ApprovalOnFile'
    <2>1. CASE spent' = spent
      BY <1>2, <2>1, NoneIsNoRun DEF ApprovalOnFile, RunInv
    <2>2. CASE spent' # spent
      <3>1. PICK c \in Spends : pc[r] = c /\ spent' = spent \cup {<<r, c>>}
        BY <1>3, <2>2
      <3> QED
        BY <1>1, <1>2, <3>1, NoneIsNoRun DEF ApprovalOnFile, RunInv, Airdrops, PapersOK, WorkOK,
           Scaffolded, Spends, Gated, Deployed, Invoked
    <2> QED
      BY <2>1, <2>2
  <1>5. \/ session' = session /\ record' = record
        \/ pc[r] \in {"new", "completing", "failing"} /\ session'[r] = "torn" /\ record' = record
        \/ session' = session /\ record'[r] = "torn"
    BY DEF Die, TypeOK
  <1>6. record'[r] \notin {"completed", "failed"}
    BY <1>1, <1>5 DEF RecordsOK
  <1>7. session'[r] = "torn" => record'[r] \in {"none", "running"}
    BY <1>1, <1>5 DEF RecordsOK
  <1>8. RecordsOK(r, "ended")'
    BY <1>6 DEF RecordsOK
  <1>9. PapersOK(r, "ended")' /\ WorkOK(r, "ended")'
    BY DEF PapersOK, WorkOK, Gated, Deployed, Invoked, Logged, Tested, Scaffolded, Funded
  <1> QED
    BY <1>2, <1>3, <1>4, <1>6, <1>7, <1>8, <1>9, StepOf

LEMMA RunInvariant == Spec => []RunInv
  <1>1. ASSUME TypeOK, RunInv, [Next]_vars
        PROVE  RunInv'
    <2>1. CASE UNCHANGED vars
      <3>1. ApprovalOnFile' /\ RecordsAgree'
        BY <1>1, <2>1 DEF vars, RunInv, ApprovalOnFile, RecordsAgree
      <3>2. ASSUME NEW r \in Runs
            PROVE  PapersOK(r, pc[r])' /\ WorkOK(r, pc[r])' /\ RecordsOK(r, pc[r])'
        <4>1. PapersOK(r, pc[r]) /\ WorkOK(r, pc[r]) /\ RecordsOK(r, pc[r])
          BY <1>1 DEF RunInv
        <4>2. Whole(r)' = Whole(r) /\ Airdrops(r)' = Airdrops(r)
          BY <2>1 DEF vars, Whole, Airdrops
        <4>3. PapersOK(r, pc[r])' /\ RecordsOK(r, pc[r])'
          BY <2>1, <4>1, <4>2 DEF vars, PapersOK, RecordsOK
        <4>4. WorkOK(r, pc[r])'
          BY <2>1, <4>1, <4>2 DEF vars, WorkOK
        <4> QED
          BY <4>3, <4>4
      <3> QED
        BY <3>1, <3>2 DEF RunInv
    <2> QED
      BY <1>1, <2>1, SaveRun, ToolRun, SpendRun, RecordRun, DieRun DEF Next, Step
  <1>2. TypeOK /\ RunInv /\ [Next]_vars => RunInv'
    BY <1>1
  <1>3. QED
    BY <1>2, InitRun, TypeCorrect, PTL DEF Spec

-----------------------------------------------------------------------------
(* The properties                                                          *)

\* However many runs there are, and wherever they are killed, the airdrop, the
\* deployment and the calls on the deployed program have their approvals on
\* file, and what the test sent is of the run's own workspace.
THEOREM Approvals == Spec => []ApprovalOnFile
  BY RunInvariant, PTL DEF RunInv

\* A run file says completed only of a run that made, tested and deployed its
\* own workspace and left the records of it, although another run may want
\* the same path.
THEOREM CompletedRuns == Spec => []CompletedRunIsWhole
  <1>1. RunInv => CompletedRunIsWhole
    BY DEF RunInv, RecordsOK, CompletedRunIsWhole, Whole
  <1>2. QED
    BY <1>1, RunInvariant, PTL

\* The two files of a run are written one after the other: what the second
\* says of the end, the first says, too.
THEOREM Agreement == Spec => []RecordsAgree
  BY RunInvariant, PTL DEF RunInv
=============================================================================
