---------------------------- MODULE LegacyRunner ----------------------------
(***************************************************************************)
(* The older mission runner, MissionRunner of solana_agent/runtime.py: one *)
(* call of run_create_counter is one run, with a session file and a run    *)
(* file of its own under .solana-agent, and no database.  Several runs may *)
(* want the same workspace at the same time.                               *)
(*                                                                         *)
(* One action is one file that is written, or one script or tool that is   *)
(* run.  A run may be killed at any point; an exception that is no         *)
(* RuntimeErrorWithContext (a file error, a program that is not installed) *)
(* leaves run_create_counter without another write.                        *)
(***************************************************************************)
EXTENDS Naturals

CONSTANTS
    Runs, \* calls of run_create_counter for one workspace
    None

ASSUME NoneIsNoRun == None \notin Runs

VARIABLES
    want,    \* the flags of each call
    pc,      \* where each run is
    session, \* status in sessions/<id>.json
    record,  \* status in runs/<id>.json
    files,   \* the other files each run wrote
    builder, \* the run whose anchor init made the workspace
    tested,  \* runs whose anchor test succeeded
    spent    \* what a run had carried out on the cluster

vars == <<want, pc, session, record, files, builder, tested, spent>>
disk == <<session, record, files>>

Flags == {"approve_airdrop", "approve_deploy", "skip_airdrop", "skip_deploy"}

Recorded == {"none", "running", "completed", "failed", "torn"}

\* Locations at which a file is written, named for the file.
Saves == {"airdrop-approval", "airdrop", "test-log", "deploy-approval",
          "deployment", "invoke", "evidence-pack"}

\* Locations at which a script or a tool sends transactions: anchor test, too,
\* which starts no validator, uses the cluster and the keypair that the runner
\* wrote into Anchor.toml, and deploys and calls the program there.
Spends == {"airdropping", "testing", "deploying", "invoking"}

Tools == {"scaffolding", "templating", "installing"} \cup Spends

Closing == {"completing", "failing", "completing_run", "failing_run"}

TypeOK ==
    /\ want \in [Runs -> SUBSET Flags]
    /\ pc \in [Runs -> {"new", "opening", "checking", "gate", "ended"} \cup Saves \cup Tools
                        \cup Closing]
    /\ session \in [Runs -> Recorded]
    /\ record \in [Runs -> Recorded]
    /\ files \subseteq Runs \X Saves
    /\ builder \in Runs \cup {None}
    /\ tested \subseteq Runs
    /\ spent \subseteq Runs \X Spends

Init ==
    /\ want \in [Runs -> SUBSET Flags]
    /\ pc = [r \in Runs |-> "new"]
    /\ session = [r \in Runs |-> "none"]
    /\ record = [r \in Runs |-> "none"]
    /\ files = {}
    /\ builder = None
    /\ tested = {}
    /\ spent = {}

-----------------------------------------------------------------------------

Goto(r, l) == pc' = [pc EXCEPT ![r] = l]

\* A RuntimeErrorWithContext.
Fail(r) == Goto(r, "failing")

Airdrops(r) == "approve_airdrop" \in want[r] /\ "skip_airdrop" \notin want[r]

\* Mutant of Following: the approval is filed when the deployment is done.
FollowingWithLateApproval(r, l) ==
    CASE l = "airdrop-approval" -> "airdropping"
      [] l = "airdropping" -> "airdrop"
      [] l = "airdrop" -> "scaffolding"
      [] l = "scaffolding" -> "templating"
      [] l = "templating" -> "installing"
      [] l = "installing" -> "testing"
      [] l = "testing" -> "test-log"
      [] l = "test-log" -> IF "skip_deploy" \in want[r] THEN "completing" ELSE "deploying"
      [] l = "deploying" -> "deploy-approval"
      [] l = "deploy-approval" -> "deployment"
      [] l = "deployment" -> "invoking"
      [] l = "invoking" -> "invoke"
      [] l = "invoke" -> "evidence-pack"
      [] l = "evidence-pack" -> "completing"

\* The order of run_create_counter.
Following(r, l) ==
    CASE l = "airdrop-approval" -> "airdropping"
      [] l = "airdropping" -> "airdrop"
      [] l = "airdrop" -> "scaffolding"
      [] l = "scaffolding" -> "templating"
      [] l = "templating" -> "installing"
      [] l = "installing" -> "testing"
      [] l = "testing" -> "test-log"
      [] l = "test-log" -> IF "skip_deploy" \in want[r] THEN "completing" ELSE "gate"
      [] l = "deploy-approval" -> "deploying"
      [] l = "deploying" -> "deployment"
      [] l = "deployment" -> "invoking"
      [] l = "invoking" -> "invoke"
      [] l = "invoke" -> "evidence-pack"
      [] l = "evidence-pack" -> "completing"

OpenSession(r) ==
    /\ pc[r] = "new"
    /\ session' = [session EXCEPT ![r] = "running"]
    /\ Goto(r, "opening")
    /\ UNCHANGED <<want, record, files, builder, tested, spent>>

OpenRun(r) ==
    /\ pc[r] = "opening"
    /\ record' = [record EXCEPT ![r] = "running"]
    /\ Goto(r, "checking")
    /\ UNCHANGED <<want, session, files, builder, tested, spent>>

\* Environment, wallet and cluster are checked, and that there is no
\* workspace yet.
Check(r) ==
    /\ pc[r] = "checking"
    /\ \/ /\ builder = None
          /\ Goto(r, IF Airdrops(r) THEN "airdrop-approval" ELSE "scaffolding")
       \/ Fail(r)
    /\ UNCHANGED <<want, disk, builder, tested, spent>>

\* _write_state or _write_artifact_payload.
Save(r) ==
    /\ pc[r] \in Saves
    /\ files' = files \cup {<<r, pc[r]>>}
    /\ Goto(r, Following(r, pc[r]))
    /\ UNCHANGED <<want, session, record, builder, tested, spent>>

\* anchor init, which refuses a directory that another run made since the
\* check.
Scaffold(r) ==
    /\ pc[r] = "scaffolding"
    /\ \/ /\ builder = None
          /\ builder' = r
          /\ Goto(r, Following(r, "scaffolding")) \/ Fail(r)
       \/ Fail(r) /\ UNCHANGED builder
    /\ UNCHANGED <<want, disk, tested, spent>>

\* _apply_counter_template and yarn install.
Build(r) ==
    /\ pc[r] \in {"templating", "installing"}
    /\ Goto(r, Following(r, pc[r])) \/ Fail(r)
    /\ UNCHANGED <<want, disk, builder, tested, spent>>

\* A deployment that the caller did not approve fails the run, after all the
\* steps before it.
Gate(r) ==
    /\ pc[r] = "gate"
    /\ \/ "approve_deploy" \in want[r] /\ Goto(r, "deploy-approval")
       \/ "approve_deploy" \notin want[r] /\ Fail(r)
    /\ UNCHANGED <<want, disk, builder, tested, spent>>

\* Mutant of Spend: the exit code of the script or tool is not looked at.
SpendUnchecked(r) ==
    /\ pc[r] \in Spends
    /\ spent' = spent \cup {<<r, pc[r]>>} \/ UNCHANGED spent
    /\ tested' = IF pc[r] = "testing" THEN tested \cup {r} ELSE tested
    /\ Goto(r, Following(r, pc[r]))
    /\ UNCHANGED <<want, disk, builder>>

\* devnet_airdrop.sh, anchor test, deploy_anchor.sh or yarn interact:devnet.  A
\* failure is reported before or after the transactions went through.
Spend(r) ==
    /\ pc[r] \in Spends
    /\ \/ /\ spent' = spent \cup {<<r, pc[r]>>}
          /\ \/ /\ Goto(r, Following(r, pc[r]))
                /\ tested' = IF pc[r] = "testing" THEN tested \cup {r} ELSE tested
             \/ Fail(r) /\ UNCHANGED tested
       \/ Fail(r) /\ UNCHANGED <<spent, tested>>
    /\ UNCHANGED <<want, disk, builder>>

\* Mutant of CloseSession: the handler of the exception writes the run only.
CloseCompletedSession(r) ==
    /\ pc[r] \in {"completing", "failing"}
    /\ IF pc[r] = "completing"
       THEN session' = [session EXCEPT ![r] = "completed"] /\ Goto(r, "completing_run")
       ELSE UNCHANGED session /\ Goto(r, "failing_run")
    /\ UNCHANGED <<want, record, files, builder, tested, spent>>

CloseSession(r) ==
    /\ \/ /\ pc[r] = "completing"
          /\ session' = [session EXCEPT ![r] = "completed"]
          /\ Goto(r, "completing_run")
       \/ /\ pc[r] = "failing"
          /\ session' = [session EXCEPT ![r] = "failed"]
          /\ Goto(r, "failing_run")
    /\ UNCHANGED <<want, record, files, builder, tested, spent>>

CloseRun(r) ==
    /\ pc[r] \in {"completing_run", "failing_run"}
    /\ record' = [record EXCEPT ![r] = IF pc[r] = "completing_run" THEN "completed" ELSE "failed"]
    /\ Goto(r, "ended")
    /\ UNCHANGED <<want, session, files, builder, tested, spent>>

\* The run is killed, or an exception without context leaves it: a file that
\* was being written may be cut short, and a tool may have done its work.
Die(r) ==
    /\ pc[r] # "ended"
    /\ Goto(r, "ended")
    /\ \/ UNCHANGED <<session, record, builder, spent>>
       \/ /\ pc[r] \in {"new", "completing", "failing"}
          /\ session' = [session EXCEPT ![r] = "torn"]
          /\ UNCHANGED <<record, builder, spent>>
       \/ /\ pc[r] \in {"opening", "completing_run", "failing_run"}
          /\ record' = [record EXCEPT ![r] = "torn"]
          /\ UNCHANGED <<session, builder, spent>>
       \/ /\ pc[r] = "scaffolding" /\ builder = None
          /\ builder' = r
          /\ UNCHANGED <<session, record, spent>>
       \/ /\ pc[r] \in Spends
          /\ spent' = spent \cup {<<r, pc[r]>>}
          /\ UNCHANGED <<session, record, builder>>
    /\ UNCHANGED <<want, files, tested>>

Step(r) == \/ OpenSession(r) \/ OpenRun(r) \/ Check(r) \/ Save(r) \/ Scaffold(r) \/ Build(r)
           \/ Gate(r) \/ Spend(r) \/ CloseSession(r) \/ CloseRun(r)

Next == \E r \in Runs : Step(r) \/ Die(r)

Spec == Init /\ [][Next]_vars

-----------------------------------------------------------------------------
(* Properties                                                              *)

\* Wherever a run is killed, an airdrop has its approval on file, a deployment
\* and the calls after it have theirs, and the transactions of the test, which
\* no approval stands before, are of a workspace that the run made itself.
ApprovalOnFile ==
    \A r \in Runs :
        /\ <<r, "airdropping">> \in spent =>
              /\ <<r, "airdrop-approval">> \in files
              /\ "approve_airdrop" \in want[r]
        /\ <<r, "deploying">> \in spent \/ <<r, "invoking">> \in spent =>
              /\ <<r, "deploy-approval">> \in files
              /\ "approve_deploy" \in want[r]
        /\ <<r, "testing">> \in spent => builder = r

\* A run file that says completed is the last of a run that built and tested
\* its own workspace and, unless the deployment was skipped, deployed it and
\* left the records of that.
CompletedRunIsWhole ==
    \A r \in Runs :
        record[r] = "completed" =>
            /\ builder = r /\ r \in tested
            /\ <<r, "test-log">> \in files
            /\ Airdrops(r) => <<r, "airdrop">> \in files
            /\ "skip_deploy" \notin want[r] =>
                  /\ {<<r, "deploying">>, <<r, "invoking">>} \subseteq spent
                  /\ {<<r, "deployment">>, <<r, "invoke">>, <<r, "evidence-pack">>} \subseteq files

\* What the run file says of the end, the session file says, too, and a
\* session that is cut short has a run that is not said to have ended.  (A
\* session that has ended may stand beside a run file that says running or is
\* cut short: it is written first.)
RecordsAgree ==
    \A r \in Runs :
        /\ record[r] \in {"completed", "failed"} => session[r] = record[r]
        /\ session[r] = "torn" => record[r] \in {"none", "running"}
=============================================================================
