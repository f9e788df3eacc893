------------------------------ MODULE Workbench ------------------------------
(***************************************************************************)
(* The governed runtime at work on a workspace, as runtime_factory.py puts *)
(* it together: the command journal with the policy engine and the         *)
(* approval service, and behind it the adapters, which change directories, *)
(* start external tools and reach a cluster.                               *)
(*                                                                         *)
(* CommandJournal leaves open what the policy decides and what a call of   *)
(* the executor does.  Here the decision is that of PolicyEngine on the    *)
(* workspace as it is at that moment, and the call runs an adapter on the  *)
(* workspace as it has become since: other commands, their tools and the   *)
(* operator change it, too.  An external tool is a process of its own: it  *)
(* is killed at a timeout, and not when the runtime is killed.             *)
(***************************************************************************)
EXTENDS PolicyEngine

CONSTANTS
    Keys,    \* idempotency keys, one command each
    Procs,   \* runtime processes
    Targets, \* workspace directories
    Asks,    \* what commands may ask for
    None

VARIABLES
    status, started, policy, approval, bound, lapsed,
    artifacts, calls, outcome, pc, local,  \* the command journal

    profile,   \* the active policy profile
    ask,       \* what each command asks for
    directory, \* a workspace: "absent", "empty" or an Anchor project
    source,    \* its programs/.../src/lib.rs
    made,      \* the directory that a command, or its tool, made
    edited,    \* commands whose content replaced a source
    tool,      \* the external tool that a command started
    reached,   \* commands whose tool sent transactions to a cluster
    at         \* where each process is in its adapter

journal == <<status, started, policy, approval, bound, lapsed,
             artifacts, calls, outcome, pc, local>>
tree == <<directory, source, made, edited>>
world == <<tree, tool, reached>>
vars == <<journal, profile, ask, world, at>>

J == INSTANCE CommandJournal

ASSUME NoneIsFresh == None \notin Keys \cup Targets
ASSUME TargetsAssumption == {"absent", "outside"} \cap Targets = {}
ASSUME AsksAssumption == \A a \in Asks : a \in AskOf({a.name}, Targets)

\* A project's Anchor.toml names a cluster: anchor init writes localnet, an
\* operator may have written devnet.
Projects == {"local", "devnet"}
Directories == {"absent", "empty"} \cup Projects

\* "truncated": opened for writing and not written yet.
Sources == {"absent", "generated", "truncated", "template", "operator"}

\* A tool that made its directory, or sent its transactions, is at "half".
Tools == {"none", "started", "half", "done", "failed", "killed"}

TypeOK ==
    /\ J!TypeOK
    /\ profile \in Profiles
    /\ ask \in [Keys -> Asks]
    /\ directory \in [Targets -> Directories]
    /\ source \in [Targets -> Sources]
    /\ made \in [Keys -> Targets \cup {None}]
    /\ edited \subseteq Keys
    /\ tool \in [Keys -> Tools]
    /\ reached \subseteq Keys
    /\ at \in [Procs -> {"adapter", "tool", "temporary", "rendering", "writing"}]

\* A workspace is absent, or an operator's project.
Init ==
    /\ J!Init
    /\ profile \in Profiles
    /\ ask \in [Keys -> Asks]
    /\ directory \in [Targets -> {"absent"} \cup Projects]
    /\ source = [t \in Targets |-> IF directory[t] = "absent" THEN "absent" ELSE "operator"]
    /\ made = [k \in Keys |-> None]
    /\ edited = {}
    /\ tool = [k \in Keys |-> "none"]
    /\ reached = {}
    /\ at = [p \in Procs |-> "adapter"]

-----------------------------------------------------------------------------
(* The decision                                                            *)

Exists(t) == t \in Targets /\ directory[t] # "absent"
Missing(t) == t \in Targets /\ directory[t] = "absent"

\* The policy engine evaluates the command against the files of this moment.
Evaluate(p) ==
    LET k == local[p].key
    IN  /\ J!Evaluate(p)
        /\ policy'[k] = Decision(profile, ask[k], {t \in Targets : Exists(t)})
        /\ UNCHANGED <<profile, ask, world, at>>

\* The other steps of the journal; there is a policy engine and an approval
\* service, so that the branches without them are not taken.
JournalStep(p) ==
    /\ \/ \E k \in Keys : J!Plan(p, k) \/ J!StartApproved(p, k) \/ J!Interrupt(p, k)
       \/ J!BeginValidation(p) \/ J!Authorize(p) \/ J!RequestApproval(p) \/ J!AwaitApproval(p)
       \/ J!Reject(p) /\ local[p].effect = "deny"
       \/ J!FailValidation(p) \/ J!Approve(p) \/ J!StartRunning(p) \/ J!CallExecutor(p)
       \/ J!RecordStreams(p) \/ J!RecordOutcome(p)
       \/ J!StartRecovery(p) \/ J!ExpireApproval(p) \/ J!ListRunning(p) \/ J!EndRecovery(p)
       \/ J!Refused(p)
    /\ UNCHANGED <<profile, ask, world, at>>

\* The process is killed.  A tool it started goes on.
Die(p) ==
    /\ J!Die(p)
    /\ at' = [at EXCEPT ![p] = "adapter"]
    /\ UNCHANGED <<profile, ask, world>>

Operator(k) == (J!DecideApproval(k) \/ J!Lapse(k)) /\ UNCHANGED <<profile, ask, world, at>>

\* An operator removes a workspace.
Remove(t) ==
    /\ Exists(t)
    /\ directory' = [directory EXCEPT ![t] = "absent"]
    /\ source' = [source EXCEPT ![t] = "absent"]
    /\ UNCHANGED <<journal, profile, ask, made, edited, tool, reached, at>>

-----------------------------------------------------------------------------
(* The adapters                                                            *)

\* What command k works on: the argument that its adapter looks at, or the cwd.
Place(k) ==
    CASE ask[k].name \in {<<"filesystem", "read">>, <<"filesystem", "overwrite">>} -> ask[k].args.path
      [] ask[k].name = <<"filesystem", "create_workspace">> -> ask[k].args.destination
      [] ask[k].name = <<"counter_template", "apply">> -> ask[k].args.workspace
      [] ask[k].name = <<"anchor", "scaffold">> -> ask[k].lands
      [] OTHER -> ask[k].cwd

Command(p) == local[p].key
Target(p) == Place(Command(p))

\* Process p is at location l of the adapter for this adapter and operation.
Runs(p, adapter, operation, l) ==
    /\ pc[p] = "executing" /\ at[p] = l
    /\ ask[Command(p)].name = <<adapter, operation>>

\* The adapter goes on at l.
AdapterAt(p, l) == at' = [at EXCEPT ![p] = l] /\ UNCHANGED <<journal, profile, ask>>

\* execute returns the exit code, or raises.
Ends(p, result) ==
    /\ J!ExecutorReturns(p)
    /\ local'[p].result = result
    /\ at' = [at EXCEPT ![p] = "adapter"]
    /\ UNCHANGED <<profile, ask>>

\* filesystem read; an argument that is absent or escapes raises, here and
\* below.
ReadPath(p) ==
    /\ Runs(p, "filesystem", "read", "adapter")
    /\ \/ Target(p) \notin Targets /\ Ends(p, "exception")
       \/ Exists(Target(p)) /\ Ends(p, "zero")
       \/ Missing(Target(p)) /\ Ends(p, "nonzero")
    /\ UNCHANGED world

\* Command k makes directory t.
Make(k, t) ==
    /\ directory' = [directory EXCEPT ![t] = "empty"]
    /\ made' = [made EXCEPT ![k] = t]

\* Mutant of CreateWorkspace: mkdir with exist_ok.
CreateWorkspaceAnyway(p) ==
    LET t == Target(p)
    IN  /\ Runs(p, "filesystem", "create_workspace", "adapter")
        /\ \/ t \notin Targets /\ Ends(p, "exception") /\ UNCHANGED <<directory, made>>
           \/ Exists(t) /\ Ends(p, "zero") /\ UNCHANGED <<directory, made>>
           \/ Missing(t) /\ Make(Command(p), t) /\ Ends(p, "zero")
        /\ UNCHANGED <<source, edited, tool, reached>>

\* _create_workspace: one exclusive mkdir.
CreateWorkspace(p) ==
    LET t == Target(p)
    IN  /\ Runs(p, "filesystem", "create_workspace", "adapter")
        /\ \/ t \notin Targets /\ Ends(p, "exception") /\ UNCHANGED <<directory, made>>
           \/ Exists(t) /\ Ends(p, "nonzero") /\ UNCHANGED <<directory, made>>
           \/ Missing(t) /\ Make(Command(p), t) /\ Ends(p, "zero")
        /\ UNCHANGED <<source, edited, tool, reached>>

\* A workspace with the directory that the source is in.
HasSource(t) == t \in Targets /\ source[t] # "absent"

\* _overwrite up to the temporary file in the directory of the target.
WriteTemporary(p) ==
    /\ Runs(p, "filesystem", "overwrite", "adapter")
    /\ \/ HasSource(Target(p)) /\ AdapterAt(p, "temporary")
       \/ Ends(p, "exception")
    /\ UNCHANGED world

\* Mutant of Replace: the file is opened and written in place.
ReplaceInPlace(p) ==
    LET t == Target(p)
    IN  /\ Runs(p, "filesystem", "overwrite", "temporary")
        /\ \/ /\ source[t] \notin {"absent", "truncated"}
              /\ source' = [source EXCEPT ![t] = "truncated"]
              /\ AdapterAt(p, "temporary")
              /\ UNCHANGED edited
           \/ /\ source[t] = "truncated"
              /\ source' = [source EXCEPT ![t] = "operator"]
              /\ edited' = edited \cup {Command(p)}
              /\ Ends(p, "zero")
        /\ UNCHANGED <<directory, made, tool, reached>>

\* os.replace; when anything raises the temporary file is removed.
Replace(p) ==
    /\ Runs(p, "filesystem", "overwrite", "temporary")
    /\ \/ /\ HasSource(Target(p))
          /\ source' = [source EXCEPT ![Target(p)] = "operator"]
          /\ edited' = edited \cup {Command(p)}
          /\ Ends(p, "zero")
       \/ Ends(p, "exception") /\ UNCHANGED <<source, edited>>
    /\ UNCHANGED <<directory, made, tool, reached>>

\* counter_template apply up to the program id, which is read from the source.
CheckTemplate(p) ==
    LET t == Target(p)
    IN  /\ Runs(p, "counter_template", "apply", "adapter")
        /\ \/ /\ HasSource(t) /\ directory[t] \in Projects /\ source[t] # "truncated"
              /\ AdapterAt(p, "rendering")
           \/ Ends(p, "exception")
        /\ UNCHANGED world

\* The rendered source is written over it in place; directories that have
\* gone are made again.
OpenTemplate(p) ==
    LET t == Target(p)
    IN  /\ Runs(p, "counter_template", "apply", "rendering")
        /\ \/ /\ source' = [source EXCEPT ![t] = "truncated"]
              /\ \/ Exists(t) /\ UNCHANGED <<directory, made>>
                 \/ Missing(t) /\ Make(Command(p), t)
              /\ AdapterAt(p, "writing")
           \/ Ends(p, "exception") /\ UNCHANGED <<directory, source, made>>
        /\ UNCHANGED <<edited, tool, reached>>

\* What is written goes to the file that was opened, whether or not another
\* has taken its name; a later file of the template may fail.
WriteTemplate(p) ==
    LET t == Target(p)
    IN  /\ Runs(p, "counter_template", "apply", "writing")
        /\ \/ /\ source' = IF source[t] = "truncated"
                           THEN [source EXCEPT ![t] = "template"] ELSE source
              /\ \E result \in {"zero", "exception"} : Ends(p, result)
           \/ Ends(p, "exception") /\ UNCHANGED source
        /\ UNCHANGED <<directory, made, edited, tool, reached>>

-----------------------------------------------------------------------------
(* External tools                                                          *)

\* What the adapter looks at before it starts the tool: scaffold wants no
\* directory, the others want one, and deploy a cluster it knows.
MayStart(k) ==
    CASE ask[k].name = <<"anchor", "scaffold">> -> Missing(Place(k))
      [] ask[k].name = <<"anchor", "deploy">> -> Exists(Place(k)) /\ ask[k].aim # "other"
      [] OTHER -> Exists(Place(k))

ToolOperations == {"scaffold", "test", "deploy"}

StartTool(p) ==
    /\ \E operation \in ToolOperations : Runs(p, "anchor", operation, "adapter")
    /\ \/ /\ MayStart(Command(p))
          /\ tool' = [tool EXCEPT ![Command(p)] = "started"]
          /\ AdapterAt(p, "tool")
       \/ ~MayStart(Command(p)) /\ Ends(p, "exception") /\ UNCHANGED tool
    /\ UNCHANGED <<tree, reached>>

\* anchor init refuses a directory that exists, and fills the one it made,
\* unless that has gone.
Scaffold(k) ==
    LET t == Place(k)
    IN  /\ ask[k].name = <<"anchor", "scaffold">>
        /\ \/ /\ tool[k] = "started" /\ Missing(t)
              /\ tool' = [tool EXCEPT ![k] = "half"]
              /\ Make(k, t)
              /\ UNCHANGED source
           \/ /\ tool[k] = "half" /\ directory[t] = "empty" /\ source[t] = "absent"
              /\ tool' = [tool EXCEPT ![k] = "done"]
              /\ directory' = [directory EXCEPT ![t] = "local"]
              /\ source' = [source EXCEPT ![t] = "generated"]
              /\ UNCHANGED made
           \/ /\ tool[k] = "half" \/ (tool[k] = "started" /\ Exists(t))
              /\ tool' = [tool EXCEPT ![k] = "failed"]
              /\ UNCHANGED <<directory, source, made>>
        /\ UNCHANGED <<edited, reached>>

IsDeployment(k) == ask[k].name = <<"anchor", "deploy">>

\* anchor deploy sends to the cluster it was given, anchor test to the one
\* that Anchor.toml names, or to a validator of its own when that is local.
Transact(k) ==
    LET t == Place(k)
    IN  /\ IsDeployment(k) \/ ask[k].name = <<"anchor", "test">>
        /\ \/ /\ tool[k] = "started" /\ Exists(t) /\ directory[t] \in Projects
              /\ tool' = [tool EXCEPT ![k] = "half"]
              /\ reached' = IF IsDeployment(k) \/ directory[t] = "devnet"
                            THEN reached \cup {k} ELSE reached
           \/ /\ tool[k] \in {"started", "half"}
              /\ tool' = [tool EXCEPT ![k] = "failed"]
              /\ UNCHANGED reached
           \/ /\ tool[k] = "half"
              /\ tool' = [tool EXCEPT ![k] = "done"]
              /\ UNCHANGED reached
        /\ UNCHANGED tree

ToolStep(k) ==
    /\ Scaffold(k) \/ Transact(k)
    /\ UNCHANGED <<journal, profile, ask, at>>

Active == {"started", "half"}

\* Mutant of EndTool: the runner stops waiting and leaves the tool alone.
EndToolAndForget(p) ==
    LET k == Command(p)
    IN  /\ pc[p] = "executing" /\ at[p] = "tool"
        /\ \/ tool[k] = "done" /\ Ends(p, "zero")
           \/ tool[k] = "failed" /\ Ends(p, "nonzero")
           \/ tool[k] \in Active /\ \E result \in {"timeout", "interrupt"} : Ends(p, result)
        /\ UNCHANGED <<tree, tool, reached>>

\* ProcessRunner.run: the tool ends, or is killed at the timeout or at a
\* keyboard interrupt.
EndTool(p) ==
    LET k == Command(p)
    IN  /\ pc[p] = "executing" /\ at[p] = "tool"
        /\ \/ tool[k] = "done" /\ Ends(p, "zero") /\ UNCHANGED tool
           \/ tool[k] = "failed" /\ Ends(p, "nonzero") /\ UNCHANGED tool
           \/ /\ tool[k] \in Active
              /\ tool' = [tool EXCEPT ![k] = "killed"]
              /\ \E result \in {"timeout", "interrupt"} : Ends(p, result)
        /\ UNCHANGED <<tree, reached>>

-----------------------------------------------------------------------------

Adapter(p) == \/ ReadPath(p) \/ CreateWorkspace(p) \/ WriteTemporary(p) \/ Replace(p)
              \/ CheckTemplate(p) \/ OpenTemplate(p) \/ WriteTemplate(p)
              \/ StartTool(p) \/ EndTool(p)

Next ==
    \/ \E p \in Procs : Evaluate(p) \/ JournalStep(p) \/ Adapter(p) \/ Die(p)
    \/ \E k \in Keys : Operator(k) \/ ToolStep(k)
    \/ \E t \in Targets : Remove(t)

Spec == Init /\ [][Next]_vars

-----------------------------------------------------------------------------
(* Properties                                                              *)

Approved(k) == policy[k] = "require_approval" /\ approval[k] = "consumed"

\* What a command did to a workspace or to a cluster, the profile has a rule
\* for, or an operator approved: the creation of a workspace is that of one of
\* its paths which exists, under the read-only profile, too.  Overwrites and
\* deployments are approved, and a deployment was not decided on without its
\* facts, nor sent to another network.
EffectsAreGoverned ==
    \A k \in Keys :
        /\ made[k] # None =>
              \/ profile # "read-only"
              \/ ask[k].name = <<"filesystem", "create_workspace">> /\ Approved(k)
        /\ k \in edited => profile # "read-only" /\ Approved(k)
        /\ k \in reached =>
              /\ profile # "read-only"
              /\ IsDeployment(k) =>
                    /\ Approved(k)
                    /\ {ask[k].cluster, ask[k].aim} \subseteq {"localnet", "devnet"}
                    /\ ask[k].wallet /\ ask[k].contract /\ ask[k].lamports = "within"

\* A recorded success is of a command that did what it was asked for, in
\* whatever order others worked on the same workspace, or removed it: it made
\* its directory itself, replaced its source, or sent its transactions.
SuccessIsDone ==
    \A k \in Keys :
        status[k] = "succeeded" =>
            /\ ask[k].name \in {<<"filesystem", "create_workspace">>, <<"anchor", "scaffold">>} =>
                  made[k] = Place(k)
            /\ ask[k].name = <<"filesystem", "overwrite">> => k \in edited
            /\ IsDeployment(k) => k \in reached

\* The source of an operator, in a workspace that is not removed, is torn and
\* replaced by the template only: an overwrite that is killed, or loses a
\* race, leaves a whole file, and anchor init fills no directory with a source
\* in it.  The template does so on the word of its rule, with no approval.
EditsAreDeliberate ==
    [][\A t \in Targets :
          source[t] = "operator" /\ source'[t] # "operator" /\ directory'[t] # "absent"
          => \E k \in Keys : /\ ask[k].name = <<"counter_template", "apply">>
                             /\ Place(k) = t
                             /\ profile # "read-only"
                             /\ status[k] \in {"running", "interrupted"}]_vars

\* The tool of a command whose result is recorded is no longer at work; only
\* a command that a recovery interrupted may still have one.
RecordedMeansStopped ==
    \A k \in Keys : tool[k] \in Active => status[k] \in {"running", "interrupted"}

\* The journal's part of every step is a step of CommandJournal.
ImplementsCommandJournal == J!Spec
=============================================================================
