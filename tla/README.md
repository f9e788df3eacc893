# Solana Agent: TLA+ verification

This directory holds TLA+ models of the parts of Solana Agent whose correctness depends on
the order of things: which transaction commits first, who dies when, which answer is lost.
TLC checks the models on small instances; TLAPS proves the main safety properties for every
value of the constants. Paths such as `gateway/journal.py` are relative to the repository's
root, `PROJECT.json` maps each definition to the lines it models.

| module | role |
|---|---|
| `GatewayExecution` | the Solana execution backend: prepare, authorize-and-execute, status, recover |
| `GatewayCallers` | how it is called: in a quiet setting, where handlers do not overlap, and a busy one |
| `SingleBroadcast` | what the backend promises: one authorization, one broadcast, one transfer |
| `GatewayJournal` | the gateway's request journal and dispatch |
| `OneAnswer` | what it promises: one backend call and one answer for an id |
| `GatewaySystem` | the two composed: the journal's backend call is a handler of the backend |
| `ChaosScenario` | the scripts of the chaos harness, and free callers, as clients of `GatewaySystem` |
| `CommandJournal` | the runtime's governed commands, approvals and orphan recovery |
| `GovernedCommand` | what it promises: considered, permitted, started, executed, ended |
| `PolicyEngine` | the guards and rules that decide on a command, as operators |
| `Workbench` | `CommandJournal` composed with `PolicyEngine`, the adapters, a workspace and external tools |
| `MissionEngine` | the mission engine: start, resume and drive of a run, with the mission graph |
| `GovernedMission` | what it promises: accepted once, executed after what it depends on, done for good |
| `Migrations` | the upgrade of the SQLite schema at every start |
| `LegacyRunner` | the older mission runner with its JSON files |
| `GatewayExecutionProofs`, `GatewayJournalProofs`, `GatewaySystemProofs`, `CommandJournalProofs`, `MissionEngineProofs`, `MigrationsProofs`, `WorkbenchProofs`, `LegacyRunnerProofs` | theorems about the module of that name, `GatewaySystemProofs` also about `ChaosScenario` |
| `MCGatewayExecution`, `MCTwoRequests`, `MCGatewayJournal`, `MCChaosScenario`, `MCCommandJournal`, `MCWorkbench`, `MCMissionEngine`, `MCMigrations`, `MCLegacyRunner` | instances for TLC |

To run: `tlc -config GatewayJournal.cfg MCGatewayJournal.tla` and so on for each `.cfg`;
`tlapm GatewayJournalProofs.tla` for the proofs.

## 1. The system

Two programs share the repository.

* **The runtime** (`solana_agent/`) runs missions: a graph of steps, each of which submits a
  command to the command journal. The journal asks the policy engine, requests approvals,
  calls an executor (an adapter around a subprocess or an RPC) and stores the result. All
  state is in one SQLite file; any number of runtime processes and the command line open it.
* **The external gateway** (`gateway/`) is a process that reads JSON lines on stdin and
  answers on stdout. Its transport journal makes requests idempotent; its backends prepare
  Solana transfers and broadcast them after an external authority has signed an
  authorization. Each has tables in SQLite; a caller may start any number of processes.

Nothing is shared between the two but the host. Within each, processes interact only
through SQLite transactions (`BEGIN IMMEDIATE`) and, in the gateway, through the cluster
behind the RPC endpoint.

### Components

| component | source | state | operations | hard behaviour | what makes it correct |
|---|---|---|---|---|---|
| Preparation backend | `gateway/solana_prepare.py` | `prepared_executions` | prepare, status, recover, expire | two prepares race past the replay check; expiry races the claim | one active preparation for an obligation |
| Execution backend | `gateway/solana_execute.py` | `execution_attempts`, the cluster | claim, send, record, status, recover | death between claim, send and record; lost RPC answers; stale answers; two recoveries | one send, after a durable claim; recorded outcomes are true; final outcomes are learned |
| Gateway journal and dispatch | `gateway/journal.py`, `service.py`, `protocol.py`, `cli.py` | `gateway_requests`, `gateway_events`, stdout | reserve, record_response, complete, handle | same id from two processes; death before or after the flush; busy database | one backend call, one answer, nothing printed that is not stored |
| Command journal | `solana_agent/execution/`, `contracts/command.py` | `commands`, `policy_decisions`, `artifacts` | plan, validate, execute, execute_approved, cancel, recover | submissions race on one key; cancel and recovery race the executor; a storage error in the middle | executed at most once, only when permitted, recorded truthfully |
| Approval service | `solana_agent/authority/approvals.py` | `approvals` | request, approve, deny, consume, expire | a stale check before the consuming transaction | an approval is used once and settled once |
| Repository, database, migrations | `solana_agent/storage/` | the SQLite file, `schema_migrations` | transactions, migrations | starts that meet in a migration, a crash inside one | a runtime opens on a complete schema only |
| Mission engine | `solana_agent/missions/engine.py`, `contracts/mission.py` | `runs`, `mission_steps` | start, resume, drive, approvals | crash while a step runs; two resumes | a step follows its dependencies; a run can go on |
| Mission graph | `solana_agent/missions/graph.py` | none | validate, order | cycles, duplicates | the order respects every dependency |
| Policy engine | `solana_agent/authority/policy.py` | none | evaluate | a decision on files that change before the command runs | what happens was permitted for what was there |
| Adapters and process runner | `solana_agent/adapters/` | directories, files, child processes, the cluster | execute of each adapter | two commands want one directory; a write is cut short; a tool outlives a killed runtime | a success is the command's own; files stay whole |
| Legacy mission runner | `solana_agent/runtime.py` | JSON files under `.solana-agent` | run_create_counter | a kill between two files, two runs for one path, a failure reported after the money is gone | approvals precede spending; records agree |
| Chaos harness | `gateway/chaos.py`, `gateway/chaos_scenario.py` | none of its own | eight scenarios | kills and lost answers at chosen points | each ends as documented |
| Local validator | `solana_agent/adapters/validator.py` | a child process | start, stop | exit during startup | a failed start can be repeated |
| Doctor, toolchain probes, redaction, loader, command line, scripts | see `PROJECT.json` | I/O or none | | | |

`PROJECT.json` lists every component with its status and every hazard at its line.

## 2. What is modelled

All models have the same grain: one action is one SQLite transaction or statement, one RPC
call, one call of the backend or executor, or one write to a file or to stdout, with the
local computation around it. What Python keeps in a variable across such a point is in `local[p]`; where the
handler stands is `pc[p]`. A process may be killed at any location, and because everything
it holds is then lost, a killed process is the same as one that is idle again.

### GatewayExecution

`prep` and `attempt` are the two tables with the columns the handlers branch on; `chain` is
what the cluster did with a request's transaction; `sends` counts `sendTransaction` calls;
`verdicts` are the answers of recover that a caller may act on: those that speak of the end of
a request (`Conclusive`), and every offer of `may_rematerialize`. Answers that leave the end
open (`submitted`, `needs_recovery`) are not remembered.

* prepare: `StartPrepare` is `replay_or_block` (replay, conflict, expiry of the old row,
  obligation already active), `SavePreparation` the insert with its second look at the
  obligation. Between them lie the RPC calls that compile and simulate the message.
* authorize-and-execute: `StartExecute` (terminal attempts are answered, expiry is stored),
  `CheckHeight`, `Claim` (one transaction: no attempt of this request, no other request
  under this authorization, insert with the signature), `Send` (the node takes it, refuses
  it, or the answer is lost either way), then `RecordSubmitted`, `RecordRejection` or
  `MarkNeedsRecovery`.
* status and recover: `StartInspection`, `Inspect`, `Query`, `RecordObservation`, `Reread`,
  `DecideByHeight`, and `SecondLook` for the preparation backend's recover, which asks the
  execution backend before it expires a preparation.
* environment: `BecomeLate` (`expires_at`), `BecomeStale` (`last_valid_block_height`), and
  the cluster's `Include`, `SettleBlock` (confirmation or rollback), `Drop`.

Two reads of the code are merged with the write after them where only monotone facts are
read (`late`, `stale` never become false again). Hash and signature checks only decide
whether a request reaches the next location. `broadcast_count` is the constant 1 of the
insert; `updated_at` orders nothing. Evidence only reads.

`GatewayCallers` adds nothing to the backend but the setting: `quiet` says whether handlers
take turns (`OneAtATime`), blocks are final (`NoRollback`) and the caller waits for
`may_rematerialize` (`CallerDiscipline`), and `TwoRequests` is the specification of both
settings. The properties that hold in the quiet one only are stated there, so that they can
be proved as well as checked; `MCTwoRequests` adds the symmetry of the instance.

### GatewayJournal

`Reserve` is `reserve` (new, replay, conflict, needs recovery); `Dispatch` the backend's
call; `Complete` and `CompleteRaises` the transaction inside the try block and in the except
clauses; `RecordResponse` the event for a refusal; `WriteResponse` the write and flush.
`Die` is a kill or an exception that leaves `handle`. Events are a set without sequence
numbers: the sequence is the table's row order and nothing reads it back.

### GatewaySystem

`GatewayJournal` and `GatewayExecution` as instances, with their own variables and actions:
`ReadRequest` and `HandleStep` are steps of the journal alone, `CallMethod` begins the
backend's handler for the reserved request, `MethodStep` is a step of that handler, and its
last one is at the same time the journal's `Dispatch`. `EndMethod` stands for methods that end without a step of
the backend's model (evidence, a replayed prepare, an unknown request), `MethodRaises` for
an exception that leaves the backend, `Die` for a kill, which loses both halves. What the
halves leave open is fixed here: `Ends` says with which result or error code a handler
returns from its last location. Error codes are kept by what they tell a caller (`Reasons`):
nothing was sent, the node refused it, or it may be out. `sender` is a history variable.

### ChaosScenario

A scenario is a sequence of stages; a stage has the calls that run together, the kill point
of each, the proxy's mode for `sendTransaction` and the height. `MayRead` lets a gateway read
a call of the stage, `Proxied` and `AtKillPoint` put in the fault, `NextStage` is the harness
that waits for the gateways' end. `drop_after_upstream` at the kill point stands for the
delay of `kill_during_send_transaction`: upstream has answered, the process is killed before
it hears. In the scenario `any` two callers execute under two ids and recover, in any order,
with kills, exceptions and a busy database everywhere.

### CommandJournal

A command is named by its idempotency key, which the table keeps unique. `Plan` is
`execute` up to the insert; `BeginValidation`, `Consult`, `Evaluate`, `Reject`, `Authorize`,
`RequestApproval`, `AwaitApproval` and `FailValidation` are the rest of the decision;
`StartRunning`, `CallExecutor`, `ExecutorReturns`, `RecordStreams` and `RecordOutcome` the
execution; `StartApproved`, `CheckApproval`, `Consume`, `AuthorizeApproved` and
`RefuseApproved` are `execute_approved` with `ApprovalService.consume`; `DecideApproval` and
`Cancel` come from any process; `StartRecovery`, `ExpireApproval`, `ListRunning`,
`Interrupt` and `EndRecovery` are the startup recovery with its two loops over rows read
earlier. Every transition is checked against `Successors`, the table
`COMMAND_STATUS_TRANSITIONS`, inside its transaction; a refused one raises. `Raise` follows
Python: inside the try block of `execute` the except clause moves the command to failed
(`FailValidation`), elsewhere the exception leaves the journal. `Refused` is a transaction
that fails. The policy's decision and the executor's outcome are nondeterministic; a
transition's row in the events table is part of the same transaction and left out.

### PolicyEngine and Workbench

`PolicyEngine` has no state: `Unsafe`, `Escapes` and `Occupied` are the guards of
`_guard_decision`, `RuleEffect` the table `DEFAULT_RULES` (its rules do not overlap, so first
match is a lookup), `Decision` is `evaluate`. A command is reduced to what they look at. Its
four path arguments are kept apart and in order (`KeyOrder`), because the guard asks for an
approval at the first one that exists, before it looks whether a later one escapes, and the
adapter works on one of them only.

`Workbench` is what `build_governed_runtime` puts together. The command journal is an
instance of `CommandJournal`; two of its steps are made precise: `Evaluate` decides with
`Decision` on the directories of that moment, and between `CallExecutor` and `Ends` the
adapter works on the directories as they are by then; an operator may remove one at any time
(`Remove`). Which one a command works on is `Place`: the argument its adapter reads, the cwd,
or, for `anchor init`, what the argument is to a process that resolves it against its own
directory (`lands`); `aim` is the cluster argument of a deployment, which the policy does not
look at. `CreateWorkspace` is the exclusive mkdir; `WriteTemporary` and `Replace` the
overwrite through a temporary file; `CheckTemplate`, `OpenTemplate` and `WriteTemplate` the
template: the program id is read, then the rendered source is written in place. `StartTool`
and `EndTool` are the process runner around `anchor init`, `anchor test` and `anchor deploy`,
whose own steps (`Scaffold`, `Transact`) are external; a test sends to the cluster that the
workspace's Anchor.toml names (`directory`), a deployment to its `aim`. A tool goes on when its
runtime is killed and is killed itself at a timeout or a keyboard interrupt. The other adapters
read, or run a tool in the same way. `made`, `edited` and `reached` are histories of what a
command did.

### MissionEngine

One run and the steps of its mission. `run`, `step`, `attempt` and `ref` are the columns of
`runs` and `mission_steps` that the engine reads; `dependsOn` is the mission the run was
created for, which `_verify_resume_compatibility` asks every resume to present again.
`command` and `approval` are the journal as the engine sees it: `planned` stands for
planned, validating and authorized, `ended` for every unsuccessful end. `CommandJournal`
models the journal in full.

* `Start`, `InitializeSteps`, `BeginRun` are `start`; `Resume`, `Interrupt`, `EndRecovery`,
  `BeginRun` are `resume` with the orphan recovery of the journal.
* `_drive` is a loop over `topological_steps`: `Visit` reads the record of the step that
  comes next (`FirstOf(Ready(...))`), `CheckDependencies` those of its dependencies; then
  `Block`, or `Prepare` (preconditions, templates, the key of the next attempt) and
  `BeginAttempt`, or `ReadApproval` and `ExecuteApproved` for a step that waits. `ReadSteps`
  and `CloseRun` compute and write the final status.
* `Plan`, `Judge`, `CallExecutor`, `RecordResult` are `execute`; `Returned` is its return
  to the engine, after which `AwaitApproval` or `Finish` (`_finish_step`, with acceptance
  checks that may fail) writes the record.
* `SetStep` is `set_mission_step_status`: an illegal transition raises out of the engine.
* `DecideApproval` is the operator and the clock, `Die` a kill or an exception.

`ValidGraph` is `validate_mission_graph`: the loop of `topological_steps` as a recursive
function over the number of steps it has put out, a mission being valid when all came out.
The reads of a step's dependencies are one action: a concurrent change between two of them
can only add an outcome in which the pass returns (waiting_dependency), which `Die` covers.
`ExecuteApproved` joins the consumption of the approval with the transitions to authorized
and running; a death in between leaves the engine a command that it cannot execute, as an
expired approval does. Cancelling a command ends it, which the journal model covers; nothing
in the runtime calls it.

### Migrations

`Database.initialize` statement by statement. `ReadVersions` is the transaction that reads
`schema_migrations`; `executescript` commits it and puts the connection into autocommit, so
each statement of a script (`ApplyStatement`) and the row of its version (`RecordVersion`)
is a transaction of its own. A statement of the first script can be repeated (`IF NOT
EXISTS`), one of the later ones raises when its effect is there, as does a second row of a
version. `Fail` is a kill, a full disk or a lock that was not to be had.

### LegacyRunner

`run_create_counter` of any number of runs for one path: one action is one file or one tool.
`Following` is the order of the function; `Fail` a `RuntimeErrorWithContext`, which the
except clause turns into two writes; `Die` a kill, or any other exception, which nobody
catches: the file being written may be cut short, and the tool being run may have done its
work. `spent` is what the cluster carried out, `builder` the run that made the workspace.
`anchor test` is among the tools that spend: it starts no validator of its own and uses the
cluster and keypair that the runner wrote into Anchor.toml.

## 3. What the runs show

| run | instance | shows |
|---|---|---|
| `execution_races` | 1 request, 3 processes | `SingleBroadcast` is implemented; what is recorded is true, receipts stay, confirmations and recovered failures that were told stay true |
| `execution_two_requests` | 2 requests for 1 obligation, 2 processes, in a busy and a quiet setting | busy: an authorization is used once, an obligation has one active preparation; quiet: one transfer for an obligation, `may_rematerialize` is right, final observations stay, `failed_before_broadcast` is said of unsent requests only |
| `execution_liveness` | 1 request, 2 processes | a final outcome is learned |
| `rematerialize_race` | 1 request, 2 processes | violation, see section 5 |
| `gateway_journal` | 1 id, 2 inputs, 3 processes | `OneAnswer` is implemented; nothing else is told; a stored answer reaches a caller who keeps asking |
| `chaos` | 6 ids, 1 request, 2 processes, all scenarios | answers and errors say what was done; every send is accounted for, none follows an answer; scenarios end as documented |
| `command_journal` | 1 key, 3 processes | `GovernedCommand` is implemented; permitted first, results true, approvals settle once, nothing stays running |
| `workbench` | 2 commands, 2 workspaces, 2 processes | effects have a rule or an approval, successes are the command's own, only the template tears a source, no tool outlives its record |
| `mission_engine` | 2 steps in a chain, the first gated, 2 processes | `GovernedMission` is implemented; successes are backed |
| `mission_alone` | 3 steps: a fork, a join and a cycle, the first step gated, 1 process | a completed run is done (the order left no step out), succeeded steps never execute again |
| `migrations` | 3 starts, the 17 statements of the three versions, 2 interruptions | recorded versions are applied; a runtime opens on a complete schema; meeting starts do not tear it and one finishes |
| `legacy_runner` | 2 runs, any flags | approvals precede airdrop, deployment and invocation, a completed run is whole, session and run agree on the end |

The runs check what the refinements do not already say. That `sendTransaction` is called at
most once and after the durable claim, that an id reaches the backend once and a stored
answer is never replaced, that a command and an attempt are executed once and after their
journal entry, and that dependencies come first, are consequences of the refinements
checked, and theorems of section 4; so are the type invariants.

**Bounds.** In `GatewayExecution`, `GatewayJournal` and `CommandJournal` no counter is capped: calls and sends are bounded by what the properties say
(a violation is found before they grow), and rows only move forward. Requests, ids and keys
interact only through an authorization, an obligation (two requests) or not at all (one id,
one key), so one or two of each meet every guard. Two processes make every pairwise race;
the third lets a recovery watch two others race, or a third submitter see what the loser of
a race left. Two inputs under one id make a conflict; three would be compared by the same
equality. `MissionEngine` names its bounds: `MaxAttempts` = 2 attempts of a step are what a
retry, and a retry after a success, need; `MaxCommands` caps the commands of the run (3 and
4: every step, and one retry more in the pair of two processes); both are guards of the
model, `MaxCommands` in `Prepare` and `MaxAttempts` in `Prepare` and `BeginAttempt`. A chain
of two is enough for blocking and unblocking; the graphs of three steps are a fork and
a join, each against the order of the mission, and a cycle beside an ordered step, which is
refused. `Gated` is one step, so that a run has steps
with and without an approval. The theorems remove these bounds for the properties of section 4.

`execution_two_requests` has the two settings of `GatewayCallers` because some properties hold only when handlers do
not overlap (section 5 says what happens when they do): in the quiet one a handler starts
when no other is under way, blocks are not rolled back and the caller prepares an obligation
again only after `may_rematerialize`; a second authorization lets the second request be
executed. In the busy one blocks roll back, there is one authorization and preparations run
out by block height alone: both expiries write the same column, and `execution_races` has
wall-clock expiry among overlapping handlers.
`RecordedStateIsTrue` exempts failures where blocks roll back, so it is checked in
`execution_races`, which rolls nothing back; the theorem `RecordsTrue` has both. `MaxAsked` = 3 requests in the scenario `any` of `chaos` are an execution, a
repetition or a competing one, and a recovery. The `workbench` cases pair commands that
interact: both make the directory, one needs what the other makes, both edit one file, one
names a workspace and works beside it, a test meets a workspace for devnet; and, one by one,
every command a guard or an adapter refuses. `MaxFailures` = 2 interruptions of `migrations`
are one in the repetition of an interrupted script; the lengths of the scripts are those of
`MIGRATIONS`. Two legacy runs are all that can want one path at a time: a third would find
what the second finds.

**Symmetry** of processes (and requests, authorizations) is used only in runs without a
liveness property. `execution_races` also has a view (`RacesView`): it does not tell apart whether
a `failed_before_broadcast` without an offer was told, which none of its properties reads.

**Fairness.**
* `GatewayExecution`: a handler that is not killed goes on (weak fairness; each RPC call has
  a timeout and each transaction ends); a caller asks for recovery again and again, and some
  query gets the node's answer and survives to store it (strong fairness: without it every
  process may be killed before its write for ever). `late` does not change in this run: it
  concerns preparations only, and keeps the state graph small.
* `GatewayJournal`: the caller repeats the request, and a process is not killed before
  every single print.
* `CommandJournal`: a process that is not killed goes on, the executor returns (adapters
  pass a timeout to the subprocess), and the runtime is started again and again, at times
  surviving its recovery.

* `Migrations`: a start that was begun goes on until it is through, raises or is interrupted;
  nobody has to begin one.

Nothing fair is assumed of the caller's discipline, the policy, the operator, or the clock.

## 4. What is proved

For any sets of requests, authorizations, plans, processes, ids, inputs and keys; the only
assumptions are that `None` is not one of them and that `ForksPossible` is a Boolean. Three
groups of theorems assume more, and what they assume is where the property stops being true:
`ReceiptNeverReplaced` that blocks are not rolled back (`~ForksPossible`; a rolled back
failure may be followed by a confirmation), the theorems about `TwoRequests` its quiet setting,
and `CompletedRunsAreDone` and `SucceededStepsAreTerminal` that passes over a run do not
overlap (`[]Alone`; section 5 says what two of them do). All three are satisfiable: they are
the settings of `execution_races`, `execution_two_requests` and `mission_alone`. For
`MissionEngine`: any finite set of numbered steps, any set of dependency maps over them, any
bounds. For `Migrations`: any number of versions, any lengths of their scripts, any choice of
repeatable ones. For `GatewaySystem`: any set of well formed inputs. For `ChaosScenario`: any
scenarios of `ScenarioNames`, any sets around the fixture's processes, ids, request, plan and
authorization, whose ids differ where the harness has two names (`FixtureAssumption`), and a
node that rolls nothing back. For `Workbench`: any
workspaces (but for the two names that stand for no path and a path outside,
`TargetsAssumption`), and any commands (`Asks`) whose fields are those the policy engine knows
(`AsksAssumption`). For `LegacyRunner`: any number of runs.

The inductive invariants (`BroadcastInv`, `TruthInv`, `QuietInv`, `JournalInv`, `CommandInv`,
`MissionInv`, `LoneInv` and those of `MigrationsProofs`, `GatewaySystemProofs` and
`WorkbenchProofs`) were checked with TLC on the
instances of section 3 while they were found, the story of the scripts on every state of the
run `chaos`; with the proofs no run repeats that.

Each proofs module has the same layout. `Typed` adds to `TypeOK` what a process holds at
each location (a handler in the middle has a request), one lemma for each group of actions;
then the inductive invariant, action by action; then the properties as consequences.

* `GatewayExecutionProofs`. `TypeOK` and `AtMostOneSend` are not inductive: that a process
  about to send has not sent needs that it alone inserted the attempt. `BroadcastInv` says
  so: a process at `claimed` is the only one for its request and `sends` is still 0; an
  attempt without a row has neither an authorization nor a send; authorizations are bound
  once. From it: `SendOnce`, `SignatureFirst`, `AuthorizationConsumedOnce`, and
  `Refinement` to `SingleBroadcast` (claim, broadcast and application map to their actions,
  everything else stutters). `OneActive` has an invariant of its own size: the second look
  of `SavePreparation` is in the inserting transaction.

  `TruthInv` is a second invariant, about what is recorded and told. That a row tells the
  truth is not inductive, because an observation is written long after it was made and over
  whatever stands in the row; so the invariant also speaks of what each handler holds
  (`JobTrue`: the node's answer, the state it read, the observation) and of the verdicts, and
  rests on what the cluster does not take back (`Irreversible`): a confirmed transaction, a
  send, and, without forks, a failure. From it: `RecordsTrue`, `RecoveredTrueForever` (of the
  two outcomes that are about the cluster; `failed_before_broadcast` may be wrong when handlers
  overlap, section 5), and
  `ReceiptNeverReplaced`, that a late observer who overwrites a final receipt has seen the
  same end. It also says what is left of `NoRematerializationUnderUncertainty` when handlers
  overlap and nothing is rolled back. `MistakesShow`: an offer that was wrong is one of an
  expired preparation, and there is an attempt, which a status call shows.
  `ClosedIsNeverSent`: a preparation that expired without an attempt, once no handler is
  between its expiry check and its claim (`Closed`), is never sent. So a caller who has been
  offered a replacement, lets the running calls end and asks for the status again is safe.

  `QuietInv` is the third, for the quiet setting of `TwoRequests`: what a handler read of the
  tables is still so when it writes (`HandlersOK`); what recover offered for replacement is a
  recorded failure, or has expired without an attempt and never gets one (`OffersTrue`,
  `Careful`); and of two preparations of one obligation one was offered (`Waited`). Together
  with `TruthInv(FALSE)` it gives `OffersAreSafe`, `SettledOnce`, `FinalObservationStays`,
  `FailuresBeforeBroadcast` and `ClaimBindsActive`: of two confirmed transfers for an obligation one would have been
  offered, and what was offered does not become a transfer.
* `GatewayJournalProofs`. `JournalInv`: the process that reserved an id works on it alone,
  finds its row as it left it, and whatever is being printed or was printed is in the row.
  `StepOf` reduces each action to what it does to its own job, given that rows keep their
  owner and response (`RowsKept`). From it: `DispatchOnce`, `Agreement`, `Truthfulness`,
  `StoredResponseStays` (the unguarded UPDATE of `complete` replaces nothing, because the
  reservation is unique) and `Refinement` to `OneAnswer`.
* `CommandJournalProofs`. `CommandInv` is a conjunction about commands (`DecisionsInv`,
  `StartInv` and three safety properties), about each process (`DeciderOK`, `ExecutorOK`)
  and about pairs: two processes never decide, nor execute, the same command. That no one
  interferes with a decision but a cancellation is the heart of it: a second process can
  neither refuse, fail nor authorize a command in `validating`, because its own location
  implies a status beyond it. `StepOf` splits the invariant by command and process,
  `MoveStep` and `SettleStep` handle all status changes and all approval changes. From it:
  `ExecutedOnce`, `JournalFirst`, `Authorized`, `ResultsAreTrue`, `ApprovalsSettle` and
  `Refinement` to `GovernedCommand`. `OwnersInv` is a second invariant, for `Workbench`: what
  a process at each location may still find as its command's status, and that no second one
  starts or fails the command meanwhile.

* `MissionEngineProofs`. `MissionInv` relates the ledger, the journal and the passes: a step
  beyond blocked, or one with a command, has its dependencies met (`GraphInv`); a step's
  command is its own, a recorded success was executed (`RecordsInv`); what each pass holds
  at its location, and that two passes never execute the same command (`PassesInv`). The
  last is why an attempt executes once although passes share keys: only the pass whose
  insert succeeded may judge the command, and only the one that consumed its approval may
  go on with it. That succeeded steps stay so is what makes dependencies stable under
  concurrent passes; it is `Grows`, which every step keeps. `StepOf` and `CommandStep`
  reduce an action to the one step or command it writes. From it:
  `DependenciesComeFirst`, `AttemptsExecuteOnce`, `SuccessesAreBacked` and `EngineGoverns`,
  the refinement of `GovernedMission`.

  `CyclesAreRefused` is about the graph alone: `validate_mission_graph` accepts a dependency
  map exactly if no non-empty set of steps depends on itself (`Acyclic`), for any finite
  mission. The loop is a recursive function over the naturals; where one would argue by
  induction on what it has put out, the proof takes the least number at which something goes
  wrong (`LeastNumber`, from the well-foundedness of the library). `NothingLeftOut` is its
  half that the engine needs.

  `LoneInv` is for passes that do not overlap: a pass is through only with steps that have
  ended, works on one that has not succeeded, and closes the run as completed when all have.
  With `NothingLeftOut` (a drive over a valid graph reaches every step) it gives
  `CompletedRunsAreDone`; with what `GovernedMission` promises, `SucceededStepsAreTerminal`.

* `MigrationsProofs`. The heart is that a process in the middle of a script has the
  statements before its own in the file, and that what it read at its start was recorded, so
  that a version it passes over is complete: `RecordedIsAppliedHolds`, `OpenIsCompleteHolds`.
  `TornOnlyByFailureHolds` needs a history argument instead: without an interruption some
  process is still in every script that was begun and has no row, because the one whose
  statement is the furthest is not refused.
* `GatewaySystemProofs`. `JournalRefined` and `BackendRefined` show that each step of the
  composition is a step of each half or leaves it alone, so that the theorems of the halves
  hold of the whole and are cited for it. `SystemInv` ties the halves together: the sender
  of a request is an id, a backend handler runs in the process that reserved its request and
  up to the send under that request's authorization (`CoupledInv`), and every send is
  accounted for. From it: `SendsAccountedFor` and `NothingSentAfterAnswer`, which also needs
  the journal's theorem that only the process that reserved an id works on it. `AnswersInv`
  follows an answer from the backend into the journal: a running call has sent exactly from
  `Send` on (`CallOK`), what it ended with is backed by the tables and the cluster (`EndOK`),
  and so is what is stored (`StoredOK`). It is kept because a result speaks only of things
  the backend never takes back (`Kept`: plans, authorizations, receipts, sends). From it:
  `ResultsAreBacked` and `RefusalsSentNothing`, with `TruthInv` cited for the backend's half.

  The second half of the module is about `ChaosScenario`. `ChaosRefined`: each step of the
  harness is a step of the gateway, or changes nothing of it; so everything above holds in
  every scenario. `Documented`, that the scenarios end as documented, needs to know how far a
  script has come. `StageInv`: only the calls of the stage are served, under ids nobody has
  used before but in the replay; `CalmInv`: the plan is not late and nobody touches another
  request. `PhaseInv` has one invariant for each kind of stage: `PrepareInv`, `ExecuteInv`
  (what the execution has done at each location, and that a script which kills it or makes
  the proxy drop its answer does not let it come further), `StatusInv`, `EvidenceInv`,
  `ReplayInv`, `RecoverInv` (a failure on record, in a handler's hands or told is one the node
  has reported; a transaction that never arrived is found absent), and `RaceInv` for the two
  gateways (neither has claimed, or one has and the other has not tried or was refused).
  The lemmas `PrepareSteps`, `ExecuteSteps`, `StatusSteps`, `EvidenceSteps` and `RecoverSteps`
  say what a method does in this setting, location by location; `ReadsCall`, `TellsAnswer` and
  `KilledStays` what happens around it. Then each phase is kept by the steps inside it
  (`ExecuteStays` and the others) and handed on to the next one by `NextStage`
  (`PreparedNext`, `ExecutedNext`, `RacedNext`, `CheckedNext`). This is a statement about
  scenarios that come to their end; that each run of the harness does is a matter of its
  timeouts and not claimed.
* `WorkbenchProofs`. `Composition` shows that the journal's part of every step is a step of
  `CommandJournal`, so that `CommandInv` and `OwnersInv` are cited for it. On top of them:
  `PolicyInv`, that a started command has the policy engine's decision for some set of existing
  workspaces (`Judged`; which one does not matter, for workspaces come and go between the
  decision and the call); `WorkInv`, one `DoneInv` for each command: every effect has a started
  command of its kind behind it, a tool that got half way has made its directory or sent its
  transactions, and an exit code zero tells the truth; `StopInv`, that a process which is about
  to record something has no tool at work. `AdapterWork`, `ToolWork` and `NothingDone` reduce
  the adapters and tools to what they do for one command. What a decision entails is stated
  apart: `ReadOnlyApproved` (under read-only only the creation of a workspace is ever started
  that is not a read, and it is approved), `GatedApproved` (an overwrite or a deployment was
  approved, a deployment with its facts), `TemplateAllowed`. From them: `Governed`,
  `Successful`, `Deliberate` and `Stopped`.
* `LegacyRunnerProofs`. `RunInv` says what a run has filed (`PapersOK`), done (`WorkOK`) and
  recorded (`RecordsOK`) at each location; a run disturbs another only through the workspace,
  which has one maker for good. From it: `Approvals` (of airdrop, deployment and invocation; the test
  spends without one, section 5), `CompletedRuns` and `Agreement`.

**Only model-checked**: liveness (`OutcomeIsLearned`, `StoredAnswerIsTold`,
`RunningIsSettled`, `UpgradeFinishes`), which is out of the prover's reach.
`NoRematerializationUnderUncertainty` is false of the code (section 5) and proved for the
quiet setting. Every other property of a passing run is stated by
a theorem; so is `QuietClaim`, which no run checks (`ClaimBindsActive`).

## 5. Where the code and its documents disagree

With a run and its counterexample:

* `rematerialize_race`: recover finds no attempt and hands over to the preparation
  backend; another process, which passed its expiry check before, claims and sends; the
  preparation backend expires the row and answers `may_rematerialize: true` without
  looking at attempts again (`gateway/solana_execute.py:484`,
  `gateway/solana_prepare.py:429`). `docs/chaos-testing.md:13` promises no automatic
  rematerialization under uncertainty. Section 4 says what remains true (`MistakesShow`,
  `ClosedIsNeverSent`).

Met while modelling, and present in the behaviours of the models, but without a run of its own:

* In the race of `rematerialize_race`, when the preparation has not expired, recover answers
  `failed_before_broadcast` with `may_rematerialize: false` of a request that another process
  has claimed and sent (`gateway/solana_execute.py:486`, `gateway/solana_prepare.py:429`).
  `docs/external-execution-gateway.md:152` says that after broadcast recover asks for the
  signature. `verdicts` has these answers; `RecoveredOutcomesStay` claims nothing of them,
  `QuietFailedBeforeBroadcast` that they are true where handlers do not overlap. The attempt is
  there for a caller who asks again.
* The guard on an existing workspace comes before the rules and looks at four arguments, the
  adapter makes the destination. Under read-only a `create_workspace` whose `path` exists is
  sent to approval and, approved, makes a new directory
  (`solana_agent/authority/policy.py:431`, `adapters/filesystem.py:48`); so does one whose
  workspace is removed between decision and call. `docs/policy-engine.md:37` says of the
  profile: environment inspection and workspace reads only. `EffectsAreGoverned` states what
  holds, that the creation was approved.
* `anchor test` is allowed by a rule and sends to the cluster in the workspace's Anchor.toml,
  which may be devnet, under local-safe and without approval (`authority/policy.py:136`,
  `adapters/anchor.py:62`). `agent.md:60` requires an approval to deploy to devnet and
  `docs/policy-engine.md:38` calls the profile's operations local. `EffectsAreGoverned` asks an
  approval of deployments only.
* The template replaces a source of the operator's without approval
  (`adapters/counter_template.py:69`). The rule speaks of a newly scaffolded workspace
  (`authority/policy.py:132`), but nothing looks whether it is one; `docs/safety-model.md:10`,
  `agent.md:32` and `agent.md:64` require an approval. `EditsAreDeliberate` states that nothing
  else does so; the case `Overwrites, Applies` of the run `workbench` has it.
* The older runner's `anchor test --skip-local-validator` deploys to the mission's cluster and
  calls the program there, with the operator's keypair, before `approve_deploy` is looked at and
  also when the deployment is skipped (`solana_agent/runtime.py:299`, `:313`); `agent.md:60`
  requires an approval. `ApprovalOnFile` claims one for airdrop, deployment and invocation, and
  of the test that its workspace is the run's own.
* `record_observation` updates the row whatever it says; of two observers the one with the
  older answer replaces confirmed by submitted or needs_recovery
  (`gateway/solana_execute.py:289`). The receipt survives where blocks are
  not rolled back (`ReceiptDurable`) and later
  observations repair the state (`OutcomeIsLearned`); without overlap a final observation
  stays (`QuietTerminalObservation`). `docs/external-execution-gateway.md:153` says that it
  is persisted.
* Recovery interrupts every running row, also of live processes; nothing records who runs a
  command (`solana_agent/execution/journal.py:348`). `docs/command-journal.md:100` speaks of
  commands without a live process. The command may even reach its executor after it was
  marked interrupted; its result is then refused.
* Two processes may drive one mission run. While the first executes a step's command, a
  resume in the second finds a precondition unmet and sets the step failed; a third pass
  starts another attempt; the first sets the step succeeded; the third calls the executor
  for it (`solana_agent/missions/engine.py:146`,
  `solana_agent/storage/repositories.py:222`). `docs/declarative-missions.md:81` says that
  succeeded steps never execute again during resume.
* A start that is interrupted between two statements of version 2 or 3 leaves the first ones
  in the file without a row; every later start repeats the script and raises, and the
  runtime can not be opened any more (`solana_agent/storage/database.py:179`), although the
  loop stands in a transaction.
* `complete` runs inside the try block; when it raises after the backend succeeded, the
  except clause stores and replays a backend failure (`gateway/service.py:77`).
* An error of a block at commitment `processed` is stored as a final failure
  (`gateway/solana_execute.py:722`); with forks the transaction may still succeed. The
  properties exempt failures where `ForksPossible`.
* After a rejection by the node recover answers `may_rematerialize: true`
  (`gateway/solana_execute.py:492`), which the model treats as sound because a refused
  transaction was not accepted by that node.
* A command whose execution succeeded is recorded failed with `validation_exception` when
  storing its streams or result raises, since `_execute_authorized` is called inside the try
  block of `execute` (`solana_agent/execution/journal.py:218`).
* A crash between consuming an approval and authorizing the command loses the approval; a
  crash in planned, validating or authorized leaves the command there for ever.
* A mission step left running by a crash can not be resumed
  (`solana_agent/missions/engine.py:162` with `contracts/mission.py`): running to running
  is not a transition. A step that waits for an approval whose command ended before a crash
  stays there: every resume raises `command is not awaiting approval`. A run that crashed
  between `create_run` and `initialize_mission_steps` has no steps for ever.
* With two processes a run may be reported completed while the other pass drives a step of
  it again, and a pass that read a step before another's attempt submits that attempt's key
  and finishes the step with that attempt's command.
* The cluster that `anchor deploy` is given is the command's own argument
  (`solana_agent/adapters/anchor.py:70`), which may differ from the cluster of the context that
  the policy judged; and its scaffold resolves a relative workspace against the directory of the
  process (`anchor.py:96`), the policy against the workspace root (`policy.py:435`). Both are in
  the model (`aim`, `lands`); what the adapter accepts for a cluster is devnet or localnet.
* The template is written in place (`solana_agent/adapters/counter_template.py:69`): a write
  that is cut short leaves a source without `declare_id`, which every later apply refuses.
* A tool outlives a killed runtime; the command is then recorded interrupted while the tool
  still deploys (`solana_agent/adapters/process.py:56`).
* A run of the older runner that fails after a deployment leaves no deployment file.

## 6. Plan

Done: the execution and preparation backends, the gateway journal and their composition, the
chaos scenarios, the command journal with approvals and recovery, the policy engine with the
adapters, the mission engine with its graph, the migrations, the older runner. What would
come next:

1. `MissionEngine`'s journal refined to `CommandJournal`, so that the statuses the engine is
   told are shown to be those the journal can return. Liveness of a run driven by one
   process, with the crashes that leave it stuck as the exceptions.
2. `LocalValidator`, with its exit during startup, once the runtime uses it.

## 7. Not modelled, and why

* Doctor, toolchain probes, mission loader, redaction and both command lines' argument
  parsing: reading, parsing or string rewriting without state of their own. What redaction
  and parsing decide (a secret was found, a request is well formed) is an input of the
  models.
* The adapters `doctor`, `solana_rpc`, `evidence`, `package_manager` and `solana_cli`, and
  anchor's build and keys_list: they read, or start a tool through the same process
  runner as the operations of `Workbench`; they differ in the command line they build.
  Only the direct child is killed at a timeout (`adapters/process.py:56`); processes that a tool
  starts itself, such as the `solana program deploy` of anchor, may go on after that and are not
  told apart.
* Of the template the program's source only: that it also removes generated Rust tests and a
  `pnpm-lock.yaml`, and writes further files, is left out.
* `LocalValidator` (`solana_agent/adapters/validator.py`): only its own tests use it. When
  the validator exits during startup it keeps the dead process and refuses a second start.
* Shell scripts, templates, mission packs, skills and schemas are data, or wrappers of
  external tools.
* SQLite's atomicity and durability, the uniqueness of SHA-256 hashes and of Ed25519
  signatures are taken as given.
