----------------------------- MODULE Migrations -----------------------------
(***************************************************************************)
(* The schema of the runtime's SQLite file: Database.initialize, which     *)
(* every start of the runtime calls, with the list MIGRATIONS.             *)
(*                                                                         *)
(* initialize opens a transaction, but sqlite3's executescript commits the *)
(* pending transaction before it runs the script and the connection is in  *)
(* autocommit mode afterwards: every statement of a script, and the row in *)
(* schema_migrations, is a transaction of its own.  The statements of the  *)
(* first script say IF NOT EXISTS and can be repeated; those of the later  *)
(* ones raise when their table, column or index is already there.          *)
(***************************************************************************)
EXTENDS Integers

CONSTANTS Processes,    \* runtimes and command lines that share the file
          NVersions,    \* the number of migrations
          Length,       \* Length[v]: the number of statements of version v
          Repeatable,   \* the versions whose statements can be repeated
          MaxFailures   \* bound on kills and exceptions

Versions == 1..NVersions

ASSUME MigrationsAssumption ==
  /\ NVersions \in Nat
  /\ Length \in [Versions -> Nat \ {0}]
  /\ Repeatable \subseteq Versions
  /\ MaxFailures \in Nat

VARIABLES applied,    \* the statements whose effect is in the file
          recorded,   \* the versions that have a row in schema_migrations
          pc,         \* where each process stands
          at,         \* the version and the statement it is at
          seen,       \* the versions it read at the start
          failures    \* history: how many starts were interrupted

vars == <<applied, recorded, pc, at, seen, failures>>

ScriptOf(v) == {v} \X (1..Length[v])
ScriptsUpTo(k) == UNION {ScriptOf(v) : v \in 1..k}
Statements == ScriptsUpTo(NVersions)

\* The file is new, or was left complete by an earlier release.
Init ==
  /\ \E k \in 0..NVersions : recorded = 1..k /\ applied = ScriptsUpTo(k)
  /\ pc = [p \in Processes |-> "idle"]
  /\ at = [p \in Processes |-> <<0, 0>>]
  /\ seen = [p \in Processes |-> {}]
  /\ failures = 0

-----------------------------------------------------------------------------
\* The loop of initialize from version v on, for a process that read S:
\* versions in S are passed over, the first other one is executed, and when
\* none is left initialize returns.
Continue(p, v, S) ==
  \/ \E w \in Versions :
       /\ w >= v /\ w \notin S /\ v..(w - 1) \subseteq S
       /\ pc' = [pc EXCEPT ![p] = "script"]
       /\ at' = [at EXCEPT ![p] = <<w, 1>>]
  \/ /\ v..NVersions \subseteq S
     /\ pc' = [pc EXCEPT ![p] = "open"]
     /\ UNCHANGED at

\* BEGIN IMMEDIATE, the table of versions, the read of its rows, and the
\* commit: by executescript or, when nothing is left to do, at the end.
ReadVersions(p) ==
  /\ pc[p] = "idle"
  /\ seen' = [seen EXCEPT ![p] = recorded]
  /\ Continue(p, 1, recorded)
  /\ UNCHANGED <<applied, recorded, failures>>

Abandon(p) == pc' = [pc EXCEPT ![p] = "idle"] /\ UNCHANGED at

\* Mutant of ApplyStatement: leaves the loop one statement early.
ApplyStatement_OneShort(p) ==
  LET v == at[p][1]
  IN /\ pc[p] = "script"
     /\ applied' = applied \union {at[p]}
     /\ IF at[p] \in applied /\ v \notin Repeatable
        THEN Abandon(p)
        ELSE IF at[p][2] + 1 < Length[v]
             THEN at' = [at EXCEPT ![p] = <<v, @[2] + 1>>] /\ UNCHANGED pc
             ELSE pc' = [pc EXCEPT ![p] = "record"] /\ UNCHANGED at
     /\ UNCHANGED <<recorded, seen, failures>>

\* Mutant of ApplyStatement: forgets the row of the version.
ApplyStatement_NoRow(p) ==
  LET v == at[p][1]
  IN /\ pc[p] = "script"
     /\ applied' = applied \union {at[p]}
     /\ IF at[p] \in applied /\ v \notin Repeatable
        THEN Abandon(p)
        ELSE IF at[p][2] < Length[v]
             THEN at' = [at EXCEPT ![p] = <<v, @[2] + 1>>] /\ UNCHANGED pc
             ELSE Continue(p, v + 1, seen[p])
     /\ UNCHANGED <<recorded, seen, failures>>

\* One statement of the script.
ApplyStatement(p) ==
  LET v == at[p][1]
  IN /\ pc[p] = "script"
     /\ applied' = applied \union {at[p]}
     /\ IF at[p] \in applied /\ v \notin Repeatable
        THEN Abandon(p)   \* duplicate column name, table already exists
        ELSE IF at[p][2] < Length[v]
             THEN at' = [at EXCEPT ![p] = <<v, @[2] + 1>>] /\ UNCHANGED pc
             ELSE pc' = [pc EXCEPT ![p] = "record"] /\ UNCHANGED at
     /\ UNCHANGED <<recorded, seen, failures>>

\* Mutant of RecordVersion: goes on when the row is already there.
RecordVersion_IgnoresDuplicate(p) ==
  LET v == at[p][1]
  IN /\ pc[p] = "record"
     /\ recorded' = recorded \union {v}
     /\ IF v \in recorded
        THEN pc' = [pc EXCEPT ![p] = "open"] /\ UNCHANGED at
        ELSE Continue(p, v + 1, seen[p])
     /\ UNCHANGED <<applied, seen, failures>>

\* Mutant of RecordVersion: ends after the first version it applied.
RecordVersion_ReturnsInLoop(p) ==
  /\ pc[p] = "record"
  /\ recorded' = recorded \union {at[p][1]}
  /\ Abandon(p)
  /\ UNCHANGED <<applied, seen, failures>>

\* The row of the version, whose primary key refuses a second one.
RecordVersion(p) ==
  LET v == at[p][1]
  IN /\ pc[p] = "record"
     /\ recorded' = recorded \union {v}
     /\ IF v \in recorded THEN Abandon(p) ELSE Continue(p, v + 1, seen[p])
     /\ UNCHANGED <<applied, seen, failures>>

\* A kill, a full disk, or a lock that was not to be had in 30 seconds.
Fail(p) ==
  /\ pc[p] \in {"script", "record"}
  /\ failures < MaxFailures
  /\ failures' = failures + 1
  /\ Abandon(p)
  /\ UNCHANGED <<applied, recorded, seen>>

\* The process that uses the runtime ends.
Close(p) ==
  /\ pc[p] = "open"
  /\ Abandon(p)
  /\ UNCHANGED <<applied, recorded, seen, failures>>

Next == \E p \in Processes :
  ReadVersions(p) \/ ApplyStatement(p) \/ RecordVersion(p) \/ Fail(p) \/ Close(p)

Spec == Init /\ [][Next]_vars

\* A start that was begun goes on; nobody has to begin one.
FairSpec == Spec /\ \A p \in Processes : WF_vars(ApplyStatement(p) \/ RecordVersion(p))

-----------------------------------------------------------------------------
TypeOK ==
  /\ applied \subseteq Statements
  /\ recorded \subseteq Versions
  /\ pc \in [Processes -> {"idle", "script", "record", "open"}]
  /\ at \in [Processes -> Nat \X Nat]
  /\ \A p \in Processes : pc[p] \in {"script", "record"} => at[p] \in Statements
  /\ seen \in [Processes -> SUBSET Versions]
  /\ failures \in 0..MaxFailures

\* A version with a row in schema_migrations has all its statements in the
\* file, however starts interleave and die, and so do those before it: a later
\* start that passes it over (database.py:176-178) skips nothing.
RecordedIsApplied ==
  \A v \in recorded : ScriptsUpTo(v) \subseteq applied

\* When initialize returns the schema is complete, also for a process that
\* read the versions while another one was in the middle of them.
OpenIsComplete ==
  \A p \in Processes : pc[p] = "open" => applied = Statements /\ recorded = Versions

Upgrading(v) == \E p \in Processes : pc[p] \in {"script", "record"} /\ at[p][1] = v
Torn(v) == v \notin recorded /\ ScriptOf(v) \intersect applied # {}

\* A version is left half applied, or applied without its row, only if a start
\* was interrupted: two starts that meet in a script may refuse one another,
\* but one of them goes on.
TornOnlyByFailure ==
  failures = 0 => \A v \in Versions : Torn(v) => Upgrading(v)

\* Of the starts that meet, one brings the schema up to date unless one is
\* interrupted; that the others raise out of initialize does not stop it.
UpgradeFinishes ==
  (\E p \in Processes : pc[p] # "idle") ~> (recorded = Versions \/ failures > 0)
=============================================================================
