-------------------------- MODULE MigrationsProofs --------------------------
(***************************************************************************)
(* Theorems about Migrations, for any number of processes, any list of     *)
(* scripts and any number of failures.                                     *)
(***************************************************************************)
EXTENDS Migrations, TLAPS

\* What a process in the loop knows: the versions before its own are recorded,
\* and so are the statements before the one it is at applied.
Behind(p) ==
  /\ 1..(at[p][1] - 1) \subseteq recorded
  /\ \A j \in 1..(at[p][2] - 1) : <<at[p][1], j>> \in applied
  /\ pc[p] = "record" => ScriptOf(at[p][1]) \subseteq applied

\* Statements reach the file in the order of the scripts.
InOrder ==
  \A v \in Versions : \A i \in 1..Length[v] : \A j \in 1..i :
    <<v, i>> \in applied => <<v, j>> \in applied

\* A process that will bring version v to its end: nothing of v that is in the
\* file lies before it, so that no statement of v refuses it.
Ahead(q, v) ==
  /\ at[q][1] = v
  /\ \/ pc[q] = "record"
     \/ pc[q] = "script" /\ v \in Repeatable
     \/ pc[q] = "script" /\ \A j \in 1..Length[v] : <<v, j>> \in applied => j < at[q][2]

Led == failures = 0 => \A v \in Versions : Torn(v) => \E q \in Processes : Ahead(q, v)

IInv ==
  /\ TypeOK
  /\ \A v \in recorded : 1..v \subseteq recorded /\ ScriptOf(v) \subseteq applied
  /\ \A p \in Processes : seen[p] \subseteq recorded
  /\ \A p \in Processes : pc[p] \in {"script", "record"} => Behind(p)
  /\ \A p \in Processes : pc[p] = "open" => recorded = Versions
  /\ InOrder

-----------------------------------------------------------------------------
LEMMA StatementsDef ==
  ASSUME NEW s
  PROVE  s \in Statements <=> \E v \in Versions : \E i \in 1..Length[v] : s = <<v, i>>
  BY DEF Statements, ScriptsUpTo, ScriptOf, Versions

LEMMA AtStatement ==
  ASSUME TypeOK, NEW p \in Processes, pc[p] \in {"script", "record"}
  PROVE  /\ at[p] = <<at[p][1], at[p][2]>>
         /\ at[p][1] \in Versions /\ at[p][1] \in Nat
         /\ at[p][2] \in 1..Length[at[p][1]] /\ Length[at[p][1]] \in Nat \ {0}
  <1>1. at[p] \in Statements BY DEF TypeOK
  <1>2. PICK v \in Versions : \E i \in 1..Length[v] : at[p] = <<v, i>> BY <1>1, StatementsDef
  <1> QED BY <1>2, MigrationsAssumption DEF Versions

\* What the loop does next leaves the process at the first statement of a
\* version it had not read, with all the versions before it in S, or at the end.
LEMMA ContinueLands ==
  ASSUME TypeOK, NEW p \in Processes, NEW v \in Nat, v >= 1, NEW S, Continue(p, v, S)
  PROVE  /\ \A q \in Processes : q # p => pc'[q] = pc[q] /\ at'[q] = at[q]
         /\ \/ /\ pc'[p] = "script"
               /\ \E w \in Versions : at'[p] = <<w, 1>> /\ w >= v /\ v..(w - 1) \subseteq S
            \/ pc'[p] = "open" /\ at' = at /\ v..NVersions \subseteq S
         /\ pc' \in [Processes -> {"idle", "script", "record", "open"}]
         /\ at' \in [Processes -> Nat \X Nat]
         /\ pc'[p] \in {"script", "record"} => at'[p] \in Statements
  <1>1. CASE \E w \in Versions :
               /\ w >= v /\ w \notin S /\ v..(w - 1) \subseteq S
               /\ pc' = [pc EXCEPT ![p] = "script"]
               /\ at' = [at EXCEPT ![p] = <<w, 1>>]
    <2>1. PICK w \in Versions :
               /\ w >= v /\ w \notin S /\ v..(w - 1) \subseteq S
               /\ pc' = [pc EXCEPT ![p] = "script"]
               /\ at' = [at EXCEPT ![p] = <<w, 1>>]
      BY <1>1
    <2>2. w \in Nat /\ 1 \in 1..Length[w] BY MigrationsAssumption DEF Versions
    <2>3. <<w, 1>> \in Statements BY <2>2, StatementsDef
    <2>4. pc'[p] = "script" /\ at'[p] = <<w, 1>> BY <2>1 DEF TypeOK
    <2> QED BY <2>1, <2>2, <2>3, <2>4 DEF TypeOK
  <1>2. CASE v..NVersions \subseteq S /\ pc' = [pc EXCEPT ![p] = "open"] /\ UNCHANGED at
    BY <1>2 DEF TypeOK
  <1> QED BY <1>1, <1>2 DEF Continue

LEMMA InitIInv == Init => IInv
  <1> SUFFICES ASSUME Init PROVE IInv OBVIOUS
  <1>1. PICK k \in 0..NVersions : recorded = 1..k /\ applied = ScriptsUpTo(k) BY DEF Init
  <1>2. \A s : s \in applied <=> \E v \in 1..k : \E i \in 1..Length[v] : s = <<v, i>>
    BY <1>1 DEF ScriptsUpTo, ScriptOf
  <1>3. 1..k \subseteq Versions BY <1>1, MigrationsAssumption DEF Versions
  <1>4. applied \subseteq Statements BY <1>2, <1>3, StatementsDef
  <1>5. TypeOK BY <1>1, <1>3, <1>4, MigrationsAssumption DEF Init, TypeOK, Versions
  <1>6. \A v \in recorded : 1..v \subseteq recorded /\ ScriptOf(v) \subseteq applied
    BY <1>1, <1>2 DEF ScriptOf
  <1>7. InOrder
    <2> SUFFICES ASSUME NEW v \in Versions, NEW i \in 1..Length[v], NEW j \in 1..i, <<v, i>> \in applied
                 PROVE  <<v, j>> \in applied
      BY DEF InOrder
    <2>1. v \in 1..k BY <1>2
    <2>2. Length[v] \in Nat BY MigrationsAssumption
    <2>3. j \in 1..Length[v] BY <2>2
    <2> QED BY <1>2, <2>1, <2>3
  <1> QED BY <1>5, <1>6, <1>7 DEF IInv, Init

-----------------------------------------------------------------------------
LEMMA TypeStep == TypeOK /\ [Next]_vars => TypeOK'
  <1> SUFFICES ASSUME TypeOK, [Next]_vars PROVE TypeOK' OBVIOUS
  <1>1. ASSUME NEW p \in Processes, ReadVersions(p) PROVE TypeOK'
    <2>1. Continue(p, 1, recorded) BY <1>1 DEF ReadVersions
    <2>2. /\ \A q \in Processes : q # p => pc'[q] = pc[q] /\ at'[q] = at[q]
          /\ pc' \in [Processes -> {"idle", "script", "record", "open"}]
          /\ at' \in [Processes -> Nat \X Nat]
          /\ pc'[p] \in {"script", "record"} => at'[p] \in Statements
      BY <2>1, ContinueLands
    <2> QED BY <1>1, <2>2 DEF ReadVersions, TypeOK
  <1>2. ASSUME NEW p \in Processes, ApplyStatement(p) PROVE TypeOK'
    <2> DEFINE v == at[p][1]
    <2>1. /\ at[p] = <<at[p][1], at[p][2]>> /\ v \in Versions /\ v \in Nat
          /\ at[p][2] \in 1..Length[v] /\ Length[v] \in Nat \ {0} /\ at[p] \in Statements
      BY <1>2, AtStatement DEF ApplyStatement, TypeOK
    <2>2. applied' \subseteq Statements BY <1>2, <2>1 DEF ApplyStatement, TypeOK
    <2>3. CASE UNCHANGED at /\ pc' \in {[pc EXCEPT ![p] = "idle"], [pc EXCEPT ![p] = "record"]}
      BY <1>2, <2>1, <2>2, <2>3 DEF ApplyStatement, TypeOK
    <2>4. CASE at[p][2] < Length[v] /\ at' = [at EXCEPT ![p] = <<v, @[2] + 1>>] /\ UNCHANGED pc
      <3>1. at[p][2] + 1 \in 1..Length[v] /\ at[p][2] + 1 \in Nat BY <2>1, <2>4
      <3>2. <<v, at[p][2] + 1>> \in Statements BY <2>1, <3>1, StatementsDef
      <3>3. at'[p] = <<v, at[p][2] + 1>> BY <2>4 DEF TypeOK
      <3> QED BY <1>2, <2>1, <2>2, <2>4, <3>1, <3>2, <3>3 DEF ApplyStatement, TypeOK
    <2> QED BY <1>2, <2>3, <2>4 DEF ApplyStatement, Abandon
  <1>3. ASSUME NEW p \in Processes, RecordVersion(p) PROVE TypeOK'
    <2> DEFINE v == at[p][1]
    <2>1. v \in Versions /\ v \in Nat /\ v >= 1
      BY <1>3, AtStatement DEF RecordVersion, Versions
    <2>2. CASE Abandon(p) BY <1>3, <2>1, <2>2 DEF RecordVersion, Abandon, TypeOK
    <2>3. CASE Continue(p, v + 1, seen[p])
      <3>1. v + 1 \in Nat /\ v + 1 >= 1 BY <2>1
      <3>2. /\ \A q \in Processes : q # p => pc'[q] = pc[q] /\ at'[q] = at[q]
            /\ pc' \in [Processes -> {"idle", "script", "record", "open"}]
            /\ at' \in [Processes -> Nat \X Nat]
            /\ pc'[p] \in {"script", "record"} => at'[p] \in Statements
        BY <2>3, <3>1, ContinueLands
      <3> QED BY <1>3, <2>1, <3>2 DEF RecordVersion, TypeOK
    <2> QED BY <1>3, <2>2, <2>3 DEF RecordVersion
  <1>4. ASSUME NEW p \in Processes, Fail(p) PROVE TypeOK'
    BY <1>4, MigrationsAssumption DEF Fail, Abandon, TypeOK
  <1>5. ASSUME NEW p \in Processes, Close(p) PROVE TypeOK'
    BY <1>5 DEF Close, Abandon, TypeOK
  <1>6. CASE UNCHANGED vars BY <1>6 DEF vars, TypeOK
  <1> QED BY <1>1, <1>2, <1>3, <1>4, <1>5, <1>6 DEF Next

\* A step of p changes what only p knows; what the file holds grows.
LEMMA OthersUntouched ==
  ASSUME IInv, NEW p \in Processes, applied \subseteq applied', recorded \subseteq recorded',
         \A q \in Processes : q # p => pc'[q] = pc[q] /\ at'[q] = at[q] /\ seen'[q] = seen[q],
         recorded' \subseteq Versions
  PROVE  \A q \in Processes : q # p =>
           /\ seen'[q] \subseteq recorded'
           /\ pc'[q] \in {"script", "record"} => Behind(q)'
           /\ pc'[q] = "open" => recorded' = Versions
  BY DEF IInv, Behind, ScriptOf, TypeOK

LEMMA StepIInv == IInv /\ [Next]_vars => IInv'
  <1> SUFFICES ASSUME IInv, [Next]_vars PROVE IInv' OBVIOUS
  <1> USE DEF IInv
  <1>T. TypeOK' BY TypeStep
  <1>1. ASSUME NEW p \in Processes, ReadVersions(p) PROVE IInv'
    <2>1. UNCHANGED <<applied, recorded>> BY <1>1 DEF ReadVersions
    <2>2. seen' = [seen EXCEPT ![p] = recorded] BY <1>1 DEF ReadVersions
    <2>3. Continue(p, 1, recorded) BY <1>1 DEF ReadVersions
    <2>4. /\ \A q \in Processes : q # p => pc'[q] = pc[q] /\ at'[q] = at[q]
          /\ \/ /\ pc'[p] = "script"
                /\ \E w \in Versions : at'[p] = <<w, 1>> /\ w >= 1 /\ 1..(w - 1) \subseteq recorded
             \/ pc'[p] = "open" /\ at' = at /\ 1..NVersions \subseteq recorded
      BY <2>3, ContinueLands
    <2>5. pc'[p] = "script" => Behind(p)' BY <2>1, <2>4 DEF Behind
    <2>6. pc'[p] = "open" => recorded' = Versions BY <2>1, <2>4 DEF Versions, TypeOK
    <2>7. pc'[p] # "record" BY <2>4
    <2>8. seen'[p] \subseteq recorded' BY <2>1, <2>2 DEF TypeOK
    <2>9. \A q \in Processes : q # p =>
            /\ seen'[q] \subseteq recorded'
            /\ pc'[q] \in {"script", "record"} => Behind(q)'
            /\ pc'[q] = "open" => recorded' = Versions
      BY <1>T, <2>1, <2>2, <2>4, OthersUntouched DEF TypeOK
    <2> QED BY <1>T, <2>1, <2>5, <2>6, <2>7, <2>8, <2>9 DEF InOrder, ScriptOf
  <1>2. ASSUME NEW p \in Processes, ApplyStatement(p) PROVE IInv'
    <2> DEFINE v == at[p][1]
    <2>1. /\ at[p] = <<v, at[p][2]>> /\ v \in Versions /\ v \in Nat
          /\ at[p][2] \in 1..Length[v] /\ Length[v] \in Nat \ {0}
      BY <1>2, AtStatement DEF ApplyStatement
    <2>2. UNCHANGED <<recorded, seen, failures>> /\ applied' = applied \union {at[p]}
      BY <1>2 DEF ApplyStatement
    <2>3. Behind(p) BY <1>2 DEF ApplyStatement
    <2>4. \A q \in Processes : q # p => pc'[q] = pc[q] /\ at'[q] = at[q]
      BY <1>2 DEF ApplyStatement, Abandon, TypeOK
    <2>5. pc'[p] \in {"script", "record"} => Behind(p)'
      <3>1. CASE at[p][2] < Length[v] /\ pc'[p] = "script" /\ at'[p] = <<v, at[p][2] + 1>>
        <4>1. \A j \in 1..(at'[p][2] - 1) : <<v, j>> \in applied'
          BY <2>1, <2>2, <2>3, <3>1 DEF Behind
        <4> QED BY <2>1, <2>2, <2>3, <3>1, <4>1 DEF Behind
      <3>2. CASE at[p][2] >= Length[v] /\ pc'[p] = "record" /\ at'[p] = at[p]
        <4>1. at[p][2] = Length[v] BY <2>1, <3>2
        <4>2. ScriptOf(v) \subseteq applied'
          BY <2>1, <2>2, <2>3, <4>1 DEF Behind, ScriptOf
        <4>3. \A j \in 1..(at'[p][2] - 1) : <<v, j>> \in applied'
          BY <2>1, <2>2, <2>3, <3>2 DEF Behind
        <4> QED BY <2>1, <2>2, <2>3, <3>2, <4>2, <4>3 DEF Behind, ScriptOf
      <3>3. CASE pc'[p] = "idle" BY <3>3
      <3> QED BY <1>2, <2>1, <3>1, <3>2, <3>3 DEF ApplyStatement, Abandon, TypeOK
    <2>6. pc'[p] # "open" BY <1>2 DEF ApplyStatement, Abandon, TypeOK
    <2>7. InOrder'
      <3> SUFFICES ASSUME NEW u \in Versions, NEW i \in 1..Length[u], NEW j \in 1..i,
                          <<u, i>> \in applied', j # i
                   PROVE  <<u, j>> \in applied'
        BY DEF InOrder
      <3>1. CASE <<u, i>> \in applied BY <2>2, <3>1 DEF InOrder
      <3>2. CASE <<u, i>> = at[p]
        <4>1. u = v /\ i = at[p][2] BY <2>1, <3>2
        <4>2. j \in 1..(at[p][2] - 1) BY <2>1, <4>1
        <4> QED BY <2>2, <2>3, <4>1, <4>2 DEF Behind
      <3> QED BY <2>2, <3>1, <3>2
    <2>8. \A q \in Processes : q # p =>
            /\ seen'[q] \subseteq recorded'
            /\ pc'[q] \in {"script", "record"} => Behind(q)'
            /\ pc'[q] = "open" => recorded' = Versions
      BY <1>T, <2>2, <2>4, OthersUntouched DEF TypeOK
    <2> QED BY <1>T, <2>2, <2>5, <2>6, <2>7, <2>8 DEF ScriptOf
  <1>3. ASSUME NEW p \in Processes, RecordVersion(p) PROVE IInv'
    <2> DEFINE v == at[p][1]
    <2>1. v \in Versions /\ v \in Nat /\ v >= 1
      BY <1>3, AtStatement DEF RecordVersion, Versions
    <2>2. UNCHANGED <<applied, seen, failures>> /\ recorded' = recorded \union {v}
      BY <1>3 DEF RecordVersion
    <2>3. Behind(p) /\ ScriptOf(v) \subseteq applied BY <1>3 DEF RecordVersion, Behind
    <2>4. \A u \in recorded' : 1..u \subseteq recorded' /\ ScriptOf(u) \subseteq applied'
      <3>1. 1..v \subseteq recorded' BY <2>1, <2>2, <2>3 DEF Behind
      <3> QED BY <2>2, <2>3, <3>1 DEF ScriptOf
    <2>5. /\ \A q \in Processes : q # p => pc'[q] = pc[q] /\ at'[q] = at[q]
          /\ \/ pc'[p] = "idle"
             \/ /\ pc'[p] = "script"
                /\ \E w \in Versions : at'[p] = <<w, 1>> /\ w >= v + 1 /\ (v + 1)..(w - 1) \subseteq seen[p]
             \/ pc'[p] = "open" /\ (v + 1)..NVersions \subseteq seen[p]
      <3>1. CASE Abandon(p) BY <3>1 DEF Abandon, TypeOK
      <3>2. CASE Continue(p, v + 1, seen[p]) BY <2>1, <3>2, ContinueLands
      <3> QED BY <1>3, <3>1, <3>2 DEF RecordVersion
    <2>6. 1..v \subseteq recorded' BY <2>1, <2>2, <2>3 DEF Behind
    <2>7. pc'[p] = "script" => Behind(p)'
      <3> SUFFICES ASSUME NEW w \in Versions, at'[p] = <<w, 1>>, w >= v + 1,
                          (v + 1)..(w - 1) \subseteq seen[p], pc'[p] = "script"
                   PROVE  Behind(p)'
        BY <2>5
      <3>1. w \in Nat BY DEF Versions
      <3>2. 1..(w - 1) \subseteq recorded' BY <2>1, <2>2, <2>6, <3>1
      <3> QED BY <3>1, <3>2 DEF Behind
    <2>8. pc'[p] = "open" => recorded' = Versions
      <3> SUFFICES ASSUME pc'[p] = "open" PROVE recorded' = Versions OBVIOUS
      <3>1. (v + 1)..NVersions \subseteq recorded BY <2>5
      <3>2. Versions \subseteq recorded' BY <2>1, <2>2, <2>6, <3>1, MigrationsAssumption DEF Versions
      <3> QED BY <1>T, <3>2 DEF TypeOK
    <2>9. \A q \in Processes : q # p =>
            /\ seen'[q] \subseteq recorded'
            /\ pc'[q] \in {"script", "record"} => Behind(q)'
            /\ pc'[q] = "open" => recorded' = Versions
      BY <1>T, <2>2, <2>5, OthersUntouched DEF TypeOK
    <2> QED BY <1>T, <2>2, <2>4, <2>5, <2>7, <2>8, <2>9 DEF InOrder
  <1>4. ASSUME NEW p \in Processes, Fail(p) \/ Close(p) PROVE IInv'
    <2>1. UNCHANGED <<applied, recorded, seen, at>> /\ pc' = [pc EXCEPT ![p] = "idle"]
      BY <1>4 DEF Fail, Close, Abandon
    <2> QED BY <1>T, <2>1 DEF Behind, InOrder, ScriptOf, TypeOK
  <1>5. CASE UNCHANGED vars BY <1>T, <1>5 DEF vars, Behind, InOrder, ScriptOf
  <1> QED BY <1>1, <1>2, <1>3, <1>4, <1>5 DEF Next

\* The inductive invariant holds of every start, refused, killed or completed.
THEOREM InvariantHolds == Spec => []IInv
  BY InitIInv, StepIInv, PTL DEF Spec

\* The locations and positions of every process are those of the scripts.
THEOREM TypeCorrect == Spec => []TypeOK
  BY InvariantHolds, PTL DEF IInv

\* A version in schema_migrations has all its statements in the file, and so do
\* the versions before it.
THEOREM RecordedIsAppliedHolds == Spec => []RecordedIsApplied
  <1>1. IInv => RecordedIsApplied
    <2> SUFFICES ASSUME IInv, NEW v \in recorded, NEW s \in ScriptsUpTo(v)
                 PROVE  s \in applied
      BY DEF RecordedIsApplied
    <2>1. PICK u \in 1..v : s \in ScriptOf(u) BY DEF ScriptsUpTo
    <2>2. u \in recorded BY <2>1 DEF IInv
    <2> QED BY <2>1, <2>2 DEF IInv
  <1> QED BY <1>1, InvariantHolds, PTL

\* Whenever initialize returns, every statement of every migration is in the
\* file: an open runtime never meets a missing table or column.
THEOREM OpenIsCompleteHolds == Spec => []OpenIsComplete
  <1>1. IInv => OpenIsComplete
    <2> SUFFICES ASSUME IInv, NEW p \in Processes, pc[p] = "open"
                 PROVE  applied = Statements /\ recorded = Versions
      BY DEF OpenIsComplete
    <2>1. recorded = Versions BY DEF IInv
    <2>2. Statements \subseteq applied
      BY <2>1 DEF IInv, Statements, ScriptsUpTo, Versions
    <2> QED BY <2>1, <2>2 DEF IInv, TypeOK
  <1> QED BY <1>1, InvariantHolds, PTL

-----------------------------------------------------------------------------
\* Without failures a version in progress has a process that is ahead in it.
LEMMA StepLed == IInv /\ Led /\ [Next]_vars => Led'
  <1> SUFFICES ASSUME IInv, Led, [Next]_vars, failures' = 0, NEW v \in Versions, Torn(v)'
               PROVE  \E q \in Processes : Ahead(q, v)'
    BY DEF Led
  <1>T. TypeOK /\ failures = 0
    <2>1. failures' >= failures /\ failures \in Nat
      BY MigrationsAssumption DEF IInv, TypeOK, Next, vars, ReadVersions, ApplyStatement,
         RecordVersion, Fail, Close
    <2> QED BY <2>1 DEF IInv
  <1>L. Torn(v) => \E q \in Processes : Ahead(q, v) BY <1>T DEF Led
  <1>1. ASSUME NEW p \in Processes, ReadVersions(p) PROVE \E q \in Processes : Ahead(q, v)'
    <2>1. Torn(v) BY <1>1 DEF ReadVersions, Torn, ScriptOf
    <2>2. PICK q \in Processes : Ahead(q, v) BY <1>L, <2>1
    <2>3. q # p BY <1>1, <2>2 DEF ReadVersions, Ahead
    <2>4. pc'[q] = pc[q] /\ at'[q] = at[q]
      BY <1>1, <1>T, <2>3, ContinueLands DEF ReadVersions
    <2>5. Ahead(q, v)' BY <1>1, <2>2, <2>4 DEF ReadVersions, Ahead
    <2> QED BY <2>5
  <1>2. ASSUME NEW p \in Processes, ApplyStatement(p) PROVE \E q \in Processes : Ahead(q, v)'
    <2> DEFINE i == at[p][2]
    <2>1. /\ at[p] = <<at[p][1], i>> /\ at[p][1] \in Versions /\ i \in 1..Length[at[p][1]]
          /\ Length[at[p][1]] \in Nat \ {0}
      BY <1>2, <1>T, AtStatement DEF ApplyStatement
    <2>2. UNCHANGED recorded /\ applied' = applied \union {at[p]} BY <1>2 DEF ApplyStatement
    <2>3. \A q \in Processes : q # p => pc'[q] = pc[q] /\ at'[q] = at[q]
      BY <1>2, <1>T DEF ApplyStatement, Abandon, TypeOK
    <2>4. CASE at[p][1] # v
      <3>1. \A j \in 1..Length[v] : <<v, j>> \in applied' <=> <<v, j>> \in applied
        BY <2>1, <2>2, <2>4
      <3>2. Torn(v) BY <2>1, <2>2, <2>4 DEF Torn, ScriptOf
      <3>3. PICK q \in Processes : Ahead(q, v) BY <1>L, <3>2
      <3>4. q # p BY <2>4, <3>3 DEF Ahead
      <3>5. Ahead(q, v)' BY <2>3, <3>1, <3>3, <3>4 DEF Ahead
      <3> QED BY <3>5
    <2>5. CASE at[p][1] = v /\ (v \in Repeatable \/ at[p] \notin applied)
      <3>1. CASE i < Length[v] /\ pc'[p] = "script" /\ at'[p] = <<v, i + 1>>
        <4>1. CASE v \in Repeatable BY <3>1, <4>1 DEF Ahead
        <4>2. CASE at[p] \notin applied
          <5>1. ASSUME NEW j \in 1..Length[v], <<v, j>> \in applied' PROVE j < i + 1
            <6>1. CASE <<v, j>> \in applied
              <7>1. ~(i \in 1..j) BY <2>1, <2>5, <4>2, <6>1 DEF IInv, InOrder
              <7> QED BY <2>1, <2>5, <7>1
            <6>2. CASE <<v, j>> = at[p] BY <2>1, <6>2
            <6> QED BY <2>2, <5>1, <6>1, <6>2
          <5> QED BY <3>1, <5>1 DEF Ahead
        <4> QED BY <2>5, <4>1, <4>2
      <3>2. CASE pc'[p] = "record" /\ at'[p] = at[p] BY <2>5, <3>2 DEF Ahead
      <3> QED BY <1>2, <1>T, <2>1, <2>5, <3>1, <3>2 DEF ApplyStatement, TypeOK
    <2>6. CASE at[p][1] = v /\ v \notin Repeatable /\ at[p] \in applied
      <3>1. applied' = applied BY <2>2, <2>6
      <3>2. Torn(v) BY <2>2, <3>1 DEF Torn
      <3>3. PICK q \in Processes : Ahead(q, v) BY <1>L, <3>2
      <3>4. q # p
        <4>1. pc[p] = "script" BY <1>2 DEF ApplyStatement
        <4> QED BY <2>1, <2>6, <3>3, <4>1 DEF Ahead
      <3>5. Ahead(q, v)' BY <2>3, <3>1, <3>3, <3>4 DEF Ahead
      <3> QED BY <3>5
    <2> QED BY <2>4, <2>5, <2>6
  <1>3. ASSUME NEW p \in Processes, RecordVersion(p) PROVE \E q \in Processes : Ahead(q, v)'
    <2>1. at[p][1] \in Nat /\ at[p][1] + 1 >= 1 /\ at[p][1] + 1 \in Nat
      BY <1>3, <1>T, AtStatement DEF RecordVersion, Versions
    <2>2. UNCHANGED applied /\ recorded' = recorded \union {at[p][1]} BY <1>3 DEF RecordVersion
    <2>3. Torn(v) /\ v # at[p][1] BY <2>2 DEF Torn, ScriptOf
    <2>4. PICK q \in Processes : Ahead(q, v) BY <1>L, <2>3
    <2>5. q # p BY <2>3, <2>4 DEF Ahead
    <2>6. pc'[q] = pc[q] /\ at'[q] = at[q]
      <3>1. CASE Abandon(p) BY <1>T, <2>5, <3>1 DEF Abandon, TypeOK
      <3>2. CASE Continue(p, at[p][1] + 1, seen[p]) BY <1>T, <2>1, <2>5, <3>2, ContinueLands
      <3> QED BY <1>3, <3>1, <3>2 DEF RecordVersion
    <2>7. Ahead(q, v)' BY <2>2, <2>4, <2>6 DEF Ahead
    <2> QED BY <2>7
  <1>4. ASSUME NEW p \in Processes, Fail(p) PROVE FALSE
    BY <1>4, <1>T DEF Fail
  <1>5. ASSUME NEW p \in Processes, Close(p) PROVE \E q \in Processes : Ahead(q, v)'
    <2>1. Torn(v) BY <1>5 DEF Close, Torn, ScriptOf
    <2>2. PICK q \in Processes : Ahead(q, v) BY <1>L, <2>1
    <2>3. q # p BY <1>5, <2>2 DEF Close, Ahead
    <2>4. Ahead(q, v)' BY <1>5, <1>T, <2>2, <2>3 DEF Close, Abandon, Ahead, TypeOK
    <2> QED BY <2>4
  <1>6. CASE UNCHANGED vars
    <2>1. Torn(v) BY <1>6 DEF vars, Torn, ScriptOf
    <2>2. PICK q \in Processes : Ahead(q, v) BY <1>L, <2>1
    <2>3. Ahead(q, v)' BY <1>6, <2>2 DEF vars, Ahead
    <2> QED BY <2>3
  <1> QED BY <1>1, <1>2, <1>3, <1>4, <1>5, <1>6 DEF Next

\* Starts that meet, however many, never leave a version half applied by
\* refusing one another: only a kill or an error in the middle does.
THEOREM TornOnlyByFailureHolds == Spec => []TornOnlyByFailure
  <1>1. Init => Led
    <2> SUFFICES ASSUME Init, NEW v \in Versions PROVE ~Torn(v) BY DEF Led
    <2>1. PICK k \in 0..NVersions : recorded = 1..k /\ applied = ScriptsUpTo(k) BY DEF Init
    <2> QED BY <2>1 DEF Torn, ScriptsUpTo, ScriptOf
  <1>2. Led => TornOnlyByFailure BY DEF Led, TornOnlyByFailure, Ahead, Upgrading
  <1> QED BY <1>1, <1>2, StepLed, InvariantHolds, PTL DEF Spec
=============================================================================
