------------------------- MODULE MissionEngineProofs -------------------------
(***************************************************************************)
(* Theorems about MissionEngine: type correctness, the inductive invariant *)
(* with the safety properties in it, the refinement of GovernedMission,    *)
(* which graphs are accepted, and what a completed run and a succeeded     *)
(* step mean when passes do not overlap.                                   *)
(***************************************************************************)
EXTENDS MissionEngine, FiniteSetTheorems, TLAPS

\* The invariant's part about one step of the mission, and about one command.
StepOK(s) ==
    /\ run = "none" => step[s] = "none"
    /\ step[s] \notin {"none", "pending", "blocked"} => NeedsMet(s)
    /\ ref[s] # None => ref[s][1] = s /\ command[ref[s]] # "none"
    /\ step[s] = "succeeded" => ref[s] # None /\ command[ref[s]] = "succeeded"

KeyOK(k) ==
    /\ command[k] # "none" => step[k[1]] # "none" /\ NeedsMet(k[1])
    /\ command[k] = "succeeded" => calls[k] > 0
    /\ command[k] \in {"none", "planned", "approval_required"} => calls[k] = 0
    /\ calls[k] <= 1

\* Two processes may not be at these locations with these jobs.
Clash(l, i, m, j) ==
    \/ l = "initializing" /\ m = "initializing"
    \/ l \in Owning /\ m \in Owning /\ i.key = j.key

\* The invariant in these parts; Bound is kept by every step for a reason of
\* its own.
PartsOK ==
    /\ \A s \in Steps : StepOK(s)
    /\ \A k \in Keys : KeyOK(k)
    /\ \A p \in Procs : PassOK(pc[p], local[p])
    /\ \A p, q \in Procs : Clash(pc[p], local[p], pc[q], local[q]) => p = q

Bound == \A p \in Procs : run = "none" => pc[p] = "idle"

LEMMA Parts == MissionInv <=> PartsOK /\ Bound
  <1>1. GraphInv /\ RecordsInv
        <=> (\A s \in Steps : StepOK(s)) /\ (\A k \in Keys : KeyOK(k)) /\ Bound
    BY DEF GraphInv, RecordsInv, StepOK, KeyOK, Bound
  <1>2. PassesInv <=> /\ \A p \in Procs : PassOK(pc[p], local[p])
                      /\ \A p, q \in Procs : Clash(pc[p], local[p], pc[q], local[q]) => p = q
    BY DEF PassesInv, Clash
  <1>3. QED
    BY <1>1, <1>2 DEF MissionInv, PartsOK

LEMMA KeyFacts ==
    /\ \A k \in Keys : k[1] \in Steps
    /\ \A s \in Steps, n \in 1..MaxAttempts : <<s, n>> \in Keys /\ <<s, n>>[1] = s
    /\ None \notin Keys /\ None \notin Steps
  BY NoneIsFresh DEF Keys

\* What no step of any process takes back.
Grows ==
    /\ dependsOn' = dependsOn
    /\ run # "none" => run' # "none"
    /\ run' # "none" \/ run = "none"
    /\ \A s \in Steps : /\ step[s] = "none" <=> step'[s] = "none"
                        /\ step[s] = "succeeded" => step'[s] = "succeeded"
    /\ \A k \in Keys : /\ command[k] # "none" => command'[k] # "none"
                       /\ command[k] = "succeeded" => command'[k] = "succeeded"

\* The command of a process that executes it is left to it, but a recovery
\* may have interrupted it.
Kept(k) ==
    /\ calls'[k] = calls[k]
    /\ \/ command'[k] = command[k]
       \/ command[k] = "running" /\ command'[k] = "ended"

\* A process that does nothing is as well off after a step as before.
LEMMA OthersOK ==
    ASSUME TypeOK, PartsOK, Grows, dependsOn' \in [Steps -> SUBSET Steps],
           NEW q \in Procs, pc'[q] = pc[q], local'[q] = local[q],
           pc[q] \in Owning => Kept(local[q].key)
    PROVE  PassOK(pc[q], local[q])'
  <1> DEFINE l == pc[q]
             job == local[q]
  <1>1. PassOK(pc[q], local[q]) /\ job \in Job
    BY DEF PartsOK, TypeOK
  <1>2. job.step \in Steps => /\ step[job.step] # "none" => step'[job.step] # "none"
                              /\ NeedsMet(job.step) => NeedsMet(job.step)'
    BY DEF Grows, NeedsMet, TypeOK
  <1>3. job.key # None => /\ job.key \in Keys
                          /\ command[job.key] # "none" => command'[job.key] # "none"
                          /\ command[job.key] = "succeeded" => command'[job.key] = "succeeded"
    BY <1>1 DEF Grows, Job
  <1>4. l = "initializing" => run' # "none" /\ \A s \in Steps : step'[s] = "none"
    BY <1>1 DEF PassOK, Grows
  <1>5. l \in Owning => Kept(job.key)
    OBVIOUS
  <1>6. QED
    BY <1>1, <1>2, <1>3, <1>4, <1>5 DEF PassOK, Kept, Working, Governing, Owning

\* The invariant after a step of p, from what it does to one step s of the
\* mission, to one command k and to p's own job.
LEMMA StepOf ==
    ASSUME TypeOK, TypeOK', PartsOK, Grows, NEW p \in Procs,
           NEW s \in Steps \cup {None}, NEW k \in Keys \cup {None},
           \A q \in Procs : q # p => pc'[q] = pc[q] /\ local'[q] = local[q],
           \A i \in Steps : i # s => step'[i] = step[i] /\ ref'[i] = ref[i],
           \A i \in Keys : i # k => command'[i] = command[i] /\ calls'[i] = calls[i],
           s \in Steps => StepOK(s)',
           k \in Keys => KeyOK(k)',
           \A q \in Procs : q # p /\ pc[q] \in Owning /\ local[q].key = k => Kept(k),
           PassOK(pc[p], local[p])',
           \A q \in Procs : q # p => /\ ~Clash(pc'[p], local'[p], pc[q], local[q])
                                     /\ ~Clash(pc[q], local[q], pc'[p], local'[p])
    PROVE  PartsOK'
  <1>1. \A i \in Steps : StepOK(i)'
    <2>1. ASSUME NEW i \in Steps, i # s
          PROVE  StepOK(i)'
      <3>1. StepOK(i) /\ step'[i] = step[i] /\ ref'[i] = ref[i]
        BY <2>1 DEF PartsOK
      <3>2. NeedsMet(i) => NeedsMet(i)'
        BY DEF NeedsMet, Grows, TypeOK
      <3>3. ref[i] # None => ref[i] \in Keys
        BY DEF TypeOK
      <3>4. QED
        BY <3>1, <3>2, <3>3 DEF StepOK, Grows
    <2>2. QED
      BY <2>1
  <1>2. \A i \in Keys : KeyOK(i)'
    <2>1. ASSUME NEW i \in Keys, i # k
          PROVE  KeyOK(i)'
      <3>1. KeyOK(i) /\ command'[i] = command[i] /\ calls'[i] = calls[i] /\ i[1] \in Steps
        BY <2>1, KeyFacts DEF PartsOK
      <3>2. NeedsMet(i[1]) => NeedsMet(i[1])'
        BY <3>1 DEF NeedsMet, Grows, TypeOK
      <3>3. QED
        BY <3>1, <3>2 DEF KeyOK, Grows
    <2>2. QED
      BY <2>1
  <1>3. \A q \in Procs : PassOK(pc[q], local[q])'
    <2>1. ASSUME NEW q \in Procs, q # p
          PROVE  PassOK(pc[q], local[q])'
      <3>1. pc[q] \in Owning => Kept(local[q].key)
        <4>1. pc[q] \in Owning => local[q].key \in Keys
          BY DEF PartsOK, PassOK, TypeOK, Job, Owning, Governing
        <4>2. QED
          BY <2>1, <4>1 DEF Kept
      <3>2. QED
        BY <2>1, <3>1, OthersOK DEF TypeOK
    <2>2. QED
      BY <2>1
  <1>4. \A q, r \in Procs : (Clash(pc[q], local[q], pc[r], local[r]) => q = r)'
    <2>1. ASSUME NEW q \in Procs, NEW r \in Procs, q # r,
                 Clash(pc[q], local[q], pc[r], local[r])'
          PROVE  FALSE
      <3>1. CASE q # p /\ r # p
        BY <2>1, <3>1 DEF Clash, PartsOK
      <3>2. CASE q = p
        BY <2>1, <3>2 DEF Clash
      <3>3. CASE r = p
        BY <2>1, <3>3 DEF Clash
      <3>4. QED
        BY <3>1, <3>2, <3>3
    <2>2. QED
      BY <2>1
  <1>5. QED
    BY <1>1, <1>2, <1>3, <1>4 DEF PartsOK

-----------------------------------------------------------------------------
(* Types                                                                   *)

LEMMA NoJobType == NoJob \in Job
  BY BoundsAreNumbers DEF NoJob, Job, RunStatus

\* What a step to location l leaves to the processes.
LEMMA GotoType ==
    ASSUME TypeOK, NEW p \in Procs, NEW l \in Locations, NEW j \in Job, Goto(p, l, j)
    PROVE  /\ pc' \in [Procs -> Locations] /\ local' \in [Procs -> Job]
           /\ pc'[p] = l /\ local'[p] = j
           /\ \A q \in Procs : q # p => pc'[q] = pc[q] /\ local'[q] = local[q]
  BY DEF Goto, TypeOK

\* A step of p that changes none of the records that the invariant is about.
LEMMA QuietStep ==
    ASSUME TypeOK, TypeOK', PartsOK, NEW p \in Procs, NEW l \in Locations, NEW j \in Job,
           Goto(p, l, j), PassOK(l, j),
           UNCHANGED <<dependsOn, step, ref, command, calls>>,
           run # "none" => run' # "none", run' # "none" \/ run = "none",
           \A q \in Procs : q # p => ~Clash(l, j, pc[q], local[q]) /\ ~Clash(pc[q], local[q], l, j)
    PROVE  PartsOK'
  <1>1. Grows
    BY DEF Grows
  <1>2. /\ pc'[p] = l /\ local'[p] = j
        /\ \A q \in Procs : q # p => pc'[q] = pc[q] /\ local'[q] = local[q]
    BY GotoType
  <1>3. PassOK(pc[p], local[p])'
    BY <1>2 DEF PassOK, NeedsMet
  <1>4. \A q \in Procs : q # p => /\ ~Clash(pc'[p], local'[p], pc[q], local[q])
                                 /\ ~Clash(pc[q], local[q], pc'[p], local'[p])
    BY <1>2
  <1>5. \A q \in Procs : Kept(local[q].key)
    BY DEF Kept
  <1>6. None \notin Steps /\ None \notin Keys
    BY KeyFacts
  <1>7. \A i \in Steps : step'[i] = step[i] /\ ref'[i] = ref[i]
    OBVIOUS
  <1>8. \A i \in Keys : command'[i] = command[i] /\ calls'[i] = calls[i]
    OBVIOUS
  <1>9. QED
    <2>1. \A q \in Procs : q # p /\ pc[q] \in Owning /\ local[q].key = None => Kept(None)
      BY <1>5
    <2>2. QED
      BY <1>1, <1>2, <1>3, <1>4, <1>6, <1>7, <1>8, <2>1, StepOf

\* A step to a location that no other process can clash with.
LEMMA FreeLocation ==
    ASSUME NEW l, l \notin Owning \cup {"initializing"}, NEW i, NEW m, NEW j
    PROVE  ~Clash(l, i, m, j) /\ ~Clash(m, j, l, i)
  BY DEF Clash

LEMMA ReturnStep ==
    ASSUME TypeOK, PartsOK, NEW p \in Procs, Return(p), UNCHANGED <<run, dependsOn, ledger, journal>>
    PROVE  TypeOK' /\ PartsOK'
  <1>1. "idle" \in Locations /\ NoJob \in Job /\ "idle" \notin Owning \cup {"initializing"}
    BY NoJobType DEF Locations, Owning
  <1>2. UNCHANGED <<run, dependsOn, step, attempt, ref, command, approval, calls>>
    BY DEF ledger, journal
  <1>3. TypeOK'
    BY <1>1, <1>2, GotoType DEF Return, TypeOK
  <1>4. PassOK("idle", NoJob)
    BY DEF PassOK, NoJob, Working, Governing
  <1>5. QED
    BY <1>1, <1>2, <1>3, <1>4, QuietStep, FreeLocation DEF Return

-----------------------------------------------------------------------------
(* start and resume                                                        *)

LEMMA StartStep ==
    ASSUME TypeOK, PartsOK, NEW p \in Procs, NEW mission \in Missions, Start(p, mission)
    PROVE  TypeOK' /\ PartsOK'
  <1>1. /\ run = "none" /\ run' = "created" /\ dependsOn' = mission
        /\ UNCHANGED <<step, attempt, ref, command, approval, calls>>
        /\ Goto(p, "initializing", NoJob)
    BY DEF Start, ledger, journal
  <1>2. /\ pc' \in [Procs -> Locations] /\ local' \in [Procs -> Job]
        /\ pc'[p] = "initializing" /\ local'[p] = NoJob
        /\ \A q \in Procs : q # p => pc'[q] = pc[q] /\ local'[q] = local[q]
    BY <1>1, NoJobType, GotoType DEF Locations
  <1>3. TypeOK'
    BY <1>1, <1>2, MissionsMapSteps DEF TypeOK, RunStatus
  <1>4. \A s \in Steps : step[s] = "none" /\ StepOK(s)
    BY <1>1 DEF PartsOK, StepOK
  <1>5. \A k \in Keys : command[k] = "none" /\ KeyOK(k)
    BY <1>4, KeyFacts DEF PartsOK, KeyOK
  <1>6. \A s \in Steps : StepOK(s)'
    BY <1>1, <1>4 DEF StepOK
  <1>7. \A k \in Keys : KeyOK(k)'
    BY <1>1, <1>5 DEF KeyOK
  <1>8. ASSUME NEW q \in Procs, q # p
        PROVE  PassOK(pc[q], local[q])' /\ pc[q] \notin Owning \cup {"initializing"}
    <2>1. PassOK(pc[q], local[q]) /\ pc'[q] = pc[q] /\ local'[q] = local[q]
      BY <1>2, <1>8 DEF PartsOK
    <2>2. pc[q] \notin Working \cup {"depending", "blocking", "initializing"}
      BY <1>1, <1>4, <2>1 DEF PassOK
    <2>3. QED
      BY <1>1, <2>1, <2>2 DEF PassOK, Working, Governing, Owning
  <1>9. PassOK(pc[p], local[p])'
    BY <1>1, <1>2, <1>4 DEF PassOK, NoJob, Working, Governing
  <1>10. \A q, r \in Procs : (Clash(pc[q], local[q], pc[r], local[r]) => q = r)'
    BY <1>2, <1>8 DEF Clash, Owning
  <1>11. QED
    BY <1>3, <1>6, <1>7, <1>8, <1>9, <1>10 DEF PartsOK

LEMMA InitializeStep ==
    ASSUME TypeOK, PartsOK, NEW p \in Procs, InitializeSteps(p)
    PROVE  TypeOK' /\ PartsOK'
  <1>1. /\ UNCHANGED <<run, dependsOn, attempt, ref, command, approval, calls>>
        /\ step' = [s \in Steps |-> "pending"]
        /\ pc[p] = "initializing" /\ Goto(p, "starting", NoJob)
    BY DEF InitializeSteps, journal
  <1>2. /\ pc' \in [Procs -> Locations] /\ local' \in [Procs -> Job]
        /\ pc'[p] = "starting" /\ local'[p] = NoJob
        /\ \A q \in Procs : q # p => pc'[q] = pc[q] /\ local'[q] = local[q]
    BY <1>1, NoJobType, GotoType DEF Locations
  <1>3. TypeOK'
    BY <1>1, <1>2 DEF TypeOK, StepStatus
  <1>4. run # "none" /\ \A s \in Steps : step[s] = "none" /\ StepOK(s)
    BY <1>1 DEF PartsOK, PassOK
  <1>5. \A k \in Keys : command[k] = "none" /\ KeyOK(k)
    BY <1>4, KeyFacts DEF PartsOK, KeyOK
  <1>6. \A s \in Steps : StepOK(s)'
    BY <1>1, <1>4 DEF StepOK
  <1>7. \A k \in Keys : KeyOK(k)'
    BY <1>1, <1>5 DEF KeyOK
  <1>8. ASSUME NEW q \in Procs, q # p
        PROVE  PassOK(pc[q], local[q])' /\ pc[q] \notin Owning \cup {"initializing"}
    <2>1. PassOK(pc[q], local[q]) /\ pc'[q] = pc[q] /\ local'[q] = local[q]
      BY <1>2, <1>8 DEF PartsOK
    <2>2. pc[q] # "initializing"
      BY <1>1, <1>8 DEF PartsOK, Clash
    <2>3. pc[q] \notin Working \cup {"depending", "blocking"}
      BY <1>4, <2>1 DEF PassOK
    <2>4. QED
      BY <1>1, <2>1, <2>2, <2>3 DEF PassOK, Working, Governing, Owning
  <1>9. PassOK(pc[p], local[p])'
    BY <1>2 DEF PassOK, NoJob, Working, Governing
  <1>10. \A q, r \in Procs : (Clash(pc[q], local[q], pc[r], local[r]) => q = r)'
    BY <1>2, <1>8 DEF Clash, Owning
  <1>11. QED
    BY <1>3, <1>6, <1>7, <1>8, <1>9, <1>10 DEF PartsOK

LEMMA ResumeStep ==
    ASSUME TypeOK, PartsOK, NEW p \in Procs, Resume(p) \/ EndRecovery(p) \/ BeginRun(p)
    PROVE  TypeOK' /\ PartsOK'
  <1>1. PICK l \in {"recovering", "starting", "visiting"} : Goto(p, l, NoJob)
    BY DEF Resume, EndRecovery, BeginRun
  <1>2. /\ UNCHANGED <<dependsOn, step, attempt, ref, command, approval, calls>>
        /\ run' \in {run, "running"}
    BY DEF Resume, EndRecovery, BeginRun, ledger, journal
  <1>3. NoJob \in Job /\ l \in Locations /\ l \notin Owning \cup {"initializing"}
    BY NoJobType DEF Locations, Owning
  <1>4. TypeOK'
    BY <1>1, <1>2, <1>3, GotoType DEF TypeOK, RunStatus
  <1>5. PassOK(l, NoJob)
    BY DEF PassOK, NoJob, Working, Governing
  <1>6. (run # "none" => run' # "none") /\ (run' # "none" \/ run = "none")
    BY <1>2
  <1>7. QED
    BY <1>1, <1>2, <1>3, <1>4, <1>5, <1>6, QuietStep, FreeLocation

-----------------------------------------------------------------------------
(* _drive                                                                  *)

\* A step of the loop that reads only.
LEMMA ReadStep ==
    ASSUME TypeOK, PartsOK, NEW p \in Procs, NEW l, l \in Locations, NEW j \in Job,
           Goto(p, l, j), PassOK(l, j), l \notin Owning \cup {"initializing"},
           UNCHANGED <<run, dependsOn, ledger, journal>>
    PROVE  TypeOK' /\ PartsOK'
  <1>1. UNCHANGED <<run, dependsOn, step, attempt, ref, command, approval, calls>>
    BY DEF ledger, journal
  <1>2. TypeOK'
    BY <1>1, GotoType DEF TypeOK
  <1>3. QED
    BY <1>1, <1>2, QuietStep, FreeLocation

LEMMA VisitStep ==
    ASSUME TypeOK, PartsOK, NEW p \in Procs, Visit(p)
    PROVE  TypeOK' /\ PartsOK'
  <1>1. PassOK(pc[p], local[p]) /\ local[p] \in Job /\ pc[p] = "visiting"
        /\ UNCHANGED <<run, dependsOn, ledger, journal>>
    BY DEF PartsOK, TypeOK, Visit
  <1>2. {"visiting", "depending"} \subseteq Locations
        /\ {"visiting", "depending"} \cap (Owning \cup {"initializing"}) = {}
    BY DEF Locations, Owning
  <1>3. PICK s \in Steps :
           \/ step[s] = "none" /\ Return(p)
           \/ /\ step[s] = "succeeded"
              /\ Goto(p, "visiting", [local[p] EXCEPT !.done = local[p].done \cup {s}])
           \/ /\ step[s] \notin {"none", "succeeded"}
              /\ Goto(p, "depending",
                      [local[p] EXCEPT !.step = s,
                                       !.waits = (step[s] = "waiting_approval"),
                                       !.attempt = attempt[s],
                                       !.key = IF step[s] = "waiting_approval" THEN ref[s] ELSE None])
    BY DEF Visit, FirstOf, Ready
  <1>4. CASE Return(p)
    BY <1>1, <1>4, ReturnStep
  <1>5. CASE Goto(p, "visiting", [local[p] EXCEPT !.done = local[p].done \cup {s}])
    <2> DEFINE j == [local[p] EXCEPT !.done = local[p].done \cup {s}]
    <2>1. j \in Job
      BY <1>1 DEF Job
    <2>2. PassOK("visiting", j)
      BY <1>1 DEF PassOK, Job, Working, Governing
    <2> HIDE DEF j
    <2>3. QED
      BY <1>1, <1>2, <1>5, <2>1, <2>2, ReadStep DEF j
  <1>6. CASE /\ step[s] \notin {"none", "succeeded"}
             /\ Goto(p, "depending",
                     [local[p] EXCEPT !.step = s,
                                      !.waits = (step[s] = "waiting_approval"),
                                      !.attempt = attempt[s],
                                      !.key = IF step[s] = "waiting_approval" THEN ref[s] ELSE None])
    <2> DEFINE j == [local[p] EXCEPT !.step = s,
                                     !.waits = (step[s] = "waiting_approval"),
                                     !.attempt = attempt[s],
                                     !.key = IF step[s] = "waiting_approval" THEN ref[s] ELSE None]
    <2>1. j \in Job /\ j.step = s /\ j.key \in {None, ref[s]}
      <3>1. attempt[s] \in 0..MaxAttempts /\ ref[s] \in Keys \cup {None}
        BY DEF TypeOK
      <3>2. QED
        BY <1>1, <3>1 DEF Job
    <2>2. PassOK("depending", j)
      <3>1. StepOK(s)
        BY DEF PartsOK
      <3>2. QED
        BY <1>6, <2>1, <3>1 DEF PassOK, StepOK, Working, Governing
    <2> HIDE DEF j
    <2>3. QED
      BY <1>1, <1>2, <1>6, <2>1, <2>2, ReadStep DEF j
  <1>7. QED
    BY <1>3, <1>4, <1>5, <1>6

LEMMA CheckDependenciesStep ==
    ASSUME TypeOK, PartsOK, NEW p \in Procs, CheckDependencies(p)
    PROVE  TypeOK' /\ PartsOK'
  <1>1. PassOK(pc[p], local[p]) /\ local[p] \in Job /\ pc[p] = "depending"
        /\ UNCHANGED <<run, dependsOn, ledger, journal>>
    BY DEF PartsOK, TypeOK, CheckDependencies
  <1>2. \/ Return(p)
        \/ Goto(p, "blocking", local[p])
        \/ /\ NeedsMet(local[p].step)
           /\ Goto(p, "approving", local[p]) \/ Goto(p, "preparing", local[p])
    BY DEF CheckDependencies, NeedsMet
  <1>3. /\ {"blocking", "approving", "preparing"} \subseteq Locations
        /\ {"blocking", "approving", "preparing"} \cap (Owning \cup {"initializing"}) = {}
    BY DEF Locations, Owning
  <1>4. /\ PassOK("blocking", local[p])
        /\ NeedsMet(local[p].step) => PassOK("approving", local[p]) /\ PassOK("preparing", local[p])
    BY <1>1 DEF PassOK, Working, Governing
  <1>5. QED
    BY <1>1, <1>2, <1>3, <1>4, ReturnStep, ReadStep

LEMMA ReadApprovalStep ==
    ASSUME TypeOK, PartsOK, NEW p \in Procs, ReadApproval(p)
    PROVE  TypeOK' /\ PartsOK'
  <1>1. PassOK(pc[p], local[p]) /\ local[p] \in Job /\ pc[p] = "approving"
        /\ UNCHANGED <<run, dependsOn, ledger, journal>>
    BY DEF PartsOK, TypeOK, ReadApproval
  <1>2. Return(p) \/ (local[p].key # None /\ Goto(p, "consuming", local[p]))
    BY DEF ReadApproval
  <1>3. "consuming" \in Locations /\ "consuming" \notin Owning \cup {"initializing"}
    BY DEF Locations, Owning
  <1>4. local[p].key # None => PassOK("consuming", local[p])
    BY <1>1 DEF PassOK, Working, Governing
  <1>5. QED
    BY <1>1, <1>2, <1>3, <1>4, ReturnStep, ReadStep

LEMMA ReadStepsStep ==
    ASSUME TypeOK, PartsOK, NEW p \in Procs, ReadSteps(p)
    PROVE  TypeOK' /\ PartsOK'
  <1>1. PassOK(pc[p], local[p]) /\ local[p] \in Job /\ pc[p] = "visiting"
        /\ UNCHANGED <<run, dependsOn, ledger, journal>>
    BY DEF PartsOK, TypeOK, ReadSteps
  <1>2. PICK final \in {"failed", "completed"} : Goto(p, "closing", [local[p] EXCEPT !.final = final])
    BY DEF ReadSteps
  <1>3. "closing" \in Locations /\ "closing" \notin Owning \cup {"initializing"}
    BY DEF Locations, Owning
  <1>4. [local[p] EXCEPT !.final = final] \in Job /\ PassOK("closing", [local[p] EXCEPT !.final = final])
    BY <1>1 DEF Job, RunStatus, PassOK, Working, Governing
  <1>5. QED
    BY <1>1, <1>2, <1>3, <1>4, ReadStep

LEMMA CloseRunStep ==
    ASSUME TypeOK, PartsOK, NEW p \in Procs, CloseRun(p)
    PROVE  TypeOK' /\ PartsOK'
  <1>1. /\ PassOK(pc[p], local[p]) /\ local[p] \in Job /\ pc[p] = "closing"
        /\ UNCHANGED <<dependsOn, step, attempt, ref, command, approval, calls>>
        /\ run' = local[p].final /\ Goto(p, "idle", NoJob)
    BY DEF PartsOK, TypeOK, CloseRun, ledger, journal, Return
  <1>2. run' \in RunStatus /\ run' # "none"
    BY <1>1 DEF PassOK, Job
  <1>3. "idle" \in Locations /\ NoJob \in Job /\ "idle" \notin Owning \cup {"initializing"}
    BY NoJobType DEF Locations, Owning
  <1>4. TypeOK'
    BY <1>1, <1>2, <1>3, GotoType DEF TypeOK
  <1>5. PassOK("idle", NoJob)
    BY DEF PassOK, NoJob, Working, Governing
  <1>6. QED
    BY <1>1, <1>2, <1>3, <1>4, <1>5, QuietStep, FreeLocation

\* set_mission_step_status with what the caller knows of the command.
LEMMA SetStepStep ==
    ASSUME TypeOK, PartsOK, NEW p \in Procs,
           NEW target \in {"blocked", "failed", "waiting_approval", "succeeded"},
           NEW key \in Keys \cup {None}, SetStep(p, target, key),
           UNCHANGED <<run, dependsOn, attempt, journal>>,
           local[p].step \in Steps, step[local[p].step] # "none",
           target # "blocked" => NeedsMet(local[p].step),
           key # None => key[1] = local[p].step /\ command[key] # "none",
           target = "succeeded" => key # None /\ command[key] = "succeeded"
    PROVE  TypeOK' /\ PartsOK'
  <1>0. PICK s \in Steps : s = local[p].step
    OBVIOUS
  <1> DEFINE j == [NoJob EXCEPT !.done = local[p].done \cup {s}]
  <1>1. CASE target \notin Successors(step[s]) /\ Return(p) /\ UNCHANGED <<step, ref>>
    BY <1>1, ReturnStep DEF ledger, journal
  <1>2. CASE /\ target \in Successors(step[s])
             /\ step' = [step EXCEPT ![s] = target]
             /\ ref' = IF key = None THEN ref ELSE [ref EXCEPT ![s] = key]
             /\ IF target = "waiting_approval" THEN Return(p) ELSE Continue(p)
    <2>1. UNCHANGED <<run, dependsOn, attempt, command, approval, calls>>
      BY DEF journal
    <2>2. NoJob \in Job /\ j \in Job /\ "idle" \in Locations /\ "visiting" \in Locations
      BY <1>0, NoJobType DEF Job, TypeOK, NoJob, Locations
    <2>3. /\ pc' \in [Procs -> Locations] /\ local' \in [Procs -> Job]
          /\ pc'[p] \in {"idle", "visiting"} /\ local'[p] \in {NoJob, j}
          /\ \A q \in Procs : q # p => pc'[q] = pc[q] /\ local'[q] = local[q]
      BY <1>0, <1>2, <2>2, GotoType DEF Return, Continue
    <2>4. TypeOK'
      BY <1>2, <2>1, <2>3 DEF TypeOK, StepStatus
    <2>5. step[s] # "succeeded" /\ target # "none"
      BY <1>2 DEF Successors
    <2>6. Grows
      BY <1>0, <1>2, <2>1, <2>5 DEF Grows, TypeOK
    <2>7. \A i \in Steps : i # s => step'[i] = step[i] /\ ref'[i] = ref[i]
      BY <1>2 DEF TypeOK
    <2>8. StepOK(s)'
      <3>1. StepOK(s) /\ step'[s] = target /\ ref'[s] = IF key = None THEN ref[s] ELSE key
        BY <1>2 DEF PartsOK, TypeOK
      <3>2. NeedsMet(s) => NeedsMet(s)'
        BY <2>6 DEF NeedsMet, Grows, TypeOK
      <3>3. (step[s] \notin {"none", "pending", "blocked"} => NeedsMet(s))
            /\ (run = "none" => step[s] = "none")
            /\ (ref[s] # None => ref[s][1] = s /\ command[ref[s]] # "none")
        BY <3>1 DEF StepOK
      <3>4. (run = "none" => target = "none")'
        BY <1>0, <2>1, <3>3
      <3>5. (ref[s] # None => ref[s][1] = s /\ command[ref[s]] # "none")'
        BY <1>0, <2>1, <3>1, <3>3
      <3>6. target = "succeeded" => ref'[s] # None /\ command'[ref'[s]] = "succeeded"
        BY <2>1, <3>1
      <3>7. target \notin {"none", "pending", "blocked"} => NeedsMet(s)'
        BY <1>0, <3>2
      <3>8. QED
        BY <3>1, <3>4, <3>5, <3>6, <3>7 DEF StepOK
    <2>9. PassOK(pc[p], local[p])'
      <3>1. NoJob.key = None /\ j.key = None
        BY DEF NoJob
      <3>2. QED
        BY <2>3, <3>1 DEF PassOK, Working, Governing
    <2>10. \A q \in Procs : q # p => /\ ~Clash(pc'[p], local'[p], pc[q], local[q])
                                     /\ ~Clash(pc[q], local[q], pc'[p], local'[p])
      BY <2>3, FreeLocation DEF Owning
    <2>11. \A i \in Keys : command'[i] = command[i] /\ calls'[i] = calls[i] /\ Kept(i)
      BY <2>1 DEF Kept
    <2>12. None \notin Keys /\ \A q \in Procs : pc[q] \in Owning => local[q].key \in Keys
      BY KeyFacts DEF PartsOK, PassOK, TypeOK, Job, Owning, Governing
    <2> HIDE DEF j
    <2>13. \A q \in Procs : q # p /\ pc[q] \in Owning /\ local[q].key = None => Kept(None)
      BY <2>12
    <2>14. PartsOK'
      BY <2>3, <2>4, <2>6, <2>7, <2>8, <2>9, <2>10, <2>11, <2>12, <2>13, StepOf
    <2>15. QED
      BY <2>4, <2>14
  <1>3. QED
    BY <1>0, <1>1, <1>2 DEF SetStep

LEMMA BlockStep ==
    ASSUME TypeOK, PartsOK, NEW p \in Procs, Block(p)
    PROVE  TypeOK' /\ PartsOK'
  <1>1. local[p].step \in Steps /\ step[local[p].step] # "none"
    BY DEF PartsOK, PassOK, Block
  <1>2. SetStep(p, "blocked", None) /\ UNCHANGED <<run, dependsOn, attempt, journal>>
    BY DEF Block
  <1>3. QED
    BY <1>1, <1>2, SetStepStep

LEMMA PrepareStep ==
    ASSUME TypeOK, PartsOK, NEW p \in Procs, Prepare(p)
    PROVE  TypeOK' /\ PartsOK'
  <1> DEFINE s == local[p].step
             j == [local[p] EXCEPT !.key = <<s, local[p].attempt + 1>>, !.attempt = 0]
  <1>1. /\ PassOK(pc[p], local[p]) /\ local[p] \in Job /\ pc[p] = "preparing"
        /\ s \in Steps /\ step[s] # "none" /\ NeedsMet(s)
        /\ UNCHANGED <<run, dependsOn, attempt, journal>>
    BY DEF PartsOK, PassOK, TypeOK, Prepare, Working
  <1>2. CASE SetStep(p, "failed", None)
    BY <1>1, <1>2, SetStepStep
  <1>3. CASE /\ local[p].attempt < MaxAttempts
             /\ Goto(p, "attempting", j)
             /\ UNCHANGED <<step, ref>>
    <2>1. <<s, local[p].attempt + 1>> \in Keys /\ <<s, local[p].attempt + 1>>[1] = s
      <3>1. local[p].attempt \in 0..MaxAttempts
        BY <1>1 DEF Job
      <3>2. local[p].attempt + 1 \in 1..MaxAttempts
        BY <1>3, <3>1, BoundsAreNumbers
      <3>3. QED
        BY <1>1, <3>2, KeyFacts
    <2>2. j \in Job
      <3>1. 0 \in 0..MaxAttempts
        BY BoundsAreNumbers
      <3>2. PICK k \in Keys : k = <<s, local[p].attempt + 1>>
        BY <2>1
      <3>3. [local[p] EXCEPT !.key = k, !.attempt = 0] \in Job
        BY <1>1, <3>1 DEF Job
      <3>4. QED
        BY <3>2, <3>3
    <2>3. j.key = <<s, local[p].attempt + 1>> /\ j.step = s /\ None \notin Keys
      BY <1>1, KeyFacts DEF Job
    <2>4. PassOK("attempting", j)
      BY <1>1, <2>1, <2>3 DEF PassOK, Working, Governing
    <2>5. "attempting" \in Locations /\ "attempting" \notin Owning \cup {"initializing"}
      BY DEF Locations, Owning
    <2>6. UNCHANGED <<run, dependsOn, ledger, journal>>
      BY <1>1, <1>3 DEF ledger
    <2> HIDE DEF j
    <2>7. QED
      BY <1>3, <2>2, <2>4, <2>5, <2>6, ReadStep
  <1>4. QED
    BY <1>2, <1>3 DEF Prepare

LEMMA BeginAttemptStep ==
    ASSUME TypeOK, PartsOK, NEW p \in Procs, BeginAttempt(p)
    PROVE  TypeOK' /\ PartsOK'
  <1>0. PICK s \in Steps : s = local[p].step
    BY DEF PartsOK, PassOK, BeginAttempt, Working
  <1>1. /\ PassOK(pc[p], local[p]) /\ local[p] \in Job /\ pc[p] = "attempting"
        /\ step[s] # "none" /\ NeedsMet(s)
        /\ UNCHANGED <<run, dependsOn, ref, command, approval, calls>>
    BY <1>0 DEF PartsOK, PassOK, TypeOK, BeginAttempt, Working, journal
  <1>2. CASE Return(p) /\ UNCHANGED <<step, attempt>>
    BY <1>1, <1>2, ReturnStep DEF ledger, journal
  <1>3. CASE /\ "running" \in Successors(step[s])
             /\ attempt[s] < MaxAttempts
             /\ step' = [step EXCEPT ![s] = "running"]
             /\ attempt' = [attempt EXCEPT ![s] = @ + 1]
             /\ Goto(p, "planning", local[p])
    <2>1. /\ pc' \in [Procs -> Locations] /\ local' \in [Procs -> Job]
          /\ pc'[p] = "planning" /\ local'[p] = local[p]
          /\ \A q \in Procs : q # p => pc'[q] = pc[q] /\ local'[q] = local[q]
      BY <1>1, <1>3, GotoType DEF Locations
    <2>2. attempt' \in [Steps -> 0..MaxAttempts]
      BY <1>1, <1>3, BoundsAreNumbers DEF TypeOK
    <2>3. TypeOK'
      BY <1>1, <1>3, <2>1, <2>2 DEF TypeOK, StepStatus
    <2>4. step[s] # "succeeded" /\ step'[s] = "running"
      BY <1>1, <1>3 DEF Successors, TypeOK
    <2>5. Grows
      BY <1>1, <1>3, <2>4 DEF Grows, TypeOK
    <2>6. \A i \in Steps : i # s => step'[i] = step[i] /\ ref'[i] = ref[i]
      BY <1>1, <1>3 DEF TypeOK
    <2>7. NeedsMet(s)'
      BY <1>1, <2>5 DEF NeedsMet, Grows, TypeOK
    <2>8. StepOK(s)'
      <3>1. StepOK(s)
        BY <1>1 DEF PartsOK
      <3>2. QED
        BY <1>1, <2>4, <2>7, <3>1 DEF StepOK
    <2>9. PassOK(pc[p], local[p])'
      <3>1. local[p].key # None /\ local[p].key[1] = s
        BY <1>0, <1>1 DEF PassOK, Working, Governing
      <3>2. local'[p].step = s /\ step'[s] # "none" /\ NeedsMet(local[p].step)'
        BY <1>0, <2>1, <2>4, <2>7 DEF NeedsMet
      <3>3. QED
        BY <1>0, <1>1, <2>1, <3>1, <3>2 DEF PassOK, Working, Governing
    <2>10. \A q \in Procs : q # p => /\ ~Clash(pc'[p], local'[p], pc[q], local[q])
                                     /\ ~Clash(pc[q], local[q], pc'[p], local'[p])
      BY <2>1, FreeLocation DEF Owning
    <2>11. \A i \in Keys : command'[i] = command[i] /\ calls'[i] = calls[i]
      BY <1>1
    <2>12. None \notin Keys
           /\ \A q \in Procs : q # p /\ pc[q] \in Owning /\ local[q].key = None => Kept(None)
      BY KeyFacts DEF PartsOK, PassOK, TypeOK, Job, Owning, Governing
    <2>13. PartsOK'
      BY <2>1, <2>3, <2>5, <2>6, <2>8, <2>9, <2>10, <2>11, <2>12, StepOf
    <2>14. QED
      BY <2>3, <2>13
  <1>4. QED
    BY <1>0, <1>2, <1>3 DEF BeginAttempt

LEMMA AwaitApprovalStep ==
    ASSUME TypeOK, PartsOK, NEW p \in Procs, AwaitApproval(p)
    PROVE  TypeOK' /\ PartsOK'
  <1>1. PassOK(pc[p], local[p]) /\ local[p] \in Job /\ pc[p] = "waiting"
    BY DEF PartsOK, TypeOK, AwaitApproval
  <1>2. /\ local[p].key \in Keys /\ local[p].key[1] = local[p].step
        /\ command[local[p].key] # "none"
        /\ local[p].step \in Steps /\ step[local[p].step] # "none" /\ NeedsMet(local[p].step)
    BY <1>1 DEF PassOK, Job, Working, Governing
  <1>3. SetStep(p, "waiting_approval", local[p].key) /\ UNCHANGED <<run, dependsOn, attempt, journal>>
    BY DEF AwaitApproval
  <1>4. QED
    BY <1>2, <1>3, SetStepStep

LEMMA FinishStep ==
    ASSUME TypeOK, PartsOK, NEW p \in Procs, Finish(p)
    PROVE  TypeOK' /\ PartsOK'
  <1>1. PassOK(pc[p], local[p]) /\ local[p] \in Job /\ pc[p] = "finishing"
    BY DEF PartsOK, TypeOK, Finish
  <1>2. /\ local[p].key \in Keys /\ local[p].key # None /\ local[p].key[1] = local[p].step
        /\ command[local[p].key] # "none"
        /\ local[p].step \in Steps /\ step[local[p].step] # "none" /\ NeedsMet(local[p].step)
        /\ local[p].succeeded => command[local[p].key] = "succeeded"
    BY <1>1 DEF PassOK, Job, Working, Governing
  <1>3. PICK target \in {"succeeded", "failed"} :
           /\ target = "succeeded" => local[p].succeeded
           /\ SetStep(p, target, local[p].key)
    BY DEF Finish
  <1>4. UNCHANGED <<run, dependsOn, attempt, journal>>
    BY DEF Finish
  <1>5. QED
    BY <1>2, <1>3, <1>4, SetStepStep

-----------------------------------------------------------------------------
(* The command of a step                                                   *)

\* No other process executes a command that p executes, or one that is not
\* to be executed at present.
LEMMA OtherOwner ==
    ASSUME TypeOK, PartsOK, NEW p \in Procs, NEW k \in Keys,
           \/ pc[p] \in Owning /\ local[p].key = k
           \/ command[k] \notin {"planned", "running", "ended"}
    PROVE  \A q \in Procs : q # p => ~(pc[q] \in Owning /\ local[q].key = k)
  <1>1. ASSUME NEW q \in Procs, q # p, pc[q] \in Owning, local[q].key = k
        PROVE  FALSE
    <2>1. command[k] \in {"planned", "running", "ended"}
      BY <1>1 DEF PartsOK, PassOK, Owning
    <2>2. Clash(pc[q], local[q], pc[p], local[p])
      BY <1>1, <2>1 DEF Clash
    <2>3. QED
      BY <1>1, <2>2 DEF PartsOK
  <1>2. QED
    BY <1>1

\* A step of p that changes the one command k that nobody else executes.
LEMMA CommandStep ==
    ASSUME TypeOK, TypeOK', PartsOK, NEW p \in Procs, NEW k \in Keys,
           \/ pc[p] \in Owning /\ local[p].key = k
           \/ command[k] \notin {"planned", "running", "ended"},
           UNCHANGED <<run, dependsOn, step, ref>>,
           \A q \in Procs : q # p => pc'[q] = pc[q] /\ local'[q] = local[q],
           \A i \in Keys : i # k => command'[i] = command[i] /\ calls'[i] = calls[i],
           command[k] # "succeeded", command'[k] # "none",
           KeyOK(k)', PassOK(pc[p], local[p])', pc'[p] # "initializing",
           pc'[p] \in Owning => local'[p].key = k
    PROVE  PartsOK'
  <1>1. Grows
    BY DEF Grows
  <1>2. \A q \in Procs : q # p => ~(pc[q] \in Owning /\ local[q].key = k)
    BY OtherOwner
  <1>3. \A q \in Procs : q # p => /\ ~Clash(pc'[p], local'[p], pc[q], local[q])
                                 /\ ~Clash(pc[q], local[q], pc'[p], local'[p])
    BY <1>2 DEF Clash
  <1>4. None \in Steps \cup {None} /\ None \notin Steps
    BY KeyFacts
  <1>5. \A i \in Steps : step'[i] = step[i] /\ ref'[i] = ref[i]
    OBVIOUS
  <1>6. \A q \in Procs : q # p /\ pc[q] \in Owning /\ local[q].key = k => Kept(k)
    BY <1>2
  <1>7. QED
    BY <1>1, <1>3, <1>4, <1>5, <1>6, StepOf

\* The command of p, the step it is for, and what is known of both.
LEMMA AtCommand ==
    ASSUME TypeOK, PartsOK, NEW p \in Procs, pc[p] \in Governing \cup {"planning"}
    PROVE  /\ PassOK(pc[p], local[p]) /\ local[p] \in Job
           /\ local[p].key \in Keys /\ local[p].key[1] = local[p].step
           /\ local[p].step \in Steps /\ step[local[p].step] # "none" /\ NeedsMet(local[p].step)
           /\ KeyOK(local[p].key)
  <1>1. PassOK(pc[p], local[p]) /\ local[p] \in Job
    BY DEF PartsOK, TypeOK
  <1>2. local[p].key \in Keys /\ local[p].key[1] = local[p].step
    BY <1>1 DEF PassOK, Job
  <1>3. local[p].step \in Steps /\ step[local[p].step] # "none" /\ NeedsMet(local[p].step)
    BY <1>1 DEF PassOK, Working
  <1>4. QED
    BY <1>1, <1>2, <1>3 DEF PartsOK

\* Where a process goes when the journal has returned its command.
LEMMA ReturnedTo ==
    ASSUME TypeOK, NEW p \in Procs, NEW status, Returned(p, status)
    PROVE  /\ pc' \in [Procs -> Locations] /\ local' \in [Procs -> Job]
           /\ pc'[p] = IF status = "approval_required" THEN "waiting" ELSE "finishing"
           /\ local'[p] = [local[p] EXCEPT !.succeeded = (status = "succeeded")]
           /\ \A q \in Procs : q # p => pc'[q] = pc[q] /\ local'[q] = local[q]
  <1> DEFINE j == [local[p] EXCEPT !.succeeded = (status = "succeeded")]
             l == IF status = "approval_required" THEN "waiting" ELSE "finishing"
  <1>1. j \in Job
    BY DEF TypeOK, Job
  <1>2. l \in Locations
    BY DEF Locations
  <1>3. Goto(p, l, j)
    BY DEF Returned
  <1> HIDE DEF j, l
  <1>4. /\ pc' \in [Procs -> Locations] /\ local' \in [Procs -> Job]
        /\ pc'[p] = l /\ local'[p] = j
        /\ \A q \in Procs : q # p => pc'[q] = pc[q] /\ local'[q] = local[q]
    BY <1>1, <1>2, <1>3, GotoType
  <1>5. QED
    BY <1>4 DEF j, l

LEMMA ReturnedOK ==
    ASSUME TypeOK, PartsOK, NEW p \in Procs, pc[p] \in Governing \cup {"planning"},
           NEW status, Returned(p, status), UNCHANGED <<dependsOn, step>>,
           command'[local[p].key] # "none",
           status = "succeeded" => command'[local[p].key] = "succeeded"
    PROVE  PassOK(pc[p], local[p])' /\ pc'[p] \notin Owning \cup {"initializing"}
  <1>1. /\ local[p] \in Job /\ local[p].key \in Keys /\ local[p].key[1] = local[p].step
        /\ local[p].step \in Steps /\ step[local[p].step] # "none" /\ NeedsMet(local[p].step)
    BY AtCommand
  <1>2. /\ pc'[p] \in {"waiting", "finishing"}
        /\ local'[p] = [local[p] EXCEPT !.succeeded = (status = "succeeded")]
    BY ReturnedTo
  <1>3. local'[p].key = local[p].key /\ local'[p].step = local[p].step
        /\ local'[p].succeeded = (status = "succeeded")
    BY <1>1, <1>2 DEF Job
  <1>4. None \notin Keys
    BY KeyFacts
  <1>5. NeedsMet(local[p].step)'
    BY <1>1, <1>3 DEF NeedsMet
  <1>6. QED
    BY <1>1, <1>2, <1>3, <1>4, <1>5 DEF PassOK, Working, Governing, Owning

\* A process that takes its command up, or goes on with it.
LEMMA OwningOK ==
    ASSUME TypeOK, PartsOK, NEW p \in Procs, pc[p] \in Governing \cup {"planning"},
           NEW l \in Owning, Goto(p, l, local[p]), UNCHANGED <<dependsOn, step>>,
           l = "judging" => command'[local[p].key] = "planned",
           l \in {"calling", "executing"} => command'[local[p].key] \in {"running", "ended"},
           l = "calling" => calls'[local[p].key] = 0,
           l = "executing" => calls'[local[p].key] = 1
    PROVE  /\ PassOK(pc[p], local[p])' /\ pc'[p] # "initializing"
           /\ pc' \in [Procs -> Locations] /\ local' \in [Procs -> Job]
           /\ \A q \in Procs : q # p => pc'[q] = pc[q] /\ local'[q] = local[q]
           /\ local'[p].key = local[p].key
  <1>1. /\ local[p] \in Job /\ local[p].key \in Keys /\ local[p].key[1] = local[p].step
        /\ local[p].step \in Steps /\ step[local[p].step] # "none" /\ NeedsMet(local[p].step)
    BY AtCommand
  <1>2. l \in Locations
    BY DEF Locations, Owning
  <1>3. /\ pc' \in [Procs -> Locations] /\ local' \in [Procs -> Job]
        /\ pc'[p] = l /\ local'[p] = local[p]
        /\ \A q \in Procs : q # p => pc'[q] = pc[q] /\ local'[q] = local[q]
    BY <1>1, <1>2, GotoType
  <1>4. NeedsMet(local[p].step)'
    BY <1>1, <1>3 DEF NeedsMet
  <1>5. command'[local[p].key] # "none" /\ None \notin Keys
    BY KeyFacts DEF Owning
  <1>6. QED
    BY <1>1, <1>3, <1>4, <1>5 DEF PassOK, Working, Governing, Owning

LEMMA PlanStep ==
    ASSUME TypeOK, PartsOK, NEW p \in Procs, Plan(p)
    PROVE  TypeOK' /\ PartsOK'
  <1>1. pc[p] = "planning" /\ UNCHANGED <<run, dependsOn, step, attempt, ref, approval, calls>>
    BY DEF Plan, ledger
  <1>2. PICK k \in Keys : k = local[p].key
    BY <1>1, AtCommand
  <1>3. KeyOK(k) /\ step[k[1]] # "none" /\ NeedsMet(k[1])
    BY <1>1, <1>2, AtCommand
  <1>4. CASE /\ command[k] = "none"
             /\ command' = [command EXCEPT ![k] = "planned"]
             /\ Goto(p, "judging", local[p])
    <2>1. command'[k] = "planned" /\ \A i \in Keys : i # k => command'[i] = command[i]
      BY <1>4 DEF TypeOK
    <2>2. /\ PassOK(pc[p], local[p])' /\ pc'[p] # "initializing"
          /\ pc' \in [Procs -> Locations] /\ local' \in [Procs -> Job]
          /\ \A q \in Procs : q # p => pc'[q] = pc[q] /\ local'[q] = local[q]
          /\ local'[p].key = k
      BY <1>1, <1>2, <1>4, <2>1, OwningOK DEF Owning
    <2>3. TypeOK'
      BY <1>1, <1>4, <2>2 DEF TypeOK, CommandStatus
    <2>4. KeyOK(k)'
      BY <1>1, <1>3, <1>4, <2>1 DEF KeyOK, NeedsMet
    <2>5. QED
      BY <1>1, <1>4, <2>1, <2>2, <2>3, <2>4, CommandStep
  <1>5. CASE command[k] # "none" /\ Returned(p, command[k]) /\ UNCHANGED command
    <2>1. PassOK(pc[p], local[p])' /\ pc'[p] \notin Owning \cup {"initializing"}
      BY <1>1, <1>2, <1>5, ReturnedOK
    <2>2. TypeOK'
      BY <1>1, <1>5, ReturnedTo DEF TypeOK
    <2>3. PICK l \in Locations, j \in Job : Goto(p, l, j) /\ pc'[p] = l /\ local'[p] = j
      <3>1. PICK l, j : /\ l = IF command[k] = "approval_required" THEN "waiting" ELSE "finishing"
                        /\ j = [local[p] EXCEPT !.succeeded = (command[k] = "succeeded")]
        OBVIOUS
      <3>2. Goto(p, l, j) /\ pc'[p] = l /\ local'[p] = j
        BY <1>5, <3>1, ReturnedTo DEF Returned
      <3>3. l \in Locations /\ j \in Job
        BY <2>2, <3>2 DEF TypeOK
      <3>4. QED
        BY <3>2, <3>3
    <2>4. PassOK(l, j) /\ l \notin Owning \cup {"initializing"}
      BY <1>1, <1>5, <2>1, <2>3 DEF PassOK, NeedsMet
    <2>5. UNCHANGED <<run, dependsOn, ledger, journal>>
      BY <1>1, <1>5 DEF ledger, journal
    <2>6. QED
      BY <2>3, <2>4, <2>5, ReadStep
  <1>6. QED
    BY <1>2, <1>4, <1>5 DEF Plan

LEMMA JudgeStep ==
    ASSUME TypeOK, PartsOK, NEW p \in Procs, Judge(p)
    PROVE  TypeOK' /\ PartsOK'
  <1>1. pc[p] = "judging" /\ UNCHANGED <<run, dependsOn, step, attempt, ref, calls>>
    BY DEF Judge, ledger
  <1>2. PICK k \in Keys : k = local[p].key
    BY <1>1, AtCommand DEF Governing
  <1>3. KeyOK(k) /\ command[k] = "planned" /\ step[k[1]] # "none" /\ NeedsMet(k[1]) /\ calls[k] = 0
    BY <1>1, <1>2, AtCommand DEF Governing, PassOK, KeyOK
  <1>4. PICK c \in {"ended", "approval_required", "running"} :
           /\ command' = [command EXCEPT ![k] = c]
           /\ \/ c # "running" /\ Returned(p, c)
              \/ c = "running" /\ Goto(p, "calling", local[p])
           /\ approval' = approval \/ approval' = [approval EXCEPT ![k] = "pending"]
    BY <1>2 DEF Judge
  <1>5. command'[k] = c /\ \A i \in Keys : i # k => command'[i] = command[i]
    BY <1>4 DEF TypeOK
  <1>6. approval' \in [Keys -> ApprovalStatus]
    BY <1>4 DEF TypeOK, ApprovalStatus
  <1>7. KeyOK(k)'
    BY <1>1, <1>3, <1>5 DEF KeyOK, NeedsMet
  <1>8. /\ PassOK(pc[p], local[p])' /\ pc'[p] # "initializing"
        /\ pc' \in [Procs -> Locations] /\ local' \in [Procs -> Job]
        /\ \A q \in Procs : q # p => pc'[q] = pc[q] /\ local'[q] = local[q]
        /\ pc'[p] \in Owning => local'[p].key = k
    <2>1. CASE c # "running" /\ Returned(p, c)
      BY <1>1, <1>2, <1>4, <1>5, <2>1, ReturnedOK, ReturnedTo DEF Governing
    <2>2. CASE c = "running" /\ Goto(p, "calling", local[p])
      BY <1>1, <1>2, <1>3, <1>5, <2>2, OwningOK DEF Governing, Owning
    <2>3. QED
      BY <1>4, <2>1, <2>2
  <1>9. TypeOK'
    BY <1>1, <1>4, <1>6, <1>8 DEF TypeOK, CommandStatus
  <1>10. pc[p] \in Owning /\ local[p].key = k
    BY <1>1, <1>2 DEF Owning
  <1>11. PartsOK'
    BY <1>1, <1>3, <1>5, <1>7, <1>8, <1>9, <1>10, CommandStep
  <1>12. QED
    BY <1>9, <1>11

LEMMA CallExecutorStep ==
    ASSUME TypeOK, PartsOK, NEW p \in Procs, CallExecutor(p)
    PROVE  TypeOK' /\ PartsOK'
  <1>1. /\ pc[p] = "calling" /\ Goto(p, "executing", local[p])
        /\ UNCHANGED <<run, dependsOn, step, attempt, ref, command, approval>>
    BY DEF CallExecutor, ledger
  <1>2. PICK k \in Keys : k = local[p].key
    BY <1>1, AtCommand DEF Governing
  <1>3. /\ KeyOK(k) /\ command[k] \in {"running", "ended"} /\ calls[k] = 0
        /\ step[k[1]] # "none" /\ NeedsMet(k[1])
    BY <1>1, <1>2, AtCommand DEF Governing, PassOK
  <1>4. calls' = [calls EXCEPT ![k] = calls[k] + 1]
    BY <1>2 DEF CallExecutor
  <1>5. calls'[k] = 1 /\ calls' \in [Keys -> Nat] /\ \A i \in Keys : i # k => calls'[i] = calls[i]
    BY <1>3, <1>4 DEF TypeOK
  <1>6. /\ PassOK(pc[p], local[p])' /\ pc'[p] # "initializing"
        /\ pc' \in [Procs -> Locations] /\ local' \in [Procs -> Job]
        /\ \A q \in Procs : q # p => pc'[q] = pc[q] /\ local'[q] = local[q]
        /\ local'[p].key = k
    BY <1>1, <1>2, <1>3, <1>5, OwningOK DEF Governing, Owning
  <1>7. TypeOK'
    BY <1>1, <1>5, <1>6 DEF TypeOK
  <1>8. KeyOK(k)'
    BY <1>1, <1>3, <1>5 DEF KeyOK, NeedsMet
  <1>9. pc[p] \in Owning /\ local[p].key = k
    BY <1>1, <1>2 DEF Owning
  <1>10. PartsOK'
    BY <1>1, <1>3, <1>5, <1>6, <1>7, <1>8, <1>9, CommandStep
  <1>11. QED
    BY <1>7, <1>10

LEMMA RecordResultStep ==
    ASSUME TypeOK, PartsOK, NEW p \in Procs, RecordResult(p)
    PROVE  TypeOK' /\ PartsOK'
  <1>1. /\ pc[p] = "executing"
        /\ UNCHANGED <<run, dependsOn, step, attempt, ref, approval, calls>>
    BY DEF RecordResult, ledger
  <1>2. PICK k \in Keys : k = local[p].key
    BY <1>1, AtCommand DEF Governing
  <1>3. CASE Return(p) /\ UNCHANGED command
    BY <1>1, <1>3, ReturnStep DEF ledger, journal
  <1>4. CASE command[k] = "running" /\ \E result \in {"succeeded", "ended"} :
                /\ command' = [command EXCEPT ![k] = result]
                /\ Returned(p, result)
    <2>1. PICK result \in {"succeeded", "ended"} :
             /\ command' = [command EXCEPT ![k] = result]
             /\ Returned(p, result)
      BY <1>4
    <2>2. KeyOK(k) /\ calls[k] = 1 /\ step[k[1]] # "none" /\ NeedsMet(k[1])
      BY <1>1, <1>2, AtCommand DEF Governing, PassOK
    <2>3. command'[k] = result /\ \A i \in Keys : i # k => command'[i] = command[i]
      BY <2>1 DEF TypeOK
    <2>4. /\ PassOK(pc[p], local[p])' /\ pc'[p] \notin Owning \cup {"initializing"}
          /\ pc' \in [Procs -> Locations] /\ local' \in [Procs -> Job]
          /\ \A q \in Procs : q # p => pc'[q] = pc[q] /\ local'[q] = local[q]
      BY <1>1, <1>2, <2>1, <2>3, ReturnedOK, ReturnedTo DEF Governing
    <2>5. TypeOK'
      BY <1>1, <2>1, <2>4 DEF TypeOK, CommandStatus
    <2>6. KeyOK(k)'
      BY <1>1, <2>2, <2>3 DEF KeyOK, NeedsMet
    <2>7. pc[p] \in Owning /\ local[p].key = k
      BY <1>1, <1>2 DEF Owning
    <2>8. PartsOK'
      BY <1>1, <1>4, <2>3, <2>4, <2>5, <2>6, <2>7, CommandStep
    <2>9. QED
      BY <2>5, <2>8
  <1>5. QED
    BY <1>2, <1>3, <1>4 DEF RecordResult

LEMMA ExecuteApprovedStep ==
    ASSUME TypeOK, PartsOK, NEW p \in Procs, ExecuteApproved(p)
    PROVE  TypeOK' /\ PartsOK'
  <1>1. pc[p] = "consuming" /\ UNCHANGED <<run, dependsOn, step, attempt, ref, calls>>
    BY DEF ExecuteApproved, ledger
  <1>2. PICK k \in Keys : k = local[p].key
    BY <1>1, AtCommand DEF Governing
  <1>3. CASE Return(p) /\ UNCHANGED <<command, approval>>
    BY <1>1, <1>3, ReturnStep DEF ledger, journal
  <1>4. CASE /\ command[k] = "approval_required"
             /\ \/ /\ command' = [command EXCEPT ![k] = "ended"]
                   /\ Returned(p, "ended")
                   /\ UNCHANGED approval
                \/ /\ command' = [command EXCEPT ![k] = "running"]
                   /\ approval' = [approval EXCEPT ![k] = "closed"]
                   /\ Goto(p, "calling", local[p])
    <2>1. PICK c \in {"ended", "running"} :
             /\ command' = [command EXCEPT ![k] = c]
             /\ \/ c # "running" /\ Returned(p, c)
                \/ c = "running" /\ Goto(p, "calling", local[p])
             /\ approval' = approval \/ approval' = [approval EXCEPT ![k] = "closed"]
      BY <1>4
    <2>2. KeyOK(k) /\ calls[k] = 0 /\ step[k[1]] # "none" /\ NeedsMet(k[1])
      BY <1>1, <1>2, <1>4, AtCommand DEF Governing, KeyOK
    <2>3. command'[k] = c /\ \A i \in Keys : i # k => command'[i] = command[i]
      BY <2>1 DEF TypeOK
    <2>4. approval' \in [Keys -> ApprovalStatus]
      BY <2>1 DEF TypeOK, ApprovalStatus
    <2>5. /\ PassOK(pc[p], local[p])' /\ pc'[p] # "initializing"
          /\ pc' \in [Procs -> Locations] /\ local' \in [Procs -> Job]
          /\ \A q \in Procs : q # p => pc'[q] = pc[q] /\ local'[q] = local[q]
          /\ pc'[p] \in Owning => local'[p].key = k
      <3>1. CASE c # "running" /\ Returned(p, c)
        BY <1>1, <1>2, <2>1, <2>3, <3>1, ReturnedOK, ReturnedTo DEF Governing
      <3>2. CASE c = "running" /\ Goto(p, "calling", local[p])
        BY <1>1, <1>2, <2>2, <2>3, <3>2, OwningOK DEF Governing, Owning
      <3>3. QED
        BY <2>1, <3>1, <3>2
    <2>6. TypeOK'
      BY <1>1, <2>1, <2>4, <2>5 DEF TypeOK, CommandStatus
    <2>7. KeyOK(k)'
      BY <1>1, <2>2, <2>3 DEF KeyOK, NeedsMet
    <2>8. PartsOK'
      BY <1>1, <1>4, <2>3, <2>5, <2>6, <2>7, CommandStep
    <2>9. QED
      BY <2>6, <2>8
  <1>5. QED
    BY <1>2, <1>3, <1>4 DEF ExecuteApproved

-----------------------------------------------------------------------------
(* Recovery, the operator and failures                                     *)

LEMMA InterruptStep ==
    ASSUME TypeOK, PartsOK, NEW p \in Procs, NEW k \in Keys, Interrupt(p, k)
    PROVE  TypeOK' /\ PartsOK'
  <1>1. /\ pc[p] = "recovering" /\ command[k] = "running"
        /\ command' = [command EXCEPT ![k] = "ended"]
        /\ UNCHANGED <<run, dependsOn, step, attempt, ref, approval, calls, pc, local>>
    BY DEF Interrupt, ledger
  <1>2. TypeOK'
    BY <1>1 DEF TypeOK, CommandStatus
  <1>3. command'[k] = "ended" /\ \A i \in Keys : i # k => command'[i] = command[i]
    BY <1>1 DEF TypeOK
  <1>4. Grows
    BY <1>1, <1>3 DEF Grows
  <1>5. KeyOK(k)'
    <2>1. KeyOK(k)
      BY DEF PartsOK
    <2>2. QED
      BY <1>1, <1>3, <2>1 DEF KeyOK, NeedsMet
  <1>6. Kept(k)
    BY <1>1, <1>3 DEF Kept
  <1>7. PassOK(pc[p], local[p])'
    BY <1>1, <1>4, OthersOK DEF Owning, TypeOK
  <1>8. \A q \in Procs : q # p => /\ ~Clash(pc'[p], local'[p], pc[q], local[q])
                                 /\ ~Clash(pc[q], local[q], pc'[p], local'[p])
    BY <1>1 DEF Clash, Owning
  <1>9. None \in Steps \cup {None} /\ None \notin Steps
    BY KeyFacts
  <1>10. \A i \in Steps : step'[i] = step[i] /\ ref'[i] = ref[i]
    BY <1>1
  <1>11. \A q \in Procs : pc'[q] = pc[q] /\ local'[q] = local[q]
    BY <1>1
  <1>12. \A i \in Keys : i # k => command'[i] = command[i] /\ calls'[i] = calls[i]
    BY <1>1, <1>3
  <1>13. PartsOK'
    BY <1>2, <1>4, <1>5, <1>6, <1>7, <1>8, <1>9, <1>10, <1>11, <1>12, StepOf
  <1>14. QED
    BY <1>2, <1>13

\* What the invariant is about is left as it is.
LEMMA QuietPartsOK ==
    ASSUME TypeOK, PartsOK, UNCHANGED <<run, dependsOn, step, ref, command, calls, pc, local>>
    PROVE  PartsOK'
  BY DEF PartsOK, StepOK, KeyOK, PassOK, NeedsMet, Clash

LEMMA DecideApprovalStep ==
    ASSUME TypeOK, PartsOK, NEW k \in Keys, DecideApproval(k)
    PROVE  TypeOK' /\ PartsOK'
  <1>1. /\ UNCHANGED <<run, dependsOn, step, attempt, ref, command, calls, pc, local>>
        /\ \E a \in {"approved", "closed"} : approval' = [approval EXCEPT ![k] = a]
    BY DEF DecideApproval, ledger
  <1>2. TypeOK'
    BY <1>1 DEF TypeOK, ApprovalStatus
  <1>3. QED
    BY <1>1, <1>2, QuietPartsOK

-----------------------------------------------------------------------------
(* The invariant                                                           *)

LEMMA InitOK == Init => TypeOK /\ PartsOK /\ Bound
  <1> SUFFICES ASSUME Init
               PROVE  TypeOK /\ PartsOK /\ Bound
    OBVIOUS
  <1>1. TypeOK
    BY NoJobType, BoundsAreNumbers
       DEF Init, TypeOK, RunStatus, StepStatus, CommandStatus, ApprovalStatus, Locations
  <1>2. \A s \in Steps : StepOK(s)
    BY DEF Init, StepOK
  <1>3. \A k \in Keys : KeyOK(k)
    BY DEF Init, KeyOK
  <1>4. \A p \in Procs : PassOK(pc[p], local[p])
    BY DEF Init, PassOK, NoJob, Working, Governing
  <1>5. \A p, q \in Procs : ~Clash(pc[p], local[p], pc[q], local[q])
    BY DEF Init, Clash, Owning
  <1>6. Bound
    BY DEF Init, Bound
  <1>7. QED
    BY <1>1, <1>2, <1>3, <1>4, <1>5, <1>6 DEF PartsOK

LEMMA NextOK ==
    ASSUME TypeOK, PartsOK, [Next]_vars
    PROVE  TypeOK' /\ PartsOK'
  <1>1. CASE UNCHANGED vars
    <2>1. UNCHANGED <<run, dependsOn, step, attempt, ref, command, approval, calls, pc, local>>
      BY <1>1 DEF vars, ledger, journal
    <2>2. TypeOK'
      BY <2>1 DEF TypeOK
    <2>3. QED
      BY <2>1, <2>2, QuietPartsOK
  <1>2. ASSUME NEW k \in Keys, DecideApproval(k)
        PROVE  TypeOK' /\ PartsOK'
    BY <1>2, DecideApprovalStep
  <1>3. ASSUME NEW p \in Procs, NEW mission \in Missions, Start(p, mission)
        PROVE  TypeOK' /\ PartsOK'
    BY <1>3, StartStep
  <1>4. ASSUME NEW p \in Procs, Resume(p)
        PROVE  TypeOK' /\ PartsOK'
    BY <1>4, ResumeStep
  <1>5. ASSUME NEW p \in Procs, Enter(p)
        PROVE  TypeOK' /\ PartsOK'
    BY <1>5, InitializeStep, ResumeStep, InterruptStep DEF Enter
  <1>6. ASSUME NEW p \in Procs, Drive(p)
        PROVE  TypeOK' /\ PartsOK'
    BY <1>6, VisitStep, CheckDependenciesStep, BlockStep, PrepareStep, BeginAttemptStep,
       AwaitApprovalStep, FinishStep, ReadApprovalStep, ReadStepsStep, CloseRunStep DEF Drive
  <1>7. ASSUME NEW p \in Procs, Govern(p)
        PROVE  TypeOK' /\ PartsOK'
    BY <1>7, PlanStep, JudgeStep, CallExecutorStep, RecordResultStep, ExecuteApprovedStep DEF Govern
  <1>8. ASSUME NEW p \in Procs, Die(p)
        PROVE  TypeOK' /\ PartsOK'
    BY <1>8, ReturnStep DEF Die
  <1>9. QED
    BY <1>1, <1>2, <1>3, <1>4, <1>5, <1>6, <1>7, <1>8 DEF Next

LEMMA BoundKept ==
    ASSUME TypeOK, PartsOK, Bound, [Next]_vars
    PROVE  Bound'
  <1>1. CASE run' # "none"
    BY <1>1 DEF Bound
  <1>2. CASE run' = run /\ pc' = pc
    BY <1>2 DEF Bound
  <1>3. ASSUME NEW p \in Procs, run # "none", run' = run
        PROVE  Bound'
    BY <1>3 DEF Bound
  <1>4. CASE UNCHANGED vars
    BY <1>2, <1>4 DEF vars
  <1>5. ASSUME NEW k \in Keys, DecideApproval(k)
        PROVE  Bound'
    BY <1>2, <1>5 DEF DecideApproval
  <1>6. ASSUME NEW p \in Procs, NEW mission \in Missions, Start(p, mission)
        PROVE  Bound'
    BY <1>1, <1>6 DEF Start
  <1>7. ASSUME NEW p \in Procs, Resume(p) \/ Die(p)
        PROVE  Bound'
    BY <1>3, <1>7 DEF Resume, Die, Bound
  <1>8. ASSUME NEW p \in Procs, pc[p] # "idle",
               \/ run' = run
               \/ run' = "running"
               \/ pc[p] = "closing" /\ run' = local[p].final
        PROVE  Bound'
    <2>1. run # "none" /\ (pc[p] = "closing" => local[p].final # "none")
      BY <1>8 DEF Bound, PartsOK, PassOK
    <2>2. QED
      BY <1>1, <1>8, <2>1
  <1>9. ASSUME NEW p \in Procs, Enter(p) \/ Drive(p) \/ Govern(p)
        PROVE  Bound'
    <2>1. CASE Enter(p)
      BY <1>8, <2>1 DEF Enter, InitializeSteps, EndRecovery, BeginRun, Interrupt
    <2>2. CASE Govern(p)
      BY <1>8, <2>2 DEF Govern, Plan, Judge, CallExecutor, RecordResult, ExecuteApproved
    <2>3. CASE Drive(p)
      BY <1>8, <2>3 DEF Drive, Visit, CheckDependencies, Block, Prepare, BeginAttempt,
         AwaitApproval, Finish, ReadApproval, ReadSteps, CloseRun
    <2>4. QED
      BY <1>9, <2>1, <2>2, <2>3
  <1>10. QED
    BY <1>4, <1>5, <1>6, <1>7, <1>9 DEF Next

LEMMA InvariantOfParts == Spec => [](TypeOK /\ PartsOK /\ Bound)
  <1>1. Init => TypeOK /\ PartsOK /\ Bound
    BY InitOK
  <1>2. TypeOK /\ PartsOK /\ Bound /\ [Next]_vars => (TypeOK /\ PartsOK /\ Bound)'
    BY NextOK, BoundKept
  <1>3. QED
    BY <1>1, <1>2, PTL DEF Spec

\* The tables and the passes over the run keep their types.
THEOREM TypeCorrect == Spec => []TypeOK
  BY InvariantOfParts, PTL

\* The inductive invariant: the run's ledger, the journal and every pass
\* over the run agree.
THEOREM MissionInvariant == Spec => []MissionInv
  <1>1. PartsOK /\ Bound => MissionInv
    BY Parts
  <1>2. QED
    BY <1>1, InvariantOfParts, PTL

\* No command of a step is executed before the steps it depends on are done,
\* for every mission, set of processes and bound.
THEOREM DependenciesComeFirst == Spec => []DependenciesFirst
  <1>1. TypeOK /\ PartsOK => DependenciesFirst
    <2> SUFFICES ASSUME TypeOK, PartsOK, NEW k \in Keys, calls[k] > 0
                 PROVE  NeedsMet(k[1])
      BY DEF DependenciesFirst, NeedsMet
    <2>1. KeyOK(k)
      BY DEF PartsOK
    <2>2. command[k] # "none"
      BY <2>1 DEF KeyOK
    <2>3. QED
      BY <2>1, <2>2 DEF KeyOK
  <1>2. QED
    BY <1>1, InvariantOfParts, PTL

\* However many processes drive one run, an attempt reaches the executor once.
THEOREM AttemptsExecuteOnce == Spec => []AttemptExecutedOnce
  <1>1. PartsOK => AttemptExecutedOnce
    BY DEF PartsOK, KeyOK, AttemptExecutedOnce
  <1>2. QED
    BY <1>1, InvariantOfParts, PTL

\* A step that has succeeded did so on account of a command of its own that
\* was executed and recorded as a success.
THEOREM SuccessesAreBacked == Spec => []SuccessIsBacked
  <1>1. TypeOK /\ PartsOK => SuccessIsBacked
    <2> SUFFICES ASSUME TypeOK, PartsOK, NEW s \in Steps, step[s] = "succeeded"
                 PROVE  /\ ref[s] # None
                        /\ ref[s][1] = s
                        /\ command[ref[s]] = "succeeded"
                        /\ calls[ref[s]] > 0
      BY DEF SuccessIsBacked
    <2>1. ref[s] # None /\ ref[s][1] = s /\ command[ref[s]] = "succeeded"
      BY DEF PartsOK, StepOK
    <2>2. ref[s] \in Keys
      BY <2>1 DEF TypeOK
    <2>3. KeyOK(ref[s])
      BY <2>2 DEF PartsOK
    <2>4. QED
      BY <2>1, <2>3 DEF KeyOK
  <1>2. QED
    BY <1>1, InvariantOfParts, PTL

-----------------------------------------------------------------------------
(* The refinement of GovernedMission                                       *)

Done == {s \in Steps : step[s] = "succeeded"}

\* What a stutter of GovernedMission leaves alone.
LEMMA Stutter ==
    ASSUME UNCHANGED dependsOn, (run' # "none") <=> (run # "none"), Done' = Done, UNCHANGED calls
    PROVE  UNCHANGED Mission!vars
  BY DEF Mission!vars, Done

LEMMA QuietStutter ==
    ASSUME UNCHANGED <<dependsOn, step, calls>>, (run' # "none") <=> (run # "none")
    PROVE  UNCHANGED Mission!vars
  <1>1. Done' = Done
    BY DEF Done
  <1>2. QED
    BY <1>1, Stutter

\* set_mission_step_status completes the step or changes nothing that is
\* promised.
LEMMA SetStepPromise ==
    ASSUME TypeOK, PartsOK, NEW p \in Procs,
           NEW target \in {"blocked", "failed", "waiting_approval", "succeeded"},
           NEW key \in Keys \cup {None}, SetStep(p, target, key),
           local[p].step \in Steps, UNCHANGED <<run, dependsOn, calls>>,
           target = "succeeded" => /\ NeedsMet(local[p].step)
                                   /\ key # None /\ key[1] = local[p].step /\ calls[key] > 0
    PROVE  [Mission!Next]_(Mission!vars)
  <1>0. PICK s \in Steps : s = local[p].step
    OBVIOUS
  <1>1. CASE UNCHANGED step
    BY <1>1, QuietStutter
  <1>2. CASE target \in Successors(step[s]) /\ step' = [step EXCEPT ![s] = target]
    <2>1. step[s] # "succeeded"
      BY <1>2 DEF Successors
    <2>2. CASE target # "succeeded"
      <3>1. Done' = Done
        BY <1>2, <2>1, <2>2 DEF Done, TypeOK
      <3>2. QED
        BY <3>1, Stutter
    <2>3. CASE target = "succeeded"
      <3>1. Done' = Done \cup {s} /\ s \notin Done
        BY <1>2, <2>1, <2>3 DEF Done, TypeOK
      <3>2. dependsOn[s] \subseteq Done
        BY <1>0, <2>3 DEF NeedsMet, Done, TypeOK
      <3>3. key \in Keys /\ key[1] = s /\ calls[key] > 0
        BY <1>0, <2>3
      <3>4. Mission!Complete(s)
        BY <3>1, <3>2, <3>3 DEF Mission!Complete, Done
      <3>5. QED
        BY <3>4 DEF Mission!Next
    <2>4. QED
      BY <2>2, <2>3
  <1>3. QED
    BY <1>0, <1>1, <1>2 DEF SetStep

LEMMA FinishPromise ==
    ASSUME TypeOK, PartsOK, NEW p \in Procs, Block(p) \/ Prepare(p) \/ AwaitApproval(p) \/ Finish(p)
    PROVE  [Mission!Next]_(Mission!vars)
  <1>1. UNCHANGED <<run, dependsOn, calls>> /\ None \in Keys \cup {None}
    BY DEF Block, Prepare, AwaitApproval, Finish, journal
  <1>2. local[p].step \in Steps
    BY DEF PartsOK, PassOK, Block, Prepare, AwaitApproval, Finish, Working, Governing
  <1>3. CASE Block(p) \/ Prepare(p)
    <2>1. UNCHANGED step \/ \E target \in {"blocked", "failed"} : SetStep(p, target, None)
      BY <1>3 DEF Block, Prepare
    <2>2. QED
      BY <1>1, <1>2, <2>1, SetStepPromise, QuietStutter
  <1>4. CASE AwaitApproval(p) \/ Finish(p)
    <2>1. PICK k \in Keys : k = local[p].key
      BY <1>4, AtCommand DEF AwaitApproval, Finish, Governing
    <2>2. PICK target \in {"failed", "waiting_approval", "succeeded"} :
             /\ SetStep(p, target, k)
             /\ target = "succeeded" => pc[p] = "finishing" /\ local[p].succeeded
      BY <1>4, <2>1 DEF AwaitApproval, Finish
    <2>3. k[1] = local[p].step /\ NeedsMet(local[p].step) /\ KeyOK(k) /\ PassOK(pc[p], local[p])
      BY <1>4, <2>1, AtCommand DEF AwaitApproval, Finish, Governing
    <2>4. target = "succeeded" => calls[k] > 0
      BY <2>1, <2>2, <2>3 DEF PassOK, KeyOK
    <2>5. k # None
      BY KeyFacts
    <2>6. QED
      BY <1>1, <1>2, <2>2, <2>3, <2>4, <2>5, SetStepPromise
  <1>5. QED
    BY <1>3, <1>4

LEMMA BeginAttemptPromise ==
    ASSUME TypeOK, PartsOK, NEW p \in Procs, BeginAttempt(p)
    PROVE  UNCHANGED Mission!vars
  <1>1. UNCHANGED <<run, dependsOn, calls>>
    BY DEF BeginAttempt, journal
  <1>2. PICK s \in Steps : s = local[p].step
    BY DEF PartsOK, PassOK, BeginAttempt, Working
  <1>3. CASE UNCHANGED step
    BY <1>1, <1>3, QuietStutter
  <1>4. CASE "running" \in Successors(step[s]) /\ step' = [step EXCEPT ![s] = "running"]
    <2>1. step[s] # "succeeded"
      BY <1>4 DEF Successors
    <2>2. Done' = Done
      BY <1>4, <2>1 DEF Done, TypeOK
    <2>3. QED
      BY <1>1, <2>2, Stutter
  <1>5. QED
    BY <1>2, <1>3, <1>4 DEF BeginAttempt

LEMMA CallExecutorPromise ==
    ASSUME TypeOK, PartsOK, NEW p \in Procs, CallExecutor(p)
    PROVE  [Mission!Next]_(Mission!vars)
  <1>1. pc[p] = "calling" /\ UNCHANGED <<run, dependsOn, step>>
    BY DEF CallExecutor, ledger
  <1>2. PICK k \in Keys : k = local[p].key
    BY <1>1, AtCommand DEF Governing
  <1>3. calls[k] = 0 /\ NeedsMet(k[1]) /\ k[1] \in Steps
    BY <1>1, <1>2, AtCommand DEF Governing, PassOK
  <1>4. calls' = [calls EXCEPT ![k] = calls[k] + 1]
    BY <1>2 DEF CallExecutor
  <1>5. calls' = [calls EXCEPT ![k] = 1]
    BY <1>3, <1>4
  <1>6. dependsOn[k[1]] \subseteq Done /\ Done' = Done
    BY <1>1, <1>3 DEF NeedsMet, Done, TypeOK
  <1>7. Mission!Execute(k)
    BY <1>1, <1>3, <1>5, <1>6 DEF Mission!Execute, Done
  <1>8. QED
    BY <1>7 DEF Mission!Next

LEMMA StepKeepsPromise ==
    ASSUME TypeOK, PartsOK, Bound, [Next]_vars
    PROVE  [Mission!Next]_(Mission!vars)
  <1>1. CASE UNCHANGED vars
    BY <1>1, QuietStutter DEF vars, ledger, journal
  <1>2. ASSUME NEW k \in Keys, DecideApproval(k)
        PROVE  [Mission!Next]_(Mission!vars)
    BY <1>2, QuietStutter DEF DecideApproval, ledger
  <1>3. ASSUME NEW p \in Procs, NEW mission \in Missions, Start(p, mission)
        PROVE  [Mission!Next]_(Mission!vars)
    <2>1. /\ run = "none" /\ run' = "created" /\ UNCHANGED <<step, calls>>
          /\ dependsOn' \in [Steps -> SUBSET Steps]
      BY <1>3, MissionsMapSteps DEF Start, ledger, journal
    <2>2. Mission!Accept
      BY <2>1 DEF Mission!Accept
    <2>3. QED
      BY <2>2 DEF Mission!Next
  <1>4. ASSUME NEW p \in Procs, Resume(p) \/ Die(p) \/ EndRecovery(p)
        PROVE  [Mission!Next]_(Mission!vars)
    BY <1>4, QuietStutter DEF Resume, Die, EndRecovery, ledger, journal
  <1>5. ASSUME NEW p \in Procs, BeginRun(p) \/ CloseRun(p)
        PROVE  [Mission!Next]_(Mission!vars)
    <2>1. run # "none" /\ run' # "none"
      BY <1>5 DEF Bound, PartsOK, PassOK, BeginRun, CloseRun
    <2>2. UNCHANGED <<dependsOn, step, calls>>
      BY <1>5 DEF BeginRun, CloseRun, ledger, journal
    <2>3. QED
      BY <2>1, <2>2, QuietStutter
  <1>6. ASSUME NEW p \in Procs, InitializeSteps(p)
        PROVE  [Mission!Next]_(Mission!vars)
    <2>1. \A s \in Steps : step[s] = "none"
      BY <1>6 DEF InitializeSteps, PartsOK, PassOK
    <2>2. Done' = Done /\ UNCHANGED <<run, dependsOn, calls>>
      BY <1>6, <2>1 DEF InitializeSteps, Done, journal
    <2>3. QED
      BY <2>2, Stutter
  <1>7. ASSUME NEW p \in Procs, NEW k \in Keys, Interrupt(p, k)
        PROVE  [Mission!Next]_(Mission!vars)
    BY <1>7, QuietStutter DEF Interrupt, ledger
  <1>8. ASSUME NEW p \in Procs,
               Visit(p) \/ CheckDependencies(p) \/ ReadApproval(p) \/ ReadSteps(p)
        PROVE  [Mission!Next]_(Mission!vars)
    BY <1>8, QuietStutter DEF Visit, CheckDependencies, ReadApproval, ReadSteps, ledger, journal
  <1>9. ASSUME NEW p \in Procs, Plan(p) \/ Judge(p) \/ RecordResult(p) \/ ExecuteApproved(p)
        PROVE  [Mission!Next]_(Mission!vars)
    BY <1>9, QuietStutter DEF Plan, Judge, RecordResult, ExecuteApproved, ledger
  <1>10. ASSUME NEW p \in Procs, Drive(p)
         PROVE  [Mission!Next]_(Mission!vars)
    BY <1>5, <1>8, <1>10, FinishPromise, BeginAttemptPromise DEF Drive
  <1>11. QED
    BY <1>1, <1>2, <1>3, <1>4, <1>5, <1>6, <1>7, <1>9, <1>10, CallExecutorPromise
       DEF Next, Enter, Govern

\* The engine implements GovernedMission: every step of any process is a
\* step of the promise or leaves it alone.
THEOREM EngineGoverns == Spec => ImplementsGovernedMission
  <1>1. Init => Mission!Init
    BY DEF Init, Mission!Init
  <1>2. TypeOK /\ PartsOK /\ Bound /\ [Next]_vars => [Mission!Next]_(Mission!vars)
    BY StepKeepsPromise
  <1>3. QED
    BY <1>1, <1>2, InvariantOfParts, PTL DEF Spec, Mission!Spec, ImplementsGovernedMission
-----------------------------------------------------------------------------
(* The order of topological_steps                                          *)

\* Every set of numbers has a least one: what stands in for an induction.
LEMMA LeastNumber ==
    ASSUME NEW T \in SUBSET Nat, T # {}
    PROVE  \E m \in T : \A k \in T : m <= k
  <1> DEFINE F == {0..m : m \in T}
             R == StrictSubsetOrdering(Nat)
  <1>1. F \subseteq FiniteSubsetsOf(Nat) /\ F # {}
    <2>1. ASSUME NEW m \in T
          PROVE  0..m \in FiniteSubsetsOf(Nat)
      <3>1. 0 \in Int /\ m \in Int /\ 0..m \subseteq Nat
        OBVIOUS
      <3>2. IsFiniteSet(0..m)
        BY <3>1, FS_Interval
      <3> QED
        BY <3>1, <3>2 DEF FiniteSubsetsOf
    <2> QED
      BY <2>1
  <1>2. IsWellFoundedOn(R, FiniteSubsetsOf(Nat))
    BY FS_StrictSubsetOrderingWellFounded
  <1> HIDE DEF F, R
  <1>3. PICK x \in F : \A y \in F : ~(<<y, x>> \in R)
    BY <1>1, <1>2, WFMin
  <1> USE DEF F, R
  <1>4. PICK m \in T : x = 0..m
    OBVIOUS
  <1>5. ASSUME NEW k \in T, k < m
        PROVE  FALSE
    <2>1. m \in 0..m /\ m \notin 0..k /\ 0..k \subseteq 0..m
      BY <1>5
    <2>2. <<0..k, 0..m>> \in R
      BY <2>1 DEF StrictSubsetOrdering
    <2> QED
      BY <1>3, <1>4, <2>2
  <1> QED
    BY <1>5

\* result, in the loop of topological_steps, up to its n-th round.
IsResult(needs, f, n) ==
    f = [i \in 0..n |-> IF i = 0 THEN {}
                        ELSE f[i - 1] \cup FirstOf(Ready(needs, f[i - 1]))]

\* The loop's function is defined: a shortest prefix without one would extend
\* the one before it.
LEMMA ResultExists ==
    ASSUME NEW needs, NEW n \in Nat
    PROVE  \E f : IsResult(needs, f, n)
  <1> DEFINE More(done) == done \cup FirstOf(Ready(needs, done))
             T == {k \in Nat : ~\E f : IsResult(needs, f, k)}
  <1> SUFFICES T = {}
    OBVIOUS
  <1> SUFFICES ASSUME T # {} PROVE FALSE
    OBVIOUS
  <1>1. PICK m \in T : \A k \in T : m <= k
    <2> HIDE DEF T
    <2> QED
      BY LeastNumber DEF T
  <1> HIDE DEF More
  <1>2. CASE m = 0
    <2> DEFINE f == [i \in 0..0 |-> {}]
    <2>1. \A i \in 0..0 : i = 0
      OBVIOUS
    <2>2. IsResult(needs, f, 0)
      BY <2>1 DEF IsResult
    <2> QED
      BY <1>1, <1>2, <2>2
  <1>3. CASE m # 0
    <2>1. m - 1 \in Nat /\ m - 1 \notin T
      BY <1>1, <1>3
    <2>2. PICK f : IsResult(needs, f, m - 1)
      BY <2>1
    <2>3. /\ f = [i \in 0..m - 1 |-> f[i]]
          /\ \A i \in 0..m - 1 : f[i] = IF i = 0 THEN {} ELSE More(f[i - 1])
      BY <2>2 DEF IsResult, More
    <2> DEFINE g == [i \in 0..m |-> IF i = m THEN More(f[m - 1]) ELSE f[i]]
    <2>4. \A i \in 0..m : g[i] = IF i = 0 THEN {} ELSE More(g[i - 1])
      <3> TAKE i \in 0..m
      <3>1. CASE i = m
        <4>1. m - 1 \in 0..m /\ m - 1 # m /\ g[m - 1] = f[m - 1]
          BY <1>3
        <4> QED
          BY <1>3, <3>1, <4>1
      <3>2. CASE i # m
        <4>1. i \in 0..m - 1 /\ (i # 0 => i - 1 \in 0..m /\ i - 1 # m)
          BY <3>2
        <4>2. g[i] = f[i] /\ (i # 0 => g[i - 1] = f[i - 1])
          BY <3>2, <4>1
        <4> QED
          BY <2>3, <4>1, <4>2
      <3> QED
        BY <3>1, <3>2
    <2>5. g = [i \in 0..m |-> g[i]]
      OBVIOUS
    <2> HIDE DEF g
    <2>6. g = [i \in 0..m |-> IF i = 0 THEN {} ELSE More(g[i - 1])]
      BY <2>4, <2>5
    <2>7. IsResult(needs, g, m)
      BY <2>6 DEF IsResult, More
    <2> QED
      BY <1>1, <2>7
  <1> QED
    BY <1>2, <1>3

\* When the loop ends with every step, any other order of visiting steps that
\* are ready ends with every step, too.
LEMMA NothingLeftOut ==
    ASSUME NEW needs, ValidGraph(needs), NEW done \in SUBSET Steps, Ready(needs, done) = {}
    PROVE  done = Steps
  <1> DEFINE n == Cardinality(Steps)
             result == CHOOSE f : IsResult(needs, f, n)
  <1>1. n \in Nat
    BY StepsAreNumbers, FS_CardinalityType
  <1>2. IsResult(needs, result, n)
    BY <1>1, ResultExists
  <1>3. result[n] = Steps
    BY DEF ValidGraph, IsResult
  <1> HIDE DEF n, result
  <1> DEFINE T == {i \in 0..n : ~(result[i] \subseteq done)}
  <1>4. T = {}
    <2> SUFFICES ASSUME T # {} PROVE FALSE
      OBVIOUS
    <2>1. PICK m \in T : \A k \in T : m <= k
      <3>1. T \in SUBSET Nat
        BY <1>1
      <3> HIDE DEF T
      <3> QED
        BY <3>1, LeastNumber
    <2>2. result[0] = {}
      BY <1>1, <1>2 DEF IsResult
    <2>3. m # 0
      BY <2>1, <2>2
    <2>4. m - 1 \in 0..n /\ m - 1 \notin T
      BY <1>1, <2>1, <2>3
    <2>5. result[m] = result[m - 1] \cup FirstOf(Ready(needs, result[m - 1]))
      BY <1>2, <2>1, <2>3 DEF IsResult
    <2>6. result[m - 1] \subseteq done
      BY <2>4
    <2>7. FirstOf(Ready(needs, result[m - 1])) \subseteq done
      BY <2>6 DEF FirstOf, Ready
    <2> QED
      BY <2>1, <2>5, <2>6, <2>7
  <1>5. n \in 0..n
    BY <1>1
  <1> QED
    BY <1>3, <1>4, <1>5

\* No cycle: every set of steps has one that depends on none of the set.
Acyclic(needs) == \A U \in SUBSET Steps : U # {} => \E s \in U : needs[s] \cap U = {}

\* One more step is put out in every round, while some are left.
LEMMA OneMoreOut ==
    ASSUME NEW needs, Acyclic(needs), \A s \in Steps : needs[s] \subseteq Steps,
           NEW done \in SUBSET Steps, done # Steps
    PROVE  \E s \in Steps \ done : FirstOf(Ready(needs, done)) = {s}
  <1>1. PICK t \in Steps \ done : needs[t] \cap (Steps \ done) = {}
    <2>1. Steps \ done \in SUBSET Steps /\ Steps \ done # {}
      OBVIOUS
    <2> QED
      BY <2>1 DEF Acyclic
  <1>2. t \in Ready(needs, done)
    BY <1>1 DEF Ready
  <1>3. Ready(needs, done) \in SUBSET Nat
    BY StepsAreNumbers DEF Ready
  <1>4. PICK s \in Ready(needs, done) : \A k \in Ready(needs, done) : s <= k
    BY <1>2, <1>3, LeastNumber
  <1>5. \A k \in Ready(needs, done) : s \in Nat /\ k \in Nat /\ (k <= s => k = s)
    BY <1>3, <1>4
  <1>6. FirstOf(Ready(needs, done)) = {s}
    BY <1>4, <1>5 DEF FirstOf
  <1> QED
    BY <1>4, <1>6 DEF Ready

\* validate_mission_graph refuses a mission whose dependencies have a cycle,
\* and no other: the loop of topological_steps then leaves steps out.
THEOREM CyclesAreRefused ==
    ASSUME NEW needs \in [Steps -> SUBSET Steps]
    PROVE  ValidGraph(needs) <=> Acyclic(needs)
  <1>1. ASSUME ValidGraph(needs)
        PROVE  Acyclic(needs)
    <2> SUFFICES ASSUME NEW U \in SUBSET Steps, \A s \in U : needs[s] \cap U # {}
                 PROVE  U = {}
      BY DEF Acyclic
    <2>1. Ready(needs, Steps \ U) = {}
      BY DEF Ready
    <2>2. Steps \ U = Steps
      <3>1. Steps \ U \in SUBSET Steps
        OBVIOUS
      <3> QED
        BY <1>1, <2>1, <3>1, NothingLeftOut
    <2> QED
      BY <2>2
  <1>2. ASSUME Acyclic(needs)
        PROVE  ValidGraph(needs)
    <2> DEFINE n == Cardinality(Steps)
               result == CHOOSE f : IsResult(needs, f, n)
    <2>1. n \in Nat /\ IsFiniteSet(Steps)
      BY StepsAreNumbers, FS_CardinalityType
    <2>2. IsResult(needs, result, n)
      BY <2>1, ResultExists
    <2>3. ValidGraph(needs) <=> result[n] = Steps
      BY DEF ValidGraph, IsResult
    <2> HIDE DEF n, result
    <2> DEFINE Good(i) == result[i] \subseteq Steps /\ Cardinality(result[i]) = i
               T == {i \in 0..n : ~Good(i)}
    <2>4. T = {}
      <3> SUFFICES ASSUME T # {} PROVE FALSE
        OBVIOUS
      <3>1. PICK m \in T : \A k \in T : m <= k
        <4>1. T \in SUBSET Nat
          BY <2>1
        <4> HIDE DEF T
        <4> QED
          BY <4>1, LeastNumber
      <3>2. result[0] = {} /\ Good(0)
        BY <2>1, <2>2, FS_EmptySet DEF IsResult
      <3>3. m # 0
        BY <3>1, <3>2
      <3>4. m - 1 \in 0..n /\ m - 1 \notin T /\ m - 1 # n
        BY <2>1, <3>1, <3>3
      <3>5. result[m - 1] \subseteq Steps /\ Cardinality(result[m - 1]) = m - 1
        BY <3>4
      <3>6. result[m - 1] # Steps
        BY <3>4, <3>5 DEF n
      <3>7. \A s \in Steps : needs[s] \subseteq Steps
        OBVIOUS
      <3>8. PICK s \in Steps \ result[m - 1] : FirstOf(Ready(needs, result[m - 1])) = {s}
        BY <1>2, <3>5, <3>6, <3>7, OneMoreOut
      <3>9. result[m] = result[m - 1] \cup {s}
        BY <2>2, <3>1, <3>3, <3>8 DEF IsResult
      <3>10. IsFiniteSet(result[m - 1])
        BY <2>1, <3>5, FS_Subset
      <3>11. Cardinality(result[m]) = m - 1 + 1
        <4>1. PICK before : before = result[m - 1]
          OBVIOUS
        <4>2. Cardinality(before \cup {s}) = Cardinality(before) + 1
          <5>1. s \notin before /\ IsFiniteSet(before)
            BY <3>8, <3>10, <4>1
          <5> HIDE DEF T
          <5> QED
            BY <5>1, FS_AddElement
        <4> QED
          BY <3>5, <3>9, <4>1, <4>2
      <3>12. Good(m)
        BY <3>1, <3>5, <3>9, <3>11, <2>1
      <3> QED
        BY <3>1, <3>12
    <2>5. n \in 0..n
      BY <2>1
    <2>6. result[n] \subseteq Steps /\ Cardinality(result[n]) = Cardinality(Steps)
      BY <2>4, <2>5 DEF n
    <2>7. result[n] = Steps
      BY <2>1, <2>6, FS_Subset
    <2> QED
      BY <2>3, <2>7
  <1> QED
    BY <1>1, <1>2

-----------------------------------------------------------------------------
(* Passes that do not overlap                                              *)

Alone == \A p, q \in Procs : pc[p] # "idle" /\ pc[q] # "idle" => p = q

AllDone == \A s \in Steps : step[s] = "succeeded"

\* Locations of a pass that is at work on a step.
Underway == Working \cup {"depending", "blocking"}

\* A pass is through with steps that have ended, works on one that has not
\* succeeded, and closes the run as completed when all of them have.
PassDone(p) ==
    /\ \A s \in local[p].done : step[s] \in {"succeeded", "failed", "blocked"}
    /\ local[p].step \notin local[p].done
    /\ pc[p] = "visiting" => local[p].step = None
    /\ pc[p] \in Underway => step[local[p].step] # "succeeded"
    /\ pc[p] = "closing" /\ local[p].final = "completed" => AllDone

LoneInv ==
    /\ run # "none" => ValidGraph(dependsOn)
    /\ run = "completed" => AllDone
    /\ \A p \in Procs : pc[p] # "idle" => PassDone(p)

Lone == TypeOK /\ PartsOK /\ Bound /\ LoneInv /\ Alone

\* A step keeps the invariant if it does for the pass it belongs to.
LEMMA LoneStep ==
    ASSUME Lone, Alone', NEW p \in Procs, pc[p] # "idle" \/ pc'[p] # "idle",
           \A q \in Procs : q # p => pc'[q] = pc[q],
           run' # "none" => ValidGraph(dependsOn)',
           run' = "completed" => AllDone',
           pc'[p] # "idle" => PassDone(p)'
    PROVE  LoneInv'
  <1>1. \A q \in Procs : q # p => pc'[q] = "idle"
    BY DEF Lone, Alone
  <1> QED
    BY <1>1 DEF LoneInv

LEMMA GotoLone ==
    ASSUME TypeOK, NEW p \in Procs, NEW l, NEW job, Goto(p, l, job)
    PROVE  /\ pc'[p] = l /\ local'[p] = job
           /\ \A q \in Procs : q # p => pc'[q] = pc[q]
  BY DEF TypeOK, Goto

\* A pass that starts from nothing, in any location before its end.
LEMMA FreshLone ==
    ASSUME Lone, Alone', NEW p \in Procs, NEW l, Goto(p, l, NoJob), pc[p] # "idle" \/ l # "idle",
           l \in {"idle", "initializing", "recovering", "starting", "visiting"},
           run' # "none" => ValidGraph(dependsOn)',
           run' = "completed" => AllDone'
    PROVE  LoneInv'
  <1>1. /\ pc'[p] = l /\ local'[p] = NoJob
        /\ \A q \in Procs : q # p => pc'[q] = pc[q]
    BY GotoLone DEF Lone
  <1>2. PassDone(p)'
    BY <1>1 DEF PassDone, NoJob, Underway, Working, Governing
  <1> QED
    BY <1>1, <1>2, LoneStep

\* A pass that goes on without a change of the run or of its steps.
LEMMA GoOnLone ==
    ASSUME Lone, Alone', NEW p \in Procs, pc[p] # "idle", UNCHANGED <<run, dependsOn, step>>,
           NEW l, NEW job, Goto(p, l, job), l # "closing",
           \A s \in job.done : s \in local[p].done \/ step[s] = "succeeded",
           job.step \notin job.done, l = "visiting" => job.step = None,
           l \in Underway => step[job.step] # "succeeded"
    PROVE  LoneInv'
  <1>1. /\ pc'[p] = l /\ local'[p] = job
        /\ \A q \in Procs : q # p => pc'[q] = pc[q]
    BY GotoLone DEF Lone
  <1>2. PassDone(p) /\ (run = "completed" => AllDone) /\ (run # "none" => ValidGraph(dependsOn))
    BY DEF Lone, LoneInv
  <1>3. PassDone(p)'
    BY <1>1, <1>2 DEF PassDone
  <1> QED
    BY <1>1, <1>2, <1>3, LoneStep DEF AllDone

LEMMA ReturnLone ==
    ASSUME Lone, Alone', NEW p \in Procs, pc[p] # "idle", UNCHANGED <<run, dependsOn, step>>,
           Return(p)
    PROVE  LoneInv'
  <1>1. (run = "completed" => AllDone) /\ (run # "none" => ValidGraph(dependsOn))
    BY DEF Lone, LoneInv
  <1> QED
    BY <1>1, FreshLone DEF Return, AllDone

\* A pass that keeps its step and what it is through with.
LEMMA KeepLone ==
    ASSUME Lone, Alone', NEW p \in Procs, pc[p] \in Underway, UNCHANGED <<run, dependsOn, step>>,
           NEW l, NEW job, Goto(p, l, job), l \notin {"visiting", "closing"},
           job.done = local[p].done, job.step = local[p].step
    PROVE  LoneInv'
  <1>1. pc[p] # "idle" /\ PassDone(p)
    BY DEF Lone, LoneInv, Underway, Working, Governing
  <1> QED
    BY <1>1, GoOnLone DEF PassDone

LEMMA EnterLone ==
    ASSUME Lone, Alone', NEW p \in Procs,
           \/ \E mission \in Missions : Start(p, mission)
           \/ Resume(p) \/ Enter(p)
    PROVE  LoneInv'
  <1>1. (run = "completed" => AllDone) /\ (run # "none" => ValidGraph(dependsOn))
    BY DEF Lone, LoneInv
  <1>2. CASE \E mission \in Missions : Start(p, mission)
    BY <1>2, FreshLone DEF Start
  <1>3. CASE Resume(p)
    BY <1>1, <1>3, FreshLone DEF Resume, ledger, AllDone
  <1>4. CASE InitializeSteps(p)
    <2>1. \A s \in Steps : step[s] = "none"
      BY <1>4 DEF InitializeSteps, Lone, PartsOK, PassOK
    <2>2. run' = "completed" => AllDone'
      BY <1>1, <1>4, <2>1 DEF InitializeSteps, AllDone
    <2> QED
      BY <1>1, <1>4, <2>2, FreshLone DEF InitializeSteps
  <1>5. CASE EndRecovery(p)
    BY <1>1, <1>5, FreshLone DEF EndRecovery, ledger, AllDone
  <1>6. CASE BeginRun(p)
    <2>1. run # "none"
      BY <1>6 DEF BeginRun, Lone, Bound
    <2> QED
      BY <1>1, <1>6, <2>1, FreshLone DEF BeginRun
  <1>7. ASSUME NEW k \in Keys, Interrupt(p, k)
        PROVE  LoneInv'
    <2>1. /\ UNCHANGED <<run, dependsOn, step, pc, local>>
          /\ \A q \in Procs : PassDone(q)' <=> PassDone(q)
      BY <1>7 DEF Interrupt, ledger, PassDone, AllDone
    <2> QED
      BY <2>1 DEF Lone, LoneInv, AllDone
  <1> QED
    BY <1>2, <1>3, <1>4, <1>5, <1>6, <1>7 DEF Enter

\* SetStep ends its step; the pass is through with it, or waits.
LEMMA SetStepLone ==
    ASSUME Lone, Alone', NEW p \in Procs, pc[p] # "idle", UNCHANGED <<run, dependsOn>>,
           NEW target \in {"blocked", "failed", "waiting_approval", "succeeded"}, NEW key,
           SetStep(p, target, key), local[p].step \in Steps
    PROVE  LoneInv'
  <1>1. PICK s \in Steps : s = local[p].step
    OBVIOUS
  <1>2. CASE UNCHANGED step /\ Return(p)
    BY <1>2, ReturnLone
  <1>3. CASE /\ step' = [step EXCEPT ![s] = target] /\ step[s] # "succeeded"
             /\ IF target = "waiting_approval" THEN Return(p) ELSE Continue(p)
    <2>1. /\ run' # "none" => ValidGraph(dependsOn)'
          /\ run' = "completed" => AllDone'
      BY <1>3 DEF Lone, LoneInv, AllDone
    <2>2. CASE target = "waiting_approval"
      BY <1>3, <2>1, <2>2, FreshLone DEF Return
    <2>3. CASE target # "waiting_approval"
      <3>1. /\ pc'[p] = "visiting"
            /\ local'[p] = [NoJob EXCEPT !.done = local[p].done \cup {s}]
            /\ \A q \in Procs : q # p => pc'[q] = pc[q]
        BY <1>1, <1>3, <2>3, GotoLone DEF Continue, Lone
      <3>2. local'[p].done = local[p].done \cup {s} /\ local'[p].step = None
        BY <3>1 DEF NoJob
      <3>3. local[p].done \subseteq Steps /\ s \notin local[p].done
        BY <1>1 DEF Lone, LoneInv, PassDone, TypeOK, Job
      <3>4. \A t \in local'[p].done : step'[t] \in {"succeeded", "failed", "blocked"}
        BY <1>3, <2>3, <3>2, <3>3 DEF Lone, LoneInv, PassDone, TypeOK
      <3>5. PassDone(p)'
        BY <3>1, <3>2, <3>3, <3>4, NoneIsFresh DEF PassDone, Underway, Working, Governing
      <3> QED
        BY <2>1, <3>1, <3>5, LoneStep
    <2> QED
      BY <2>2, <2>3
  <1> QED
    BY <1>1, <1>2, <1>3 DEF SetStep, Successors

LEMMA DriveLone ==
    ASSUME Lone, Alone', NEW p \in Procs, Drive(p)
    PROVE  LoneInv'
  <1>1. pc[p] # "idle" => PassOK(pc[p], local[p]) /\ PassDone(p)
    BY DEF Lone, PartsOK, LoneInv
  <1>2. CASE Visit(p)
    <2>1. pc[p] # "idle" /\ UNCHANGED <<run, dependsOn, step>>
      BY <1>2 DEF Visit, ledger
    <2>2. PICK s \in Steps \ local[p].done :
             \/ Return(p)
             \/ /\ step[s] = "succeeded"
                /\ Goto(p, "visiting", [local[p] EXCEPT !.done = @ \cup {s}])
             \/ \E waits, n, key :
                   /\ step[s] # "succeeded"
                   /\ Goto(p, "depending", [local[p] EXCEPT !.step = s, !.waits = waits,
                                                            !.attempt = n, !.key = key])
      BY <1>2 DEF Visit, FirstOf, Ready
    <2>3. CASE Return(p)
      BY <2>1, <2>3, ReturnLone
    <2>4. CASE /\ step[s] = "succeeded"
               /\ Goto(p, "visiting", [local[p] EXCEPT !.done = @ \cup {s}])
      <3> DEFINE job == [local[p] EXCEPT !.done = @ \cup {s}]
      <3>1. job.done = local[p].done \cup {s} /\ job.step = local[p].step
        BY DEF Lone, TypeOK, Job
      <3>2. local[p].step = None /\ s # None
        BY <1>1, <1>2, NoneIsFresh DEF Visit, PassDone
      <3>3. Goto(p, "visiting", job) /\ step[s] = "succeeded"
        BY <2>4
      <3> HIDE DEF job
      <3>4. job.step = None /\ job.step \notin job.done
        BY <1>1, <2>1, <3>1, <3>2 DEF PassDone
      <3>5. "visiting" \notin Underway
        BY DEF Underway, Working, Governing
      <3> QED
        BY <2>1, <3>1, <3>3, <3>4, <3>5, GoOnLone
    <2>5. ASSUME NEW waits, NEW n, NEW key, step[s] # "succeeded",
                 Goto(p, "depending", [local[p] EXCEPT !.step = s, !.waits = waits,
                                                       !.attempt = n, !.key = key])
          PROVE  LoneInv'
      <3> DEFINE job == [local[p] EXCEPT !.step = s, !.waits = waits, !.attempt = n, !.key = key]
      <3>1. job.done = local[p].done /\ job.step = s
        BY DEF Lone, TypeOK, Job
      <3> HIDE DEF job
      <3>2. Goto(p, "depending", job)
        BY <2>5 DEF job
      <3> QED
        BY <2>1, <2>2, <2>5, <3>1, <3>2, GoOnLone
    <2> QED
      BY <2>2, <2>3, <2>4, <2>5
  <1>3. CASE CheckDependencies(p) \/ ReadApproval(p)
    <2>1. pc[p] \in Underway /\ pc[p] # "idle" /\ UNCHANGED <<run, dependsOn, step>>
      BY <1>3 DEF CheckDependencies, ReadApproval, ledger, Underway, Working
    <2>2. \/ Return(p)
          \/ \E l \in {"blocking", "approving", "preparing", "consuming"} : Goto(p, l, local[p])
      BY <1>3 DEF CheckDependencies, ReadApproval
    <2> QED
      BY <2>1, <2>2, ReturnLone, KeepLone
  <1>4. CASE Block(p) \/ AwaitApproval(p) \/ Finish(p)
    <2>1. pc[p] # "idle" /\ UNCHANGED <<run, dependsOn>> /\ local[p].step \in Steps
      BY <1>1, <1>4 DEF Block, AwaitApproval, Finish, PassOK, Working, Governing
    <2>2. \E target \in {"blocked", "failed", "waiting_approval", "succeeded"},
             key \in Keys \cup {None} : SetStep(p, target, key)
      <3>1. local[p].key \in Keys \cup {None}
        BY DEF Lone, TypeOK, Job
      <3> QED
        BY <1>4, <3>1 DEF Block, AwaitApproval, Finish
    <2> QED
      BY <2>1, <2>2, SetStepLone
  <1>5. CASE Prepare(p)
    <2>1. pc[p] # "idle" /\ UNCHANGED <<run, dependsOn>> /\ local[p].step \in Steps
      BY <1>1, <1>5 DEF Prepare, PassOK, Working
    <2>0. pc[p] \in Underway
      BY <1>5 DEF Prepare, Underway, Working
    <2>2. CASE SetStep(p, "failed", None)
      BY <2>1, <2>2, SetStepLone
    <2>3. ASSUME UNCHANGED step, NEW key,
                 Goto(p, "attempting", [local[p] EXCEPT !.key = key, !.attempt = 0])
          PROVE  LoneInv'
      <3> DEFINE job == [local[p] EXCEPT !.key = key, !.attempt = 0]
      <3>1. job.done = local[p].done /\ job.step = local[p].step
        BY DEF Lone, TypeOK, Job
      <3>2. Goto(p, "attempting", job)
        BY <2>3
      <3> HIDE DEF job
      <3> QED
        BY <2>0, <2>1, <2>3, <3>1, <3>2, KeepLone
    <2> QED
      BY <1>5, <2>2, <2>3 DEF Prepare
  <1>6. CASE BeginAttempt(p)
    <2>1. pc[p] # "idle" /\ UNCHANGED <<run, dependsOn>>
      BY <1>6 DEF BeginAttempt
    <2>2. PICK s \in Steps : s = local[p].step /\ s \notin local[p].done
      BY <1>1, <1>6 DEF BeginAttempt, PassOK, Working, PassDone
    <2>3. CASE UNCHANGED step /\ Return(p)
      BY <2>1, <2>3, ReturnLone
    <2>4. CASE /\ "running" \in Successors(step[s]) /\ step' = [step EXCEPT ![s] = "running"]
               /\ Goto(p, "planning", local[p])
      <3>1. /\ run' # "none" => ValidGraph(dependsOn)'
            /\ run' = "completed" => AllDone'
        BY <2>1, <2>4 DEF Lone, LoneInv, AllDone, Successors
      <3>2. /\ pc'[p] = "planning" /\ local'[p] = local[p]
            /\ \A q \in Procs : q # p => pc'[q] = pc[q]
        BY <2>4, GotoLone DEF Lone
      <3>3. PassDone(p)'
        BY <1>1, <2>1, <2>2, <2>4, <3>2 DEF PassDone, Lone, TypeOK
      <3> QED
        BY <3>1, <3>2, <3>3, LoneStep
    <2> QED
      BY <1>6, <2>2, <2>3, <2>4 DEF BeginAttempt
  <1>7. CASE ReadSteps(p)
    <2>1. pc[p] # "idle" /\ UNCHANGED <<run, dependsOn, step>> /\ run # "none"
      BY <1>7 DEF ReadSteps, ledger, Lone, Bound
    <2>2. local[p].done = Steps
      <3>1. local[p].done \in SUBSET Steps
        BY DEF Lone, TypeOK, Job
      <3> QED
        BY <1>7, <2>1, <3>1, NothingLeftOut DEF ReadSteps, Lone, LoneInv
    <2> DEFINE final == IF \E s \in Steps : step[s] \in {"failed", "blocked"}
                        THEN "failed" ELSE "completed"
    <2>3. final = "completed" => AllDone
      BY <1>1, <2>1, <2>2 DEF PassDone, AllDone
    <2> HIDE DEF final
    <2>4. /\ pc'[p] = "closing" /\ local'[p] = [local[p] EXCEPT !.final = final]
          /\ \A q \in Procs : q # p => pc'[q] = pc[q]
      BY <1>7, GotoLone DEF ReadSteps, Lone, final
    <2>5. /\ local'[p].done = local[p].done /\ local'[p].step = local[p].step
          /\ local'[p].final = final
      BY <2>4 DEF Lone, TypeOK, Job
    <2>6. PassDone(p)'
      BY <1>1, <2>1, <2>3, <2>4, <2>5 DEF PassDone, AllDone, Underway, Working, Governing
    <2> QED
      BY <2>1, <2>4, <2>6, LoneStep DEF Lone, LoneInv, AllDone
  <1>8. CASE CloseRun(p)
    <2>1. /\ pc[p] = "closing" /\ run' = local[p].final /\ Return(p)
          /\ UNCHANGED <<dependsOn, step>>
      BY <1>8 DEF CloseRun, ledger
    <2>2. run # "none"
      BY <2>1 DEF Lone, Bound
    <2>3. run' = "completed" => AllDone'
      BY <1>1, <2>1 DEF PassDone, AllDone
    <2>4. run' # "none" => ValidGraph(dependsOn)'
      BY <2>1, <2>2 DEF Lone, LoneInv
    <2> QED
      BY <2>1, <2>3, <2>4, FreshLone DEF Return
  <1> QED
    BY <1>2, <1>3, <1>4, <1>5, <1>6, <1>7, <1>8 DEF Drive

LEMMA GovernLone ==
    ASSUME Lone, Alone', NEW p \in Procs, Govern(p)
    PROVE  LoneInv'
  <1>1. pc[p] \in Underway /\ pc[p] # "idle" /\ UNCHANGED <<run, dependsOn, step>>
    BY DEF Govern, Plan, Judge, CallExecutor, RecordResult, ExecuteApproved, ledger, Underway,
        Working, Governing
  <1>2. \/ Return(p)
        \/ \E l \in {"judging", "calling", "executing"} : Goto(p, l, local[p])
        \/ \E status : Returned(p, status)
    BY DEF Govern, Plan, Judge, CallExecutor, RecordResult, ExecuteApproved
  <1>3. ASSUME NEW status, Returned(p, status)
        PROVE  LoneInv'
    <2> DEFINE job == [local[p] EXCEPT !.succeeded = (status = "succeeded")]
    <2>1. job.done = local[p].done /\ job.step = local[p].step
      BY DEF Lone, TypeOK, Job
    <2>2. \E l \in {"waiting", "finishing"} : Goto(p, l, job)
      BY <1>3 DEF Returned
    <2> HIDE DEF job
    <2> QED
      BY <1>1, <2>1, <2>2, KeepLone
  <1> QED
    BY <1>1, <1>2, <1>3, ReturnLone, KeepLone

LEMMA NextLone ==
    ASSUME Lone, Alone', [Next]_vars
    PROVE  LoneInv'
  <1>1. ASSUME NEW p \in Procs, Die(p)
        PROVE  LoneInv'
    BY <1>1, ReturnLone DEF Die, ledger
  <1>2. CASE UNCHANGED vars \/ \E k \in Keys : DecideApproval(k)
    <2>1. UNCHANGED <<run, dependsOn, step, pc, local>>
      BY <1>2 DEF vars, ledger, DecideApproval
    <2>2. \A q \in Procs : PassDone(q)' <=> PassDone(q)
      BY <2>1 DEF PassDone, AllDone
    <2> QED
      BY <2>1, <2>2 DEF Lone, LoneInv, AllDone
  <1> QED
    BY <1>1, <1>2, EnterLone, DriveLone, GovernLone DEF Next

LEMMA LoneInvariant == Spec /\ []Alone => []LoneInv
  <1>1. Init => LoneInv
    BY DEF Init, LoneInv
  <1>2. (TypeOK /\ PartsOK /\ Bound) /\ LoneInv /\ Alone /\ Alone' /\ [Next]_vars => LoneInv'
    BY NextLone DEF Lone
  <1> QED
    BY <1>1, <1>2, InvariantOfParts, PTL DEF Spec

\* When the passes over a run do not overlap (one runtime process at a time
\* drives it, whichever died before), a run that CloseRun reports as completed
\* has no unfinished step: none that the order of topological_steps left out,
\* and none that a pass left behind.
THEOREM CompletedRunsAreDone == Spec /\ []Alone => []CompletedRunIsDone
  <1>1. LoneInv => CompletedRunIsDone
    BY DEF LoneInv, AllDone, CompletedRunIsDone
  <1> QED
    BY <1>1, LoneInvariant, PTL
\* The promise takes no step back.
LEMMA DoneGrows ==
    ASSUME [Mission!Next]_(Mission!vars)
    PROVE  Done \subseteq Done'
  BY DEF Mission!Next, Mission!Accept, Mission!Execute, Mission!Complete, Mission!vars, Done

\* Only the pass at a command calls the executor, for the step it works on.
LEMMA CallsOfOthersStay ==
    ASSUME Lone, [Next]_vars, NEW s \in Steps, step[s] = "succeeded",
           NEW k \in Keys, k[1] = s
    PROVE  calls'[k] = calls[k]
  <1>1. CASE calls' = calls
    BY <1>1
  <1>2. ASSUME NEW p \in Procs, CallExecutor(p)
        PROVE  calls'[k] = calls[k]
    <2>1. /\ pc[p] = "calling" /\ pc[p] \in Underway /\ pc[p] # "idle"
          /\ calls' = [calls EXCEPT ![local[p].key] = @ + 1]
      BY <1>2 DEF CallExecutor, Underway, Working, Governing
    <2>2. local[p].key[1] = local[p].step
      BY <2>1 DEF Lone, PartsOK, PassOK, Governing
    <2>3. step[local[p].step] # "succeeded"
      BY <2>1 DEF Lone, LoneInv, PassDone
    <2>4. k # local[p].key
      BY <2>2, <2>3
    <2> QED
      BY <2>1, <2>4 DEF Lone, TypeOK
  <1> QED
    BY <1>1, <1>2 DEF Next, Start, Resume, Enter, InitializeSteps, EndRecovery, BeginRun, Interrupt,
       Drive, Visit, CheckDependencies, Block, Prepare, BeginAttempt, AwaitApproval, Finish,
       ReadApproval, ReadSteps, CloseRun, Govern, Plan, Judge, RecordResult, ExecuteApproved, Die,
       DecideApproval, vars, journal

\* "Succeeded steps are terminal and never execute again during resume"
\* (_drive skips them, and MISSION_STEP_TRANSITIONS has no way out of
\* succeeded): so it is when the passes do not overlap.
THEOREM SucceededStepsAreTerminal == Spec /\ []Alone => SucceededIsTerminal
  <1>1. (TypeOK /\ PartsOK /\ Bound) /\ LoneInv /\ Alone /\ [Next]_vars =>
           [\A s \in Steps :
              step[s] = "succeeded" => /\ step'[s] = "succeeded"
                                       /\ \A k \in Keys : k[1] = s => calls'[k] = calls[k]]_vars
    <2> SUFFICES ASSUME Lone, [Next]_vars, NEW s \in Steps, step[s] = "succeeded"
                 PROVE  /\ step'[s] = "succeeded"
                        /\ \A k \in Keys : k[1] = s => calls'[k] = calls[k]
      BY DEF Lone
    <2>1. Done \subseteq Done'
      BY StepKeepsPromise, DoneGrows DEF Lone
    <2>2. step'[s] = "succeeded"
      BY <2>1 DEF Done
    <2> QED
      BY <2>2, CallsOfOthersStay
  <1> QED
    BY <1>1, LoneInvariant, InvariantOfParts, PTL DEF Spec, SucceededIsTerminal

=============================================================================
