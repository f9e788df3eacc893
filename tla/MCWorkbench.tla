----------------------------- MODULE MCWorkbench -----------------------------
(* Instances of Workbench for TLC: two commands on one workspace, or two.  *)
EXTENDS Workbench, TLC

CONSTANTS w, v, k1, k2

\* A command that names the workspace w and passes the guards.
Sound(adapter, operation) ==
    [name |-> <<adapter, operation>>,
     args |-> [path |-> w, destination |-> w, workspace |-> w, program_path |-> "absent"],
     cwd |-> w, lands |-> w, secret |-> FALSE, cluster |-> "devnet", aim |-> "devnet",
     wallet |-> TRUE, lamports |-> "within", contract |-> TRUE]

Reads == Sound("filesystem", "read")
Creates == Sound("filesystem", "create_workspace")
Scaffolds == Sound("anchor", "scaffold")
Overwrites == Sound("filesystem", "overwrite")
Applies == Sound("counter_template", "apply")
Tests == Sound("anchor", "test")
Deploys == Sound("anchor", "deploy")

\* The path exists and the destination does not, or escapes.
CreatesBeside(d) == [Creates EXCEPT !.args.destination = d, !.args.workspace = "absent"]

\* anchor init works beside the workspace that was judged.
ScaffoldsBeside == [Scaffolds EXCEPT !.lands = v]

\* A guard refuses each of these, or the adapter does.
Unsound ==
    {[Deploys EXCEPT !.cluster = c] : c \in {"none", "mainnet", "other"}} \cup
    {[Deploys EXCEPT !.lamports = l] : l \in {"none", "negative", "above"}} \cup
    {[Deploys EXCEPT !.wallet = FALSE], [Deploys EXCEPT !.contract = FALSE],
     [Deploys EXCEPT !.args.program_path = "outside"], [Deploys EXCEPT !.cwd = "outside"],
     [Deploys EXCEPT !.aim = "other"], [Deploys EXCEPT !.secret = TRUE],
     [Deploys EXCEPT !.name = <<"solana", "upgrade">>], CreatesBeside("outside")}

MCAsks == {Reads, Creates, Scaffolds, Overwrites, Applies, Tests, Deploys,
           CreatesBeside(v), ScaffoldsBeside} \cup Unsound

\* The two commands, the profile and what is there at first.
Case(present, p, a, b) ==
    /\ directory = [t \in Targets |-> IF t = w THEN present ELSE "absent"]
    /\ profile = p
    /\ ask[k1] = a /\ ask[k2] = b

\* Two commands want the directory; one needs what the other makes; two edit
\* one file; a profile or a guard refuses, or an argument misleads it.
Cases ==
    \/ Case("absent", "devnet-safe", Creates, Scaffolds)
    \/ Case("absent", "local-safe", Scaffolds, Scaffolds)
    \/ Case("absent", "local-safe", Scaffolds, Applies)
    \/ Case("absent", "devnet-safe", Scaffolds, Deploys)
    \/ Case("absent", "local-safe", Creates, Overwrites)
    \/ Case("local", "local-safe", Overwrites, Applies)
    \/ Case("devnet", "local-safe", Tests, Reads)
    \/ Case("local", "read-only", Creates, Scaffolds)
    \/ Case("local", "read-only", CreatesBeside(v), ScaffoldsBeside)
    \/ Case("absent", "local-safe", CreatesBeside(v), ScaffoldsBeside)
    \/ \E u \in Unsound : Case("local", "devnet-safe", u, Reads)

CasesInit == Init /\ Cases
CasesSpec == CasesInit /\ [][Next]_vars

Symmetry == Permutations(Procs)
=============================================================================
