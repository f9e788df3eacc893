---------------------------- MODULE PolicyEngine ----------------------------
(***************************************************************************)
(* The policy engine of the runtime, solana_agent/authority/policy.py: the *)
(* guards and the rule table that decide on a command.  A command is known *)
(* by what the guards and the rules look at; the snapshots, reasons, risks *)
(* and hashes that a decision carries are left out.                        *)
(***************************************************************************)
EXTENDS Naturals

Profiles == {"read-only", "local-safe", "devnet-safe"}
Effects == {"allow", "deny", "require_approval"}

-----------------------------------------------------------------------------
(* The rule table                                                          *)

Reading ==
    {<<"doctor", "inspect">>, <<"filesystem", "read">>, <<"solana", "verify_program">>,
     <<"solana", "require_balance">>, <<"evidence", "assemble">>}

Building ==
    {<<"filesystem", "create_workspace">>, <<"anchor", "build">>, <<"anchor", "scaffold">>,
     <<"counter_template", "apply">>, <<"anchor", "test">>, <<"package", "install">>,
     <<"solana", "start_validator">>, <<"solana", "simulate">>}

GatedLocally ==
    {<<"filesystem", "overwrite">>, <<"package", "run">>, <<"anchor", "deploy">>}

GatedOnDevnet ==
    {<<"solana", operation>> : operation \in {"airdrop", "sign", "deploy", "invoke"}}

\* No two rules of DEFAULT_RULES match one command in one profile, so that
\* the first match is the only one; what none matches is denied.
RuleEffect(profile, name) ==
    CASE name \in Reading \/ name[1] = "solana_rpc" -> "allow"
      [] profile # "read-only" /\ name \in Building -> "allow"
      [] profile # "read-only" /\ name \in GatedLocally -> "require_approval"
      [] profile = "devnet-safe" /\ name \in GatedOnDevnet -> "require_approval"
      [] OTHER -> "deny"

-----------------------------------------------------------------------------
(* The guards                                                              *)

\* The arguments that name paths, in the order in which they are looked at.
KeyOrder == <<"path", "destination", "workspace", "program_path">>

\* A command and its context, with workspaces for the paths: an argument names
\* one of them, is absent, or escapes the workspace root.  lands, aim: what the
\* arguments workspace and cluster are to the tools of the Anchor adapter, which
\* resolves a relative path against another directory than the guard, and looks
\* at the argument instead of the context.  secret: the arguments were redacted;
\* wallet, contract: a valid public key and runtime contract hash are given.
AskOf(names, targets) ==
    LET Paths == targets \cup {"absent", "outside"}
    IN  [name     : names,
         args     : [path : Paths, destination : Paths, workspace : Paths, program_path : Paths],
         cwd      : targets \cup {"outside"},
         lands    : targets \cup {"absent"},
         secret   : BOOLEAN,
         cluster  : {"none", "localnet", "devnet", "mainnet", "other"},
         aim      : {"localnet", "devnet", "other"},
         wallet   : BOOLEAN,
         lamports : {"none", "negative", "within", "above"},
         contract : BOOLEAN]

\* Mutant of Material: a deployment through Anchor is not material.
MaterialOfSolana == GatedOnDevnet

\* MATERIAL_ADAPTER_OPERATIONS.
Material == GatedOnDevnet \cup {<<"anchor", "deploy">>}

\* The guards that look at no file, in any order.
Unsafe(ask) ==
    \/ ask.secret
    \/ ask.cluster \in {"mainnet", "other"}
    \/ /\ ask.name \in Material
       /\ ask.cluster = "none" \/ ~ask.wallet \/ ask.lamports = "none" \/ ~ask.contract
    \/ ask.lamports \in {"negative", "above"}
    \/ ask.cwd = "outside"

\* The i-th path escapes the root, or is there before a workspace is created:
\* any of the four, although only the destination is made.
Escapes(ask, i) == ask.args[KeyOrder[i]] = "outside"

Occupied(ask, i, present) ==
    ask.name = <<"filesystem", "create_workspace">> /\ ask.args[KeyOrder[i]] \in present

\* An escape is seen unless an earlier path has ended the loop.
Denied(ask, present) ==
    \/ Unsafe(ask)
    \/ \E i \in 1..4 : Escapes(ask, i) /\ \A j \in 1..(i - 1) : ~Occupied(ask, j, present)

\* evaluate, when the paths in present exist.  The guards come before the rules
\* of the profile.
Decision(profile, ask, present) ==
    CASE Denied(ask, present) -> "deny"
      [] ~Denied(ask, present) /\ \E i \in 1..4 : Occupied(ask, i, present) -> "require_approval"
      [] OTHER -> RuleEffect(profile, ask.name)
=============================================================================
