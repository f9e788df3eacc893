--------------------------- MODULE MCChaosScenario ---------------------------
(* The instance of ChaosScenario for TLC: every scenario.                  *)
EXTENDS ChaosScenario

MCPlan == CHOOSE p \in E!Plans : TRUE

MCInputs == {Asked(c) : c \in Commands}

AllScenarios == ScenarioNames \cup {"any"}
=============================================================================
