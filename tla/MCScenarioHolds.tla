-------------------------- MODULE MCScenarioHolds --------------------------
(***************************************************************************)
(* ScenarioHolds for TLC, with the commands of MCScenario.                 *)
(***************************************************************************)
EXTENDS MCScenario, ScenarioHolds
=============================================================================
