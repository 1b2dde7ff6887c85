--------------------------- MODULE MCAgentRollout --------------------------
(***************************************************************************)
(* The instance of AgentRollout that TLC checks: two conversations a       *)
(* worker at most, and a turn more of them than the response has room for. *)
(***************************************************************************)
EXTENDS AgentRollout

Config(agent, interactive, workers, prompts, n, tests) ==
  [agent |-> agent, interactive |-> interactive, workers |-> workers,
   prompts |-> prompts, n |-> n, tests |-> tests]

SmallConfigs ==
  {Config("single_turn_agent", FALSE, 2, 2, 2, 3),
   Config("tool_agent", FALSE, 1, 2, 1, 2), Config("tool_agent", FALSE, 2, 1, 2, 1),
   Config("tool_agent", TRUE, 1, 1, 2, 1),
   Config("tool_agent", FALSE, 2, 1, 1, 1)}
SmallPlan == <<"validate", "train", "train">>
============================================================================
