---------------------------- MODULE MCAgentTurn -----------------------------
EXTENDS AgentTurn, TLC

MCHandlers ==
  "knowledge_base_lookup" :> {"knowledge:read"} @@ "handoff_to_human" :> {"handoffs:write"}

Server(id, command, permissions) ==
  [id |-> id, transport |-> "stdio", command |-> command,
   static |-> {"knowledge_base_lookup"}, permissions |-> permissions]

(* The servers offer a tool with the name of a handler. *)
MCConfigured == <<Server("docs", FALSE, {})>>

MCHot == {Server("wiki", TRUE, {"knowledge:read"})}

MCLiveTools == [id \in {"docs", "wiki"} |-> {"knowledge_base_lookup"}]

MCSettings ==
  [min_confidence |-> 55, escalate_on_tool_failure |-> TRUE, max_tool_failures |-> 2,
   e2e_target |-> 2000, turn_cost |-> 1, turn_budget |-> 10,
   orchestrator_mode |-> "multi_agent"]

(* A session whose preset only hands over on explicit requests. *)
MCConfigs == {[require_explicit_request |-> TRUE, min_confidence |-> 80]}

(* Two calls of tools in the first turn, one in the second. *)
FewCalls == turn * (cur.steps.ok + cur.steps.bad) <= MaxCalls
=============================================================================
