----------------------------- MODULE MCAgentLoop -----------------------------
(* Small instances of AgentLoop for TLC.                                   *)
EXTENDS AgentLoop

MCRun(upstream, keys, db, env) ==
  [compat |-> TRUE, wants |-> "unset", app |-> "MuhiyaChat", streams |-> TRUE,
   ownTools |-> FALSE, upstream |-> upstream, keys |-> keys, ddg |-> [db |-> db, env |-> env]]

MCRequests ==
  {MCRun("openai", {"tavily", "serper"}, "unset", "unset"),
   MCRun("openai", {"serper"}, "off", "on"),
   MCRun("anthropic", {}, "on", "off"), MCRun("none", {"tavily"}, "unset", "off"),
   MCRun("openai", {}, "unset", "off"),
   [MCRun("openai", {"tavily"}, "unset", "on") EXCEPT !.wants = "no"]}

=============================================================================
