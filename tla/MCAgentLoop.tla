----------------------------- MODULE MCAgentLoop -----------------------------
(* Values for model checking AgentLoop: a call that a hook gates and a call  *)
(* whose tool asks.                                                          *)
EXTENDS AgentLoop

CONSTANTS delete, ask

AllYields == {"model", "before", "tools", "after", "skipped", "raised",
              "interrupted", "append", "result", "reply"}
SafeYields == AllYields \ {"append", "result"}
=============================================================================
