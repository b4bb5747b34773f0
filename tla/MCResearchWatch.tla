--------------------------- MODULE MCResearchWatch ---------------------------
(* Two host threads that may run Lua, and one thread of the game.              *)
EXTENDS ResearchWatch

Threads == {"v1", "tick", "render"}
PipeAndTick == {"v1", "tick"}
=============================================================================
