--------------------------- MODULE MCAgentExecutor ---------------------------
(* Two processes in one project: a write, the same key with other content, *)
(* and another key for the same path whose expected hash is wrong.  An     *)
(* agent declares nothing, or a file that is perhaps another or none.      *)
EXTENDS AgentExecutor

CONSTANTS k1, k2, p1, x, y

MCRequest == {
  [key |-> k1, path |-> p1, content |-> x, expected |-> None],
  [key |-> k1, path |-> p1, content |-> y, expected |-> y],
  [key |-> k2, path |-> p1, content |-> y, expected |-> x]}

MCDeclared == {{}, {[path |-> p1, content |-> y]}}
=============================================================================
