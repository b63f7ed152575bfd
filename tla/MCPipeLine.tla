----------------------------- MODULE MCPipeLine -----------------------------
(***************************************************************************)
(* PipeLine for TLC: a node of one worker, one of two that race, and a     *)
(* last one of one worker.                                                 *)
(***************************************************************************)
EXTENDS PipeLine

MCWorkers == <<1, 2, 1>>
=============================================================================
