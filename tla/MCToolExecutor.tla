--------------------------- MODULE MCToolExecutor ---------------------------
(* TLC instances of ToolExecutor. *)
EXTENDS ToolExecutor

CONSTANTS c1, c2, t1, t2, i1, i2
=============================================================================
