--------------------------- MODULE MCCanPipeline ---------------------------
(* Constant values for checking CanPipeline with TLC. *)
EXTENDS CanPipeline

CONSTANTS c1, c2
=============================================================================
