-------------------------- MODULE MCSuspenderClear --------------------------
(* Constant values for checking CanPipelineSuspender with clear(). *)
EXTENDS CanPipelineSuspender

CONSTANTS c1
=============================================================================
