-------------------------- MODULE MCOperationCalls ----------------------------
(***************************************************************************)
(* OperationCalls for TLC.                                                 *)
(***************************************************************************)
EXTENDS OperationCalls
=============================================================================
