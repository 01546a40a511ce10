------------------------------- MODULE MCHeap4 -------------------------------
(***************************************************************************)
(* Heap4 for TLC: a heap that starts off the alignment and ends off it,    *)
(* and lengths that leave a remainder just large and just too small to be  *)
(* split off.                                                              *)
(***************************************************************************)
EXTENDS Heap4
=============================================================================
