---------------------------- MODULE MCTaObjects -----------------------------
(***************************************************************************)
(* The objects of a TA with three blocks for objects and two addresses for *)
(* operations: enough for a key in front of, between and behind the        *)
(* objects of the TA, for two keys at once, and for a block to come back   *)
(* while it is first, in the middle or last in the list.                   *)
(***************************************************************************)
EXTENDS TaObjects, TLC

CONSTANTS b1, b2, b3, p1, p2

MCBlock == {b1, b2, b3}
MCOp == {p1, p2}

\* Blocks and operations are interchangeable; only for safety.
Symmetry == Permutations(MCBlock) \union Permutations(MCOp)
=============================================================================
