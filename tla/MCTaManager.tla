---------------------------- MODULE MCTaManager ----------------------------
(***************************************************************************)
(* TaManager on small instances: one pseudo TA, one stateless, one         *)
(* stateful and one user TA without an open entry point, and a UUID no TA  *)
(* has.                                                                    *)
(***************************************************************************)
EXTENDS TaManager, TLC

CONSTANTS hello, aes, hotp, bare, nobody

MCUuid == {hello, aes, hotp, bare, nobody}
MCPseudoTA == {hello}
MCUserTA == {aes, hotp, bare}
MCStatefulTA == {aes}
MCNoOpenTA == {bare}

\* Blocks are interchangeable: only compared for equality.
BlockSymmetry == Permutations(Block)
=============================================================================
