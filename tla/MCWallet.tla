------------------------------- MODULE MCWallet ------------------------------
(***************************************************************************)
(* Wallet for TLC.  Blocks are told apart only by what is in them, and so  *)
(* are keys: both are symmetric.                                           *)
(***************************************************************************)
EXTENDS Wallet, TLC

Symmetric == Permutations(Block) \cup Permutations(Keys)
=============================================================================
