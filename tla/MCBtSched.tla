------------------------------ MODULE MCBtSched ------------------------------
(* Instances of BtSched for TLC. *)
EXTENDS BtSched, TLC

CONSTANTS b1, b2, b3

\* Blocks carry no meaning of their own.
BlockSymmetry == Permutations(Block)
=============================================================================
