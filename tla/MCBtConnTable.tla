---------------------------- MODULE MCBtConnTable ----------------------------
(* Instances of BtConnTable for TLC. *)
EXTENDS BtConnTable, TLC

CONSTANTS d1, d2, d3, d4, t1, t2, t3

\* Neither blocks nor threads carry a meaning of their own.
ConnSymmetry == Permutations(Device) \cup Permutations(Thread)
=============================================================================
