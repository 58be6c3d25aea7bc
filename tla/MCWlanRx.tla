------------------------------ MODULE MCWlanRx ------------------------------
(* Instances of WlanRx for TLC. *)
EXTENDS WlanRx, TLC

CONSTANTS s1, s2

RxSymmetry == Permutations(Station)
=============================================================================
