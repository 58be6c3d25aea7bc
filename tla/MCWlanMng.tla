------------------------------ MODULE MCWlanMng ------------------------------
(* Instances of WlanMng for TLC. *)
EXTENDS WlanMng

CONSTANTS p1, p2, s1, s2

BothServe == [p \in {p1, p2} |-> s1]
OneServes == [p \in {p1} |-> s1]
FewAsks == [ask |-> 2, odd |-> 1, busy |-> 1, roam |-> 1, upset |-> 1]
AsksOnly == [ask |-> 3, odd |-> 0, busy |-> 0, roam |-> 0, upset |-> 0]
=============================================================================
