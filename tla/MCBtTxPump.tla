----------------------------- MODULE MCBtTxPump -----------------------------
(* Instances of BtTxPump for TLC. *)
EXTENDS BtTxPump, TLC

CONSTANTS e1, e2, c1, c2, master, slave

OneList == << master >>
TwoLists == << master, slave >>
AllMaster == [c \in Conn |-> master]
OneEach == [c \in Conn |-> IF c = c1 THEN master ELSE slave]

\* Neither elements nor the connections of one list carry a meaning of their own.
PumpSymmetry == Permutations(Element) \cup Permutations(Conn)
=============================================================================
