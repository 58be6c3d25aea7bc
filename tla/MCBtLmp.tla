------------------------------ MODULE MCBtLmp ------------------------------
(* Instances of BtLmp for TLC. *)
EXTENDS BtLmp

CONSTANTS r1, r2, r3, r4, r5, r6, r7, r8, r9, r10, r11, r12, r13, r14, r15, r16

Setting(auth, enc, fixed, bond) ==
    [auth |-> auth, enc |-> enc, fixed |-> fixed, bond |-> bond]

\* What a host may ask for: encryption only of a link that is authenticated.
Asked == { << FALSE, FALSE >>, << TRUE, FALSE >>, << TRUE, TRUE >> }
Bond == { << >>, << "old" >> }

\* Every way the two may be set up: the slave, a headset say, may have a fixed PIN.
Pairs == { [s \in Side |-> IF s = "M" THEN m ELSE h] :
             m \in { Setting(a[1], a[2], FALSE, b) : a \in Asked, b \in Bond },
             h \in { Setting(a[1], a[2], f, b) : a \in Asked, f \in BOOLEAN, b \in Bond } }
=============================================================================
