----------------------------- MODULE MCBtRxPath -----------------------------
(***************************************************************************)
(* The receive path with a mouse that calls twice.                         *)
(***************************************************************************)
EXTENDS BtRxPath, TLC

CONSTANT h

Data == (h :> 3)
=============================================================================
