----------------------------- MODULE MCWlanTask -----------------------------
(* Instances of WlanTask for TLC. *)
EXTENDS WlanTask

CONSTANTS b1, b2, b3

Ask(e, h, l) == [event |-> e, high |-> h, long |-> l]

\* A received frame, a scan, and a reset asked for by the chip.
Usual == { Ask("CALL_MANAGEMENT", FALSE, TRUE), Ask("SCAN", TRUE, FALSE),
           Ask("SYS_RESET", TRUE, FALSE) }
=============================================================================
