---------------------------- MODULE MCManualHold ----------------------------
(* Small instances of ManualHold; the bounds are in the configurations.        *)
EXTENDS ManualHold, TLC
=============================================================================
