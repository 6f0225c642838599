---------------------------- MODULE MCControlTick ----------------------------
(* Instances of ControlTick: one driver with a battery setpoint and a charger *)
(* current whose outcome its actor files later.                               *)
EXTENDS ControlTick
=============================================================================
