--------------------------- MODULE MCDriverActor ---------------------------
(* Instances of DriverActor for TLC. *)
EXTENDS DriverActor, TLC

CONSTANTS c1, c2, d1, d2, y1

MCSymmetry == Permutations(Calls) \cup Permutations(Defaults)
=============================================================================
