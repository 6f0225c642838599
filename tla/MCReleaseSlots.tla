--------------------------- MODULE MCReleaseSlots ---------------------------
(* Small instances of ReleaseSlots: three releases that an update and a       *)
(* rollback can move between freely, or of which the newest changes the state *)
(* schema and must never be started.                                          *)
EXTENDS ReleaseSlots, TLC

MCTags == 1..3
LastDiffers == [t \in Tags |-> IF t = 3 THEN 2 ELSE 1]
=============================================================================
