-------------------------- MODULE MCHistoryWriter --------------------------
(* Small instances of HistoryWriter: ticks of two sizes, one of them stamped  *)
(* an archive interval early by a clock that stepped back.                    *)
EXTENDS HistoryWriter, TLC

MCSize == [t \in 1..MaxTick |-> IF t = 2 THEN 2 ELSE 1]
MCTime == [t \in 1..MaxTick |-> IF t = 2 THEN 1 ELSE 2]
=============================================================================
