-------------------------- MODULE MCControlWrites --------------------------
(* Small instances of ControlWrites.  Group g replaces its intent with one  *)
(* on other keys, as "manual:<id>" does when the hardware becomes known;    *)
(* group h shares a key with it, as a second loadpoint on the same charger. *)
EXTENDS ControlWrites, TLC

CONSTANTS k1, k2, g, h, a, b

MCKeys == {k1, k2}
MCValues == {a, b}
MCGroups == {g, h}
MCSize == a :> 1 @@ b :> 2

MCSaves == {<<g, k1 :> a>>, <<g, (k1 :> b) @@ (k2 :> a)>>, <<h, k2 :> b>>}

CONSTANTS f, c

MCFlushers == {f}
=============================================================================
