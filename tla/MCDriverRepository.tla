------------------------ MODULE MCDriverRepository ------------------------
(* Instances of DriverRepository for TLC. *)
EXTENDS DriverRepository, TLC

(* Releases that ship no copy, one of middling age and a newer one, and    *)
(* one whose own driver replaces this one.                                 *)
MCReleases == {[own |-> v, replaces |-> FALSE] : v \in {0, 2, 3}}
                \cup {[own |-> 0, replaces |-> TRUE]}
=============================================================================
