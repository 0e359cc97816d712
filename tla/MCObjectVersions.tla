------------------------- MODULE MCObjectVersions -------------------------
(* Instantiates ObjectVersions for TLC: threads are model values. *)
EXTENDS ObjectVersions

CONSTANTS p1, p2

OneThread == {p1}
TwoThreads == {p1, p2}
=============================================================================
