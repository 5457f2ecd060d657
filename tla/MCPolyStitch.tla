---------------------------- MODULE MCPolyStitch ----------------------------
(* Small instances of PolyStitch. *)
EXTENDS PolyStitch, TLC

CONSTANTS Order, Person, Robot

AllTypes == {Order, Person, Robot}
KnownTypes == {Order, Person}
IdSymmetry == Permutations(KnownTypes)
=============================================================================
