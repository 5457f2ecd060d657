---------------------------- MODULE MCTailStitch ----------------------------
(* Small instances of TailStitch. *)
EXTENDS TailStitch, TLC

CONSTANTS p1, p2, f1, f2

Relation(many, through, nested, nullable) ==
    [many |-> many, through |-> through, nested |-> nested, nullable |-> nullable]

DirectShapes == {Relation(m, FALSE, n, FALSE) : m, n \in BOOLEAN}

(* Through relations whose branches come out right.                         *)
ThroughManyLeaf == Relation(TRUE, TRUE, FALSE, TRUE)
ThroughOneLeaf == Relation(FALSE, TRUE, FALSE, FALSE)
ThroughOneTree == Relation(FALSE, TRUE, TRUE, TRUE)
GoodShapes == DirectShapes \cup {ThroughManyLeaf, ThroughOneLeaf, ThroughOneTree}

(* A has_many through relation to a preset that has branches of its own.    *)
ThroughManyTree == {Relation(TRUE, TRUE, TRUE, FALSE)}

KeySymmetry == Permutations({p1, p2}) \cup Permutations({f1, f2})
=============================================================================
