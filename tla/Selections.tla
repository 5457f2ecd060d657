----------------------------- MODULE Selections -----------------------------
(* Selecting from sequences by a set. SelectSeq takes its test as an         *)
(* operator, of which the provers know nothing.                              *)
EXTENDS Integers, Sequences

(* The elements of seq that are in S, in their order. *)
Keep(seq, S) ==
    LET kept[i \in 0..Len(seq)] ==
          IF i = 0 THEN <<>>
          ELSE IF seq[i] \in S THEN Append(kept[i - 1], seq[i]) ELSE kept[i - 1]
    IN  kept[Len(seq)]

(* The function f applied to each element of seq. *)
Mapped(seq, f) == [i \in DOMAIN seq |-> f[seq[i]]]
=============================================================================
