----------------------------- MODULE TailStitch -----------------------------
(***************************************************************************)
(* How the rows of a has_one / has_many branch reach the items of the      *)
(* request (internal/resolver/resolver.go, MakeThroughRequest.go and the   *)
(* unwrapping in finalizeItems.go): the ids of all items are collected,    *)
(* one child request fetches the rows of all of them at once, the rows are *)
(* grouped by foreign key and handed to the items, and the branches of a   *)
(* relation "through" another model are unwrapped from the rows of that    *)
(* intermediate model.                                                     *)
(*                                                                         *)
(* Who unwraps depends on the preset of the final model: the child request *)
(* itself if that preset has has_* branches of its own (its Resolver then  *)
(* comes as far as unwrapThrough), the parent's finalizeItems in any case. *)
(***************************************************************************)
EXTENDS Naturals, Sequences, SequencesExt, Selections

CONSTANTS
    Parents,        \* the parents' keys
    Finals,         \* the rows of the branch's final model
    None,           \* SQL NULL, JSON null
    Shapes,         \* the relations, see Shape
    MaxLimit,       \* maxLimit of types.go, for all parents together
    MaxLinks,       \* BOUND: rows of the child query
    MaxItems        \* BOUND: items of the request

(* A relation: has_many or has_one; through another model or not; whether  *)
(* the final model's preset has branches of its own; whether a row of the  *)
(* intermediate model may lack its final row.                              *)
Shape == [many : BOOLEAN, through : BOOLEAN, nested : BOOLEAN, nullable : BOOLEAN]

ASSUME ShapesAssumption ==
    /\ Shapes \subseteq Shape
    /\ \A s \in Shapes : s.nullable => s.through

ASSUME NoneAssumption == None \notin Parents \cup Finals

ASSUME BoundsAssumption == MaxLimit \in Nat /\ MaxLinks \in Nat /\ MaxItems \in Nat

VARIABLES
    shape,          \* the relation of the branch
    links,          \* the rows it has in the database, in the order asked for
    items,          \* for each item, the key in the branch's target context
    phase,
    ids,            \* the collected keys
    rows,           \* what the child request returned
    branches        \* what each item has got so far

inputs == <<shape, links, items>>
vars == <<inputs, phase, ids, rows, branches>>
-----------------------------------------------------------------------------
Link == [parent : Parents, final : Finals \cup {None}]

Init ==
    /\ shape \in Shapes
    /\ links \in BoundedSeq(Link, MaxLinks)
    /\ shape.nullable \/ \A i \in DOMAIN links : links[i].final # None
    /\ items \in BoundedSeq(Parents \cup {None}, MaxItems)
    /\ items # <<>>
    /\ phase = "collect"
    /\ ids = {}
    /\ rows = <<>>
    /\ branches = <<>>

Row(parent, final, wrapped) == [fk |-> parent, final |-> final, wrapped |-> wrapped]

AnyRow == [fk : Parents, final : Finals \cup {None}, wrapped : BOOLEAN]

(* A row of the final model lies under the unwrap key of its intermediate  *)
(* row; an empty one was collapsed to null.                                *)
HasPayload == {row \in AnyRow : row.wrapped /\ row.final # None}
Unwrapped(row) == Row(row.fk, row.final, FALSE)
UnwrapAll(seq) ==
    LET kept == Keep(seq, HasPayload)
    IN  [i \in DOMAIN kept |-> Unwrapped(kept[i])]

(* The rows of the intermediate model become rows of the final one. *)
unwrapThrough(seq) == UnwrapAll(seq)

(* The child query: the rows of all collected keys, up to a limit. *)
Requested == Keep(links, {l \in Link : l.parent \in ids})
PageOf(limit) ==
    SubSeq(Requested, 1, IF Len(Requested) < limit THEN Len(Requested) ELSE limit)

(* Mutant: the limit 1 that the comment at resolver.go:213 speaks of. *)
PageOneForHasOne == PageOf(IF shape.many THEN MaxLimit ELSE 1)

Page == PageOf(MaxLimit)
Fetched == [i \in DOMAIN Page |-> Row(Page[i].parent, Page[i].final, shape.through)]

(* Keys are collected once each; items without the context have none. *)
CollectIDs ==
    /\ phase = "collect"
    /\ ids' = ToSet(items) \ {None}
    /\ phase' = IF ids' = {} THEN "stitch" ELSE "fetch"
    /\ UNCHANGED <<inputs, rows, branches>>

(* The child request; an empty answer returns before anything is unwrapped, *)
(* and so does one to a preset without branches.                            *)
Fetch ==
    /\ phase = "fetch"
    /\ rows' = IF shape.through /\ shape.nested THEN unwrapThrough(Fetched) ELSE Fetched
    /\ phase' = "stitch"
    /\ UNCHANGED <<inputs, ids, branches>>

(* A branch in an item: a has_many's rows, a has_one's row, if any.        *)
Branch(isSet, seq) == [isSet |-> isSet, rows |-> seq]
LastOne(seq) == IF shape.many \/ seq = <<>> THEN seq ELSE <<Last(seq)>>     \* mutant
AtMostOne(seq) == IF shape.many \/ seq = <<>> THEN seq ELSE <<Head(seq)>>

Group(key) == Keep(rows, {row \in AnyRow : row.fk = key})

(* The next item gets its branch; one without the context gets none. *)
Stitch ==
    LET key == items[Len(branches) + 1]
    IN  /\ phase = "stitch"
        /\ Len(branches) < Len(items)
        /\ branches' = Append(branches, Branch(key # None, AtMostOne(Group(key))))
        /\ UNCHANGED <<inputs, phase, ids, rows>>

(* applyAllFormatters: a has_many branch keeps the elements with a map     *)
(* under the unwrap key; a has_one branch without one stays as it is.      *)
UnwrapBranch(branch) ==
    [branch EXCEPT !.rows = IF ~shape.many /\ UnwrapAll(@) = <<>> THEN @ ELSE UnwrapAll(@)]

Finalize ==
    /\ phase = "stitch"
    /\ Len(branches) = Len(items)
    /\ branches' = [i \in DOMAIN branches |->
                      IF shape.through THEN UnwrapBranch(branches[i]) ELSE branches[i]]
    /\ phase' = "done"
    /\ UNCHANGED <<inputs, ids, rows>>

Next == CollectIDs \/ Fetch \/ Stitch \/ Finalize

Spec == Init /\ [][Next]_vars
-----------------------------------------------------------------------------
(* The reference: the final rows joined to one key, in order. *)
Related(key) == Keep(links, {l \in Link : l.parent = key /\ l.final # None})
Joined(key) == [i \in DOMAIN Related(key) |-> Row(key, Related(key)[i].final, FALSE)]

Expected(key) ==
    IF shape.many \/ Joined(key) = <<>> THEN Joined(key) ELSE <<Head(Joined(key))>>

(* As long as the rows of all parents together stay below maxLimit, every   *)
(* item gets exactly the final rows joined to its own key, in order; the    *)
(* first or null for has_one; also when several items share a key, and      *)
(* when others lack the context ("has_one attaches the first grouped row    *)
(* or nil, has_many the full grouped slice", "results are unwrapped back    *)
(* into the final branch").                                                 *)
BranchIsJoin ==
    phase = "done" /\ Len(Requested) <= MaxLimit =>
        \A i \in DOMAIN items :
            branches[i] = Branch(items[i] # None, Expected(items[i]))

(* Above maxLimit rows may be missing, whose parents share the limit, but   *)
(* what an item gets is still the beginning of its join: never a row of     *)
(* another parent, never a row out of order, never a later row in place of  *)
(* a missing one.                                                           *)
BranchIsBeginningOfJoin ==
    phase = "done" =>
        \A i \in DOMAIN items :
            IsPrefix(branches[i].rows, Expected(items[i]))
=============================================================================
