----------------------------- MODULE PolyStitch -----------------------------
(***************************************************************************)
(* Polymorphic belongs_to branches (internal/resolver/resolver.go:330-430):*)
(* the references found in the items are grouped by type, one child        *)
(* request per type fetches the rows, and each item gets the row of its    *)
(* reference.  The types are visited in the random order of a Go map.      *)
(*                                                                         *)
(* A branch may sit in the item itself or in a belongs_to container below  *)
(* it; the reference is read from the item in both cases.                  *)
(*                                                                         *)
(* Names that TailStitch has too begin with poly, so that one module of    *)
(* proofs can extend both.                                                 *)
(***************************************************************************)
EXTENDS Naturals, Sequences, SequencesExt, FiniteSets

CONSTANTS
    Types,          \* values of the discriminator column
    Ids,            \* values of the foreign key; the same ids in every table
    NoValue,        \* SQL NULL, a column the row does not have, JSON null
    Resolvable,     \* the types with a model and with the branch's preset
    Levels,         \* where the branch may be: "root", "container"
    MaxRefs         \* BOUND: items of the request

ASSUME TypesAssumption ==
    /\ Resolvable \subseteq Types
    /\ NoValue \notin Types \cup Ids
    /\ Levels \subseteq {"root", "container"}

Ref == [type : Types \cup {NoValue}, id : Ids \cup {NoValue}]
NoRef == [type |-> NoValue, id |-> NoValue]
IsSet(ref) == ref.type # NoValue /\ ref.id # NoValue

VARIABLES
    level,          \* where the branch is
    refs,           \* for each item, the references at its levels
    stored,         \* the rows in the tables, as references
    keyed,          \* the types whose preset selects the key under its own name
    polyPhase,      \* group, fetch, stitch, done
    toFetch,        \* the types not fetched yet
    fetched,        \* the rows the child requests have returned
    polyBranches    \* what each item has got so far

polyInputs == <<level, refs, stored, keyed>>
polyVars == <<polyInputs, polyPhase, toFetch, fetched, polyBranches>>
-----------------------------------------------------------------------------
Item == [root : Ref, container : Ref]

PolyInit ==
    /\ level \in Levels
    /\ refs \in BoundedSeq(Item, MaxRefs)
    /\ level = "root" => \A i \in DOMAIN refs : refs[i].container = NoRef
    /\ refs # <<>>
    /\ stored \in SUBSET [type : Types, id : Ids]
    /\ keyed \in SUBSET Resolvable
    /\ polyPhase = "group"
    /\ toFetch = {}
    /\ fetched = {}
    /\ polyBranches = <<>>

(* The reference the resolver reads, wherever the branch is. *)
Read(item) == item.root

Wanted == {Read(refs[i]) : i \in DOMAIN refs}

(* References without type or id are left out, the others counted once. *)
GroupByType ==
    /\ polyPhase = "group"
    /\ toFetch' = {ref.type : ref \in {w \in Wanted : IsSet(w)}}
    /\ polyPhase' = "fetch"
    /\ UNCHANGED <<polyInputs, fetched, polyBranches>>

(* The rows one child request returns, limited to the number of ids, under *)
(* the key read from each.  Nothing adds the key to the preset: from a     *)
(* preset without it every row has the key nil.                            *)
ByKey(row) == IF row.type \in keyed THEN row ELSE [row EXCEPT !.id = NoValue]
polyRows(t) ==
    IF t \in Resolvable
    THEN {ByKey(row) : row \in {w \in stored : w.type = t /\ w \in Wanted}}
    ELSE {}

(* Mutant: the groups of the type before are lost. *)
FetchTypeAnew(t) ==
    /\ polyPhase = "fetch"
    /\ t \in toFetch
    /\ toFetch' = toFetch \ {t}
    /\ fetched' = polyRows(t)
    /\ UNCHANGED <<polyInputs, polyPhase, polyBranches>>

FetchType(t) ==
    /\ polyPhase = "fetch"
    /\ t \in toFetch
    /\ toFetch' = toFetch \ {t}
    /\ fetched' = fetched \cup polyRows(t)
    /\ UNCHANGED <<polyInputs, polyPhase, polyBranches>>

StartStitching ==
    /\ polyPhase = "fetch"
    /\ toFetch = {}
    /\ polyPhase' = "stitch"
    /\ UNCHANGED <<polyInputs, toFetch, fetched, polyBranches>>

Found(row) == [isSet |-> TRUE, row |-> row]
Null == Found(NoRef)
Absent == [isSet |-> FALSE, row |-> NoRef]

(* The next item gets its row, null if there is none, and nothing at all   *)
(* without a reference.                                                    *)
StitchPoly ==
    LET ref == Read(refs[Len(polyBranches) + 1])
        branch == IF ~IsSet(ref) THEN Absent
                  ELSE IF ref \in fetched THEN Found(ref) ELSE Null
    IN  /\ polyPhase = "stitch"
        /\ Len(polyBranches) < Len(refs)
        /\ polyBranches' = Append(polyBranches, branch)
        /\ polyPhase' = IF Len(polyBranches') = Len(refs) THEN "done" ELSE "stitch"
        /\ UNCHANGED <<polyInputs, toFetch, fetched>>

PolyNext == GroupByType \/ (\E t \in Types : FetchType(t)) \/ StartStitching \/ StitchPoly

PolySpec == PolyInit /\ [][PolyNext]_polyVars
-----------------------------------------------------------------------------
(* Every item ends with the row its own reference names, whatever order the *)
(* types were fetched in and whatever ids the tables share; with null if    *)
(* that row does not exist, its type cannot be resolved, or the preset of   *)
(* its type does not select the key; and without the branch if it has no    *)
(* reference.  (resolver.go collects these branches     *)
(* "recursively through ordinary belongs_to", so also below the root.)      *)
BranchIsReferenced ==
    polyPhase = "done" =>
        \A i \in DOMAIN refs :
            LET ref == refs[i][level]
            IN  polyBranches[i] =
                    IF ~IsSet(ref) THEN Absent
                    ELSE IF ref \in stored /\ ref.type \in Resolvable \cap keyed THEN Found(ref)
                    ELSE Null
=============================================================================
