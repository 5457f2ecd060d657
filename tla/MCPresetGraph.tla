---------------------------- MODULE MCPresetGraph ----------------------------
(* Small instances of PresetGraph: departments (D) with a parent, staff (S) *)
(* of a department, and documents with a polymorphic owner among them.      *)
EXTENDS PresetGraph, TLC

CONSTANTS D, S

Relation(kind, to, reentrant, max) ==
    [kind |-> kind, to |-> to, reentrant |-> reentrant, max |-> max]
Field(source, nested, max) ==
    [source |-> source, type |-> "preset", nested |-> nested, max |-> max]

(* parent, staff and dept are the relations that make cycles; owner is      *)
(* polymorphic.                                                             *)
MCNames == {"dept", "owner", "parent", "staff"}
MCRank == "dept" :> 0 @@ "owner" :> 1 @@ "parent" :> 2 @@ "staff" :> 3

Registry(parent, staff, dept, up, list, back, token) ==
    [relations |-> D :> ("parent" :> parent @@ "staff" :> staff)
                @@ S :> ("dept" :> dept @@ "owner" :> Relation("polymorphic", D, FALSE, 0)),
     fields |-> <<D, "card">> :> (up \cup list)
             @@ <<D, "item">> :> {}
             @@ <<S, "card">> :> (back \cup {Field("owner", "item", 0)})
             @@ <<S, "item">> :> {},
     tokens |-> <<D, "card">> :> token @@ <<D, "item">> :> {}
             @@ <<S, "card">> :> {} @@ <<S, "item">> :> {}]

Parents == {Relation("has_one", D, r, n) : r \in BOOLEAN, n \in {0, 1, 2}}
             \cup {Relation("belongs_to", D, TRUE, 2)}
Staffs == {Relation("has_many", S, r, 2) : r \in BOOLEAN}
Depts == {Relation("belongs_to", D, r, n) : r \in BOOLEAN, n \in {1, 2}}
Ups == {{}} \cup {{Field("parent", q, n)} : q \in {"card", "item"}, n \in {0, 3}}
Lists == {{}} \cup {{Field("staff", q, 0)} : q \in {"card", "item"}}
Backs == {{}, {Field("dept", "card", 0)}, {Field("dept", "item", 0)}}

(* Does a belongs_to field come back to its own model so that max_depth     *)
(* bites, or without end?                                                   *)
Harmless(parent, up) ==
    parent.kind = "belongs_to" =>
        \A f \in up : f.nested = "item"

Faulty == {
    Registry(Relation("has_one", "Gone", TRUE, 2), Relation("has_many", S, TRUE, 2),
             Relation("belongs_to", D, TRUE, 2), {}, {}, {}, {}),
    Registry(Relation("has_one", D, TRUE, 2), Relation("has_many", S, TRUE, 2),
             Relation("belongs_to", D, TRUE, 2), {Field("parent", "gone", 0)}, {}, {}, {}),
    Registry(Relation("has_one", D, TRUE, 2), Relation("has_many", S, TRUE, 2),
             Relation("belongs_to", D, TRUE, 2),
             {[Field("parent", "item", 0) EXCEPT !.type = "string"]}, {}, {}, {})}

Sound == {Registry(x[1], x[2], x[3], x[4], x[5], x[6], {}) :
    x \in {y \in Parents \X Staffs \X Depts \X Ups \X Lists \X Backs : Harmless(y[1], y[4])}}

(* A formatter that names the parent the preset selects.                    *)
Templated == {Registry(Relation(kind, D, TRUE, 2), Relation("has_many", S, TRUE, 2),
                       Relation("belongs_to", D, TRUE, 2), {Field("parent", "item", 0)}, {},
                       {Field("dept", "card", 0)}, {<<"parent">>}) :
                 kind \in {"belongs_to", "has_one"}}

SoundRegistries == Sound \cup Faulty \cup Templated
MCExtraPaths == {<<"parent", "parent", "parent">>, <<"staff", "dept", "parent">>, <<"staff", "owner", "staff">>}

(* A preset that selects itself, through has_one as in test_db/Contract.yml *)
(* or through belongs_to, as the parent in test_db/Department.yml could be. *)
SelfSelecting == {
    [Registry(Relation(kind, D, TRUE, 2), Relation("has_many", S, FALSE, 0),
              Relation("belongs_to", D, FALSE, 0), {Field("parent", "card", 0)}, {}, {}, {})
        EXCEPT !.fields[<<S, "card">>] = {}] : kind \in {"has_one", "belongs_to"}}
=============================================================================
