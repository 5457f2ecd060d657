------------------------------- MODULE Filters -------------------------------
(***************************************************************************)
(* The filters of a request, from its JSON to the WHERE and HAVING of the  *)
(* query: shortcuts in the keys are expanded (alias_helpers.go), the       *)
(* relation paths are collected for the joins (BuildAliasMap.go,           *)
(* computable_paths.go), computable fields over a has_many relation are    *)
(* moved to CTEs (cte_helpers.go), and the conditions are built            *)
(* (BuildWhereClause.go).                                                  *)
(*                                                                         *)
(* Every model is a record of its shortcuts, relations and computable      *)
(* fields, whose paths name relations, not shortcuts.  A key is its fields,*)
(* how they are combined, and its operator; strings are sequences of       *)
(* characters.  Not here: SQL text, the type of a column, which decides a  *)
(* cast to text and is known, relations through a third table, and requests*)
(* that BuildAliasMap refuses.                                             *)
(***************************************************************************)
EXTENDS Integers, Sequences, FiniteSets, SequencesExt, FiniteSetsExt, Functions, TLC

CONSTANTS
    Models,     \* name of a model to [aliases, relations, many, computable]
    Root,       \* the model of the request
    Shown,      \* computable fields its preset shows or it is sorted by
    Requests,   \* filters that requests may have
    Depth       \* BOUND: how deep their groups are nested; Go's decoder has one

VARIABLES
    request,    \* the filters as they came
    phase,
    todo,       \* paths in its keys still to expand
    cursor,     \* ExpandAliasPath at work: path, position, model there
    expanded,   \* what the paths in the keys have become
    filters,    \* the filters with expanded keys
    joined,     \* relation paths that are joined in the main query
    ctes,       \* has_many paths with a CTE, to the computable fields in it
    where,
    having

vars == <<request, phase, todo, cursor, expanded, filters, joined, ctes, where, having>>
-----------------------------------------------------------------------------
(* Filters are a group: conditions, and what is under "or" and "and", which *)
(* is one group or a list of groups.                                        *)
Key(fields, comb, op, cs) == [fields |-> fields, comb |-> comb, op |-> op, cs |-> cs]
Cond(key, value) == [key |-> key, value |-> value]
Nothing == [kind |-> "none", groups |-> <<>>]
One(group) == [kind |-> "map", groups |-> <<group>>]
Many(groups) == [kind |-> "list", groups |-> groups]
Group(conds, or, and) == [conds |-> conds, or |-> or, and |-> and]

(* Where the groups of g are: level by level, and whether only "and" leads  *)
(* there from the top.                                                      *)
Place(group, top) == [group |-> group, top |-> top]
Below(p) ==
    {Place(h, p.top) : h \in ToSet(p.group.and.groups)}
        \cup {Place(h, FALSE) : h \in ToSet(p.group.or.groups)}
Places(g) ==
    LET level[n \in 0..Depth] ==
            IF n = 0 THEN {Place(g, TRUE)} ELSE UNION {Below(p) : p \in level[n - 1]}
    IN  level
GroupsAt(g, n) == {p.group : p \in Places(g)[n]}

CondsOf(g) == UNION {UNION {h.conds : h \in GroupsAt(g, n)} : n \in 0..Depth}
FieldsOf(conds) == UNION {ToSet(c.key.fields) : c \in conds}

Path == Seq(STRING)

ASSUME ModelsAssumption ==
    /\ Root \in DOMAIN Models
    /\ \A m \in DOMAIN Models :
          /\ \A seg \in DOMAIN Models[m].aliases : Models[m].aliases[seg] \in Path
          /\ \A seg \in DOMAIN Models[m].relations : Models[m].relations[seg] \in DOMAIN Models
          /\ Models[m].many \subseteq DOMAIN Models[m].relations
          /\ \A name \in DOMAIN Models[m].computable :
                /\ Models[m].computable[name].paths \subseteq Path \ {<<>>}
                /\ Models[m].computable[name].source \subseteq Models[m].computable[name].paths
    /\ Shown \subseteq DOMAIN Models[Root].computable

WellFormed(g) ==
    /\ FieldsOf(CondsOf(g)) \subseteq Path
    /\ \A c \in CondsOf(g) : c.key.comb \in {"and", "or"}
    /\ \A n \in 0..Depth : \A h \in GroupsAt(g, n) : \A sub \in {h.or, h.and} :
          sub.kind = "map" => DOMAIN sub.groups = {1}

ASSUME RequestsAssumption ==
    /\ Depth \in Nat
    /\ \A g \in Requests : WellFormed(g) /\ \A p \in Places(g)[Depth] : Below(p) = {}

Computables(m) == Models[m].computable
Resolves(m, seg) == seg \in DOMAIN Models[m].relations

(* The model at the end of a relation path, if there is one. *)
NoModel == "none"
ModelAt(path) ==
    FoldLeft(LAMBDA m, seg : IF m # NoModel /\ Resolves(m, seg)
                             THEN Models[m].relations[seg] ELSE NoModel,
             Root, path)
-----------------------------------------------------------------------------
(* ExpandAliasPath: one step for each turn of its loop.                     *)

(* Mutant: a shortcut to itself is expanded again. *)
ShortcutEvenToItself(m, seg) == seg \in DOMAIN Models[m].aliases

Shortcut(m, seg) == seg \in DOMAIN Models[m].aliases /\ Models[m].aliases[seg] # <<seg>>

Idle == [key |-> <<>>, path |-> <<>>, pos |-> 1, model |-> Root]

Take ==
    /\ phase = "expand" /\ cursor = Idle
    /\ \E path \in todo :
          /\ cursor' = [Idle EXCEPT !.key = path, !.path = path]
          /\ todo' = todo \ {path}
    /\ UNCHANGED <<request, phase, expanded, filters, joined, ctes, where, having>>

AtEnd == cursor.pos > Len(cursor.path)
Segment == cursor.path[cursor.pos]

Substitute ==
    /\ cursor # Idle /\ ~AtEnd
    /\ Shortcut(cursor.model, Segment)
    /\ cursor' = [cursor EXCEPT !.path = SubSeq(@, 1, cursor.pos - 1)
                                   \o Models[cursor.model].aliases[Segment]
                                   \o SubSeq(@, cursor.pos + 1, Len(@))]
    /\ UNCHANGED <<request, phase, todo, expanded, filters, joined, ctes, where, having>>

Follow ==
    /\ cursor # Idle /\ ~AtEnd
    /\ ~Shortcut(cursor.model, Segment)
    /\ Resolves(cursor.model, Segment)
    /\ cursor' = [cursor EXCEPT !.pos = @ + 1, !.model = Models[@].relations[Segment]]
    /\ UNCHANGED <<request, phase, todo, expanded, filters, joined, ctes, where, having>>

Stop ==
    /\ cursor # Idle
    /\ AtEnd \/ (~Shortcut(cursor.model, Segment) /\ ~Resolves(cursor.model, Segment))
    /\ expanded' = [expanded EXCEPT ![cursor.key] = cursor.path]
    /\ cursor' = Idle
    /\ UNCHANGED <<request, phase, todo, filters, joined, ctes, where, having>>

(* NormalizeFiltersWithAliases.  Of keys that have become equal the one     *)
(* that comes last in the order of the map stays: any.                      *)
Expand(key) ==
    Key([i \in DOMAIN key.fields |-> expanded[key.fields[i]]], key.comb, key.op, key.cs)
Survivors(conds) ==
    LET new == {Cond(Expand(c.key), c.value) : c \in conds}
        keys == {c.key : c \in new}
    IN  {some \in SUBSET new : {c.key : c \in some} = keys /\ Cardinality(some) = Cardinality(keys)}

(* What a group may become, given what the groups a level further down may. *)
RekeyedSub(sub, below) ==
    {[kind |-> sub.kind, groups |-> gs] :
        gs \in {s \in [DOMAIN sub.groups -> UNION {below[h] : h \in ToSet(sub.groups)}] :
                  \A i \in DOMAIN s : s[i] \in below[sub.groups[i]]}}
RekeyedGroup(g, below) ==
    {Group(conds, or, and) :
        conds \in Survivors(g.conds), or \in RekeyedSub(g.or, below), and \in RekeyedSub(g.and, below)}
Rekeyed(g) ==
    LET new[n \in 0..Depth] ==
            [h \in GroupsAt(g, Depth - n) |-> RekeyedGroup(h, IF n = 0 THEN <<>> ELSE new[n - 1])]
    IN  new[Depth][g]

Normalize ==
    /\ phase = "expand" /\ todo = {} /\ cursor = Idle
    /\ filters' \in Rekeyed(request)
    /\ phase' = "join"
    /\ UNCHANGED <<request, todo, cursor, expanded, joined, ctes, where, having>>
-----------------------------------------------------------------------------
(* Mutant: the paths of the outermost conditions only. *)
TopPaths(g) == {Front(f) : f \in {h \in FieldsOf(g.conds) : Len(h) > 1}}

(* All groups are searched, composite keys field by field. *)
PathsFromFilters(g) == {Front(f) : f \in {h \in FieldsOf(CondsOf(g)) : Len(h) > 1}}

(* Computable fields of the request: those shown, and those an outermost    *)
(* key is just the name of.                                                 *)
Used(g) ==
    Shown \cup {f[1] : f \in {c.key.fields[1] : c \in {d \in g.conds :
                         Len(d.key.fields) = 1 /\ Len(d.key.fields[1]) = 1
                         /\ d.key.fields[1][1] \in DOMAIN Computables(Root)}}}
ComputablePaths(g) == UNION {Computables(Root)[name].paths : name \in Used(g)}

(* A path is joined with all the paths that lead to it, as far as it names  *)
(* relations.                                                               *)
Leading(paths) ==
    {p \in UNION {{SubSeq(path, 1, n) : n \in 1..Len(path)} : path \in paths} : ModelAt(p) # NoModel}

isHasManyPath(path) ==
    LET m == ModelAt(Front(path)) IN m # NoModel /\ Last(path) \in Models[m].many

(* buildHasManyCTEs: a computable field whose source has one has_many path  *)
(* is computed over it in a CTE, which joins that path only, and            *)
(* filterJoinSpecs takes the path out of the main query, but no path below  *)
(* it.                                                                      *)
ComputedOver(path, g) ==
    {name \in Used(g) : {p \in Computables(Root)[name].source : isHasManyPath(p)} = {path}}

Join ==
    /\ phase = "join"
    /\ LET paths == Leading(PathsFromFilters(filters) \cup ComputablePaths(filters))
           moved == {p \in paths : ComputedOver(p, filters) # {}}
       IN  /\ joined' = paths \ moved
           /\ ctes' = [p \in moved |-> ComputedOver(p, filters)]
    /\ phase' = "where"
    /\ UNCHANGED <<request, todo, cursor, expanded, filters, where, having>>
-----------------------------------------------------------------------------
(* A computable field of the model a path ends at; aggregates give HAVING,  *)
(* but one that a CTE computes is a column of it.                           *)
IsComputable(field) ==
    LET m == ModelAt(Front(field)) IN m # NoModel /\ Last(field) \in DOMAIN Computables(m)
ComputableAt(field) == Computables(ModelAt(Front(field)))[Last(field)]
Overridden(field) == Len(field) = 1 /\ \E p \in DOMAIN ctes : field[1] \in ctes[p]
isAggregate(field) == IsComputable(field) /\ ComputableAt(field).aggregate /\ ~Overridden(field)

(* buildWhereClause.  An expression is a condition on a field, or And or Or *)
(* of expressions, with the flag whether there is an aggregate in it; None  *)
(* is no expression.                                                        *)
None == [kind |-> "none", parts |-> {}, agg |-> FALSE]
Atom(field, op, cs, value) ==
    [kind |-> "atom", parts |-> {}, agg |-> isAggregate(field),
     field |-> field, op |-> op, cs |-> cs, value |-> value]

(* Mutant: a group with other conditions does not count as an aggregate. *)
AllAggregate(parts) == \A p \in parts : p.agg

HasAggregate(parts) == \E p \in parts : p.agg

Combine(mode, parts) ==
    IF parts \subseteq {None} THEN None
    ELSE [kind |-> mode, parts |-> parts \ {None}, agg |-> HasAggregate(parts \ {None})]

Null == <<"null">>
Num(n) == <<"num", n>>
Str(s) == <<"str", s>>
Bool(b) == <<"bool", b>>
List(s) == <<"list", s>>

Comparisons == {"lt", "lte", "gt", "gte"}
Patterns == {"start", "end", "cnt", "not_cnt"}
(* Known operators, with a value they can take. *)
Applies(op, value) ==
    \/ op \in {"eq", "in", "is_null", "not_null"} \cup Comparisons
    \/ op \in Patterns /\ value[1] = "str"
    \/ op = "null" /\ value[1] = "bool"

(* Mutant: the fields of a composite key are always alternatives. *)
AnyField(key, parts) == Combine("or", parts)

Composite(key, parts) == Combine(key.comb, parts)

buildCond(c) ==
    Composite(c.key,
              {IF Applies(c.key.op, c.value) THEN Atom(f, c.key.op, c.key.cs, c.value) ELSE None :
                  f \in ToSet(c.key.fields)})

(* Below "or" all of a group goes one way.  The expressions of the groups   *)
(* with n levels below them, from those a level further down.               *)
Sub(how, sub, below) ==
    IF sub.kind = "map" THEN below[sub.groups[1], how]
    ELSE Combine(how, {below[h, "and"] : h \in ToSet(sub.groups)})
buildGroupExpr(g) ==
    LET expr[n \in 0..Depth] ==
            [q \in GroupsAt(g, Depth - n) \X {"and", "or"} |->
                Combine(q[2], {buildCond(c) : c \in q[1].conds}
                    \cup (IF n = 0 THEN {}
                          ELSE {Sub("or", q[1].or, expr[n - 1]), Sub("and", q[1].and, expr[n - 1])}))]
    IN  expr

(* buildGroupAnd: conditions joined by "and" are split, alternatives go     *)
(* together.                                                                *)
ConjunctsAt(g, n) ==
    LET groups == {p.group : p \in {q \in Places(g)[n] : q.top}}
    IN  {buildCond(c) : c \in UNION {h.conds : h \in groups}}
        \cup (IF n = Depth THEN {}
              ELSE {Sub("or", h.or, buildGroupExpr(g)[Depth - n - 1]) : h \in groups})
Conjuncts(g) == UNION {ConjunctsAt(g, n) : n \in 0..Depth}

BuildWhere ==
    /\ phase = "where"
    /\ LET parts == Conjuncts(filters)
       IN  /\ where' = Combine("and", {e \in parts : ~e.agg})
           /\ having' = Combine("and", {e \in parts : e.agg})
    /\ phase' = "done"
    /\ UNCHANGED <<request, todo, cursor, expanded, filters, joined, ctes>>

Init ==
    /\ request \in Requests
    /\ phase = "expand"
    /\ todo = FieldsOf(CondsOf(request))
    /\ cursor = Idle
    /\ expanded = [path \in FieldsOf(CondsOf(request)) |-> path]
    /\ filters = Group({}, Nothing, Nothing)
    /\ joined = {} /\ ctes = <<>>
    /\ where = None /\ having = None

Next == Take \/ Substitute \/ Follow \/ Stop \/ Normalize \/ Join \/ BuildWhere

(* One goroutine serves the request and runs until it has the query.        *)
Spec == Init /\ [][Next]_vars /\ WF_vars(Next)
-----------------------------------------------------------------------------
(* All that an expression is made of: two layers for each level of groups,  *)
(* one for composite keys, one for the whole.                               *)
LastLayer == 2 * Depth + 2
Layers(e) ==
    LET layer[n \in 0..LastLayer] ==
            IF n = 0 THEN {e} ELSE UNION {x.parts : x \in layer[n - 1]}
    IN  layer
AtomsOf(e) == {x \in UNION {Layers(e)[n] : n \in 0..LastLayer} : x.kind = "atom"}

(* WHERE has no aggregates; SQL does not allow them.  (buildGroupAnd)       *)
NoAggregateInWhere == phase = "done" => \A a \in AtomsOf(where) : ~isAggregate(a.field)

(* The paths that a condition reads in the main query, and those that lead  *)
(* there: that of its field, in however deep a group it is, and those of a  *)
(* computable field that is used and not in a CTE.                          *)
Reads(field) ==
    Leading({path \in {Front(field)} : path # <<>>}
            \cup (IF Len(field) = 1 /\ field[1] \in Used(filters) /\ ~Overridden(field)
                  THEN Computables(Root)[field[1]].paths ELSE {}))
Conditions == AtomsOf(where) \cup AtomsOf(having)

(* Every path that a condition reads is joined, with all that lead to it,   *)
(* and only a CTE takes one away: the has_many path of a computable field.  *)
(* (PathsFromFilters, collectComputablePathsForRequest, filterJoinSpecs)    *)
EveryPathJoined ==
    phase = "done" =>
        \A a \in Conditions : \A p \in Reads(a.field) \ joined : isHasManyPath(p) /\ p \in DOMAIN ctes

(* Dotted paths force the builder to add the necessary joins, as the manual *)
(* has it: all the relations in the path of a condition are joined.         *)
PathsForceJoins ==
    phase = "done" => \A a \in Conditions : Leading({Front(a.field)}) \subseteq joined

(* The expansion of shortcuts ends, and with it the making of the query.    *)
QueryBuilt == <>(phase = "done")
=============================================================================
