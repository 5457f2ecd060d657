---------------------------- MODULE FilterMeaning ----------------------------
(***************************************************************************)
(* What filters mean, and what the query made of them selects: the truth   *)
(* of the filters as they were written, and of WHERE and HAVING, for each  *)
(* row of the joined tables.                                               *)
(***************************************************************************)
EXTENDS Filters

CONSTANTS
    Lower,      \* Lower[c]: character c in lower case
    Rows,       \* rows of the joined tables: fields by full path to values
    Turns       \* BOUND: how often a path is looked at until it is read

(* What a row makes of a condition: "T", "F" or, for null, "U".  A row gives*)
(* the value of every field, under its full path.                           *)
Text(v) == IF v[1] = "num" THEN <<ToString(v[2])>> ELSE v[2]
Fold(s) == [i \in DOMAIN s |-> Lower[s[i]]]
Truth(b) == IF b THEN "T" ELSE "F"
HasPart(s, t) == \E i \in 0..(Len(s) - Len(t)) : SubSeq(s, i + 1, i + Len(t)) = t
Matches(op, s, t) ==
    CASE op = "start"   -> IsPrefix(t, s)
      [] op = "end"     -> IsSuffix(t, s)
      [] op = "cnt"     -> HasPart(s, t)
      [] op = "not_cnt" -> ~HasPart(s, t)
      [] op = "eq"      -> s = t
Compares(op, m, n) ==
    CASE op = "lt" -> m < n [] op = "lte" -> m <= n [] op = "gt" -> m > n [] op = "gte" -> m >= n

Holds(a, row) ==
    LET v == row[a.field]
    IN  CASE a.op = "is_null" \/ a.value = Bool(TRUE)   -> Truth(v = Null)
          [] a.op = "not_null" \/ a.value = Bool(FALSE) -> Truth(v # Null)
          [] a.op = "eq" /\ a.value = Null -> Truth(v = Null)
          [] a.op = "in" /\ a.value = List(<<>>) -> "F"
          [] v = Null                      -> "U"
          [] a.op = "in"                   -> Truth(v \in ToSet(a.value[2]))
          [] a.op \in Comparisons          -> Truth(Compares(a.op, v[2], a.value[2]))
          [] a.value[1] = "str"            ->
                Truth(IF a.cs THEN Matches(a.op, Text(v), Text(a.value))
                      ELSE Matches(a.op, Fold(Text(v)), Fold(Text(a.value))))
          [] OTHER                         -> Truth(v = a.value)

AllOf(truths) == IF "F" \in truths THEN "F" ELSE IF "U" \in truths THEN "U" ELSE "T"
AnyOf(truths) == IF "T" \in truths THEN "T" ELSE IF "U" \in truths THEN "U" ELSE "F"

(* The truth of the expressions in e: at first nothing is known; after n    *)
(* more rounds it is known of all with at most n layers below them.         *)
TruthOf(x, row, known) ==
    CASE x.kind = "none" -> "T"
      [] x.kind = "atom" -> Holds(x, row)
      [] x.kind = "and"  -> AllOf({known[p] : p \in x.parts})
      [] x.kind = "or"   -> AnyOf({known[p] : p \in x.parts})
WithinOf(e) == UNION {Layers(e)[n] : n \in 0..LastLayer}
Truths(e, row) ==
    LET truth[n \in 0..LastLayer] ==
            [x \in WithinOf(e) |->
                TruthOf(x, row, IF n = 0 THEN [p \in x.parts |-> "U"] ELSE truth[n - 1])]
    IN  truth
Eval(e, row) == Truths(e, row)[LastLayer][e]

(* The field a path names: a shortcut stands for its path.  A path is read  *)
(* segment by segment: what is done, the model there, and what remains.  A  *)
(* shortcut that stands for itself alone stands for nothing more.           *)
StandsForMore(m, seg) == seg \in DOMAIN Models[m].aliases /\ <<seg>> # Models[m].aliases[seg]
Reading(model, done, rest) == [model |-> model, done |-> done, rest |-> rest]
Read(r) ==
    r.rest = <<>> \/ (~StandsForMore(r.model, Head(r.rest)) /\ ~Resolves(r.model, Head(r.rest)))
ReadOn(r) ==
    LET seg == Head(r.rest)
    IN  CASE Read(r) -> r
          [] ~Read(r) /\ StandsForMore(r.model, seg) ->
                Reading(r.model, r.done, Models[r.model].aliases[seg] \o Tail(r.rest))
          [] OTHER ->
                Reading(Models[r.model].relations[seg], Append(r.done, seg), Tail(r.rest))
Readings(path) ==
    LET reading[n \in 0..Turns] ==
            IF n = 0 THEN Reading(Root, <<>>, path) ELSE ReadOn(reading[n - 1])
    IN  reading
Denotes(path) == LET r == Readings(path)[Turns] IN r.done \o r.rest

(* Shortcuts that lead to themselves in the end are never read: QueryBuilt. *)
ASSUME TurnsAssumption ==
    /\ Turns \in Nat
    /\ \A g \in Requests : \A f \in FieldsOf(CondsOf(g)) : Read(Readings(f)[Turns])

(* The truth of the filters as they were written; conditions with an        *)
(* unknown operator, and groups of nothing else, do not count ("-").        *)
Together(how, truths) ==
    IF truths \subseteq {"-"} THEN "-"
    ELSE IF how = "and" THEN AllOf(truths \ {"-"}) ELSE AnyOf(truths \ {"-"})

AsksField(c, field, row) ==
    IF Applies(c.key.op, c.value)
    THEN Holds(Atom(Denotes(field), c.key.op, c.key.cs, c.value), row) ELSE "-"
AsksCond(c, row) == Together(c.key.comb, {AsksField(c, f, row) : f \in ToSet(c.key.fields)})
AsksSub(how, sub, below) ==
    IF sub.kind = "map" THEN below[sub.groups[1], how]
    ELSE Together(how, {below[h, "and"] : h \in ToSet(sub.groups)})
Asks(g, row) ==
    LET asks[n \in 0..Depth] ==
            [q \in GroupsAt(g, Depth - n) \X {"and", "or"} |->
                Together(q[2], {AsksCond(c, row) : c \in q[1].conds}
                    \cup (IF n = 0 THEN {}
                          ELSE {AsksSub("or", q[1].or, asks[n - 1]),
                                AsksSub("and", q[1].and, asks[n - 1])}))]
    IN  asks
Asked(g, row) == Asks(g, row)[Depth][g, "and"]

(* Two keys of a group that name the same, with the same operator, become   *)
(* one key, and one of the two conditions is lost.                          *)
Means(key) == Key([i \in DOMAIN key.fields |-> Denotes(key.fields[i])], key.comb, key.op, key.cs)
Unambiguous(g) ==
    \A n \in 0..Depth : \A h \in GroupsAt(g, n) : \A c, d \in h.conds :
        Means(c.key) = Means(d.key) => c = d

(* The rows of the query are those the filters ask for, nulls included,     *)
(* however groups are nested and split between WHERE and HAVING, unless two *)
(* of their keys are the same.                                              *)
(* (buildWhereClause, NormalizeFiltersWithAliases)                          *)
RowsAsAsked ==
    phase = "done" /\ Unambiguous(request) =>
        \A row \in Rows :
            (Eval(where, row) = "T" /\ Eval(having, row) = "T") <=> Asked(request, row) \in {"T", "-"}
==============================================================================
