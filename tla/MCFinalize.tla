----------------------------- MODULE MCFinalize -----------------------------
(* Presets and rows for Finalize, in four families.                         *)
EXTENDS Finalize, FiniteSets

(* Fields of the item itself; a container comes after the fields in it.     *)
Field(type, source, alias) == FieldAt(<<>>, type, source, alias)
Column(source, alias) == Field("column", source, alias)
HasMany(source, alias) == Field("has_many", source, alias)
Formatter(alias, template) == [Field("formatter", "", alias) EXCEPT !.template = template]
NestedField(alias, path) == [Field("nested_field", "", alias) EXCEPT !.template = <<Token(path)>>]
BelongsTo(source, alias, fields) ==
    Append([i \in DOMAIN fields |-> [fields[i] EXCEPT !.prefix = <<source>> \o @]],
           Field("belongs_to", source, alias))
ChangeLast(fields, f) == Append(Front(fields), f)

(* Rows: what is at each key, and what a belongs_to leads to.               *)
Cells(f) == [path \in {<<key>> : key \in DOMAIN f} |-> f[path[1]]]
Inside(source, row) == [path \in {<<source>> \o q : q \in DOMAIN row} |-> row[Tail(path)]]

A == Str(<<"a">>)
B == Str(<<"b">>)
AB == Str(<<"a", "b">>)
Case(fields, row, dicts) ==
    [fields |-> fields, row |-> row, dicts |-> dicts, model |-> "Person", preset |-> "card"]

(* Formatters that mention the column and each other without a cycle, in    *)
(* every order; one that is mentioned by an earlier one and mentions an     *)
(* earlier one itself is misplaced by insertByDeps and left out.            *)
Formatters == 1..4
Alias4 == <<"p", "q", "r", "s">>
Graphs == {g \in [Formatters -> SUBSET Formatters] :
              \E rank \in Permutations(Formatters) :
                  \A i \in Formatters : \A j \in g[i] : rank[j] < rank[i]}
Orderly(g) == \A i \in Formatters :
                 (\E j \in 1..(i - 1) : i \in g[j]) => \A j \in g[i] : j > i
MentionCases ==
    LET Template(mentioned) ==
            <<Token(<<"name">>)>> \o [k \in 1..Cardinality(mentioned) |->
                                        Slice(<<Alias4[SetToSeq(mentioned)[k]]>>, 0, 2)]
    IN  {Case(<<Column("name", "")>> \o [i \in Formatters |-> Formatter(Alias4[i], Template(g[i]))],
              Cells([name |-> A]), {<<>>}) :
            g \in {h \in Graphs : Orderly(h)}}

(* A container in a container, with has_many branches, aliases, internal    *)
(* columns, a copied field and a container with a template.                 *)
Mark(f) == [f EXCEPT !.internal = TRUE]
City(alias) == BelongsTo("city", alias, <<Column("name", ""), Mark(Column("code", ""))>>)
Org(alias, phones, city) ==
    BelongsTo("org", alias, <<Column("name", "title")>> \o phones \o city)
NullOr(v) == {Nil, v}
CityRows == {Cells([name |-> n, code |-> c]) : n \in NullOr(A), c \in NullOr(Num(1))}
OrgRow(id, n, city) ==
    Cells([id |-> id, name |-> n, phones |-> List(IF id = Nil THEN <<>> ELSE <<A>>)])
        @@ Inside("city", city)
ContainerCases ==
    LET City0 == Cells([name |-> Nil, code |-> Nil])
        OrgRows == {OrgRow(Nil, Nil, City0)} \cup {OrgRow(Num(1), n, c) : n \in NullOr(A), c \in CityRows}
        Tops == {<<>>, <<HasMany("tags", "labels")>>,
                 <<NestedField("town", <<"org", "city", "name">>)>>,
                 ChangeLast(City("place"), [Last(City("place")) EXCEPT
                                              !.template = <<Token(<<"name">>), Token(<<"code">>)>>])
                     \o <<HasMany("tags", "")>>}
    IN  {Case(<<Column("name", alias), Mark(Column("code", ""))>>
                \o (LET org0 == Org(alias, phones, city)
                    IN  IF hidden THEN ChangeLast(org0, Mark(Last(org0))) ELSE org0)
                \o top,
              Cells([id |-> Num(1), name |-> A, code |-> B, tags |-> List(<<>>)])
                @@ Inside("org", org) @@ Inside("city", City0), {<<>>}) :
            alias \in {"", "employer"}, hidden \in BOOLEAN,
            phones \in {<<>>, <<HasMany("phones", "")>>, <<Formatter("label", <<Token(<<"city", "name">>)>>)>>}, city \in {<<>>, City("place"), City("")},
            top \in Tops, org \in OrgRows}

(* No two fields answer to one name. *)
Sensible(c) ==
    \A i, j \in DOMAIN c.fields :
        c.fields[i].prefix = c.fields[j].prefix /\ fieldKey(c.fields[i]) = fieldKey(c.fields[j]) => i = j

(* Every operator and literal against every value, with its opposite.       *)
ConditionCases ==
    LET Values == {Nil, Num(0), Num(1), Num(2), Bool(TRUE), Bool(FALSE), Str(<<>>), A, AB,
                   Str(<<"1">>), Str(<<"2">>)}
        Literals == Values \ {Num(0), AB}
        Yes == <<Text(<<"a">>)>>
        No == <<Slice(<<"name">>, 1, -1)>>
    IN  {Case(<<Column("name", ""), Column("code", ""),
                Formatter("p", <<Token(<<"code">>), Ternary(Condition(<<"code">>, op, w), Yes, No)>>),
                Formatter("q", <<Token(<<"code">>), Ternary(Condition(<<"code">>, Opposite[op], w), No, Yes)>>),
                Formatter("r", <<Ternary(Condition(<<"code">>, "", Nil), <<Ternary(Condition(<<"code">>, op, w), Yes, No)>>, No)>>)>>,
              Cells([name |-> AB, code |-> v]), {<<>>}) :
            op \in DOMAIN Opposite, v \in Values, w \in Literals}

(* Dictionaries with any of the entries that may apply.                     *)
DictionaryCases ==
    LET Entries == {<<"Person", "card", "kind", A>>, <<"card", "kind", A>>, <<"kind", A>>,
                    <<"Person", "card", "type", A>>, <<"type", A>>, <<"card", "type", A>>,
                    <<"kind", <<"int", 1>>>>}
        Said(path) == Str(<<Alphabet[Len(path)], IF "type" \in ToSet(path) THEN "b" ELSE "x">>)
        Dicts == {[path \in paths |-> Said(path)] : paths \in SUBSET Entries}
    IN  {Case(<<[Column("kind", alias) EXCEPT !.localize = TRUE, !.ofInt = int], Formatter("p", <<Token(<<fieldKey(Column("kind", alias))>>)>>)>>,
              Cells([kind |-> v]), Dicts) :
            alias \in {"", "type"}, int \in BOOLEAN, v \in {Nil, A, Num(1)}}

(* One column. *)
LeastCase == Case(<<Column("name", "")>>, Cells([name |-> A]), {<<>>})

MCCases ==
    {LeastCase} \cup MentionCases \cup {c \in ContainerCases : Sensible(c)} \cup ConditionCases \cup DictionaryCases

ASSUME SensibleAssumption == SensibleCases
ASSUME OrderlyAssumption == OrderlyCases

(* An internal column with an alias, or an internal formatter.               *)
HiddenCases ==
    {Case(<<Column("name", ""), Mark(f)>>, Cells([name |-> A, code |-> B]), {<<>>}) :
        f \in {Column("code", "secret"), Formatter("initial", <<Slice(<<"name">>, 0, -1)>>)}}
=============================================================================
