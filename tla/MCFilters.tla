----------------------------- MODULE MCFilters -----------------------------
(* People with a boss, who is one, contracts with organizations, and        *)
(* payments.                                                                *)
EXTENDS FilterMeaning

Computable(paths, aggregate) == [source |-> paths, paths |-> paths, aggregate |-> aggregate]
MCModels ==
    [Person |-> [aliases |-> [org |-> <<"contract", "firm">>, boss |-> <<"boss">>,
                              chief |-> <<"boss", "boss">>],
                 relations |-> [contract |-> "Contract", boss |-> "Person", payment |-> "Payment"],
                 many |-> {"contract", "payment"},
                 computable |-> [total |-> Computable({<<"contract">>}, TRUE),
                                 paid |-> Computable({<<"payment">>}, TRUE),
                                 owed |-> Computable({<<"contract">>, <<"payment">>}, TRUE),
                                 initial |-> Computable({}, FALSE)]],
     Contract |-> [aliases |-> [firm |-> <<"org">>], relations |-> [org |-> "Org"], many |-> {},
                   computable |-> [sum |-> Computable({}, TRUE)]],
     Payment |-> [aliases |-> <<>>, relations |-> <<>>, many |-> {}, computable |-> <<>>],
     Org |-> [aliases |-> <<>>, relations |-> <<>>, many |-> {}, computable |-> <<>>]]
MCLower == [c \in {"a", "A", "b", "0", "1"} |-> IF c = "A" THEN "a" ELSE c]

A == Str(<<"A">>)
MCRows ==
    {(<<"name">> :> v @@ <<"age">> :> n @@ <<"initial">> :> A @@ <<"boss", "name">> :> w
        @@ <<"boss", "boss", "name">> :> Str(<<"b", "a">>) @@ <<"contract", "org", "name">> :> w
        @@ <<"total">> :> n @@ <<"paid">> :> n @@ <<"owed">> :> n @@ <<"contract", "sum">> :> s) :
        v \in {Null, A, Str(<<"a", "b">>)}, w \in {Null, Str(<<"a">>)}, n \in {Null, Num(0), Num(1)},
        s \in {Null, Num(1)}}

Simple(path, op, value) == Cond(Key(<<path>>, "or", op, FALSE), value)
Cased(path, op, value) == Cond(Key(<<path>>, "or", op, TRUE), value)
Both(comb, op, value) == Cond(Key(<< <<"name">>, <<"org", "name">> >>, comb, op, FALSE), value)

(* Every operator, simple and composite keys, shortcuts at any place.       *)
Leaves == {
    Simple(<<"name">>, "eq", Str(<<"a">>)), Cased(<<"name">>, "eq", Str(<<"a">>)),
    Simple(<<"name">>, "eq", Null), Simple(<<"age">>, "eq", Num(1)), Simple(<<"age">>, "eq", Str(<<"1">>)),
    Simple(<<"age">>, "in", List(<<Num(0), Num(1)>>)), Simple(<<"age">>, "in", List(<<>>)),
    Simple(<<"total">>, "lt", Num(1)), Simple(<<"age">>, "lte", Num(0)),
    Simple(<<"contract", "sum">>, "gt", Num(0)), Simple(<<"total">>, "gte", Num(1)),
    Simple(<<"name">>, "start", Str(<<"a">>)), Cased(<<"boss", "name">>, "start", A),
    Simple(<<"chief", "name">>, "end", A), Cased(<<"initial">>, "end", A),
    Simple(<<"org", "name">>, "cnt", Str(<<"a">>)), Both("or", "not_cnt", Str(<<"b">>)),
    Both("and", "cnt", A), Both("or", "start", Num(1)), Simple(<<"boss", "name">>, "null", Bool(TRUE)),
    Simple(<<"total">>, "null", Bool(FALSE)), Both("and", "is_null", Null), Both("or", "not_null", Null),
    Simple(<<"name">>, "like", A)}
Few == {Simple(<<"name">>, "eq", Str(<<"a">>)), Simple(<<"contract", "sum">>, "gt", Num(0)),
        Both("and", "cnt", A), Simple(<<"name">>, "like", A)}

(* Aggregates: with a CTE if outermost, with a CTE anywhere, with none.      *)
Totals == {Simple(<<"total">>, "gt", Num(0)), Simple(<<"paid">>, "gt", Num(0)), Simple(<<"owed">>, "gt", Num(0))}

Flat(conds) == Group(conds, Nothing, Nothing)
Groups == {Flat(conds) : conds \in {{c} : c \in Few} \cup {{c, d} : c, d \in Few}}
Subs == {Nothing} \cup {One(g) : g \in Groups} \cup {Many(<<Flat({c}), g>>) : c \in Few, g \in Groups}
MCRequests ==
    {Flat({p[1], p[2]}) : p \in {q \in Leaves \X Leaves : q[1] = q[2] \/ q[1].key # q[2].key}}
    \cup {Group({c}, or, Nothing) : c \in Few, or \in Subs}
    \cup {Group({}, Nothing, and) : and \in Subs}
    \cup {Group({}, or, One(Group({c}, One(g), Nothing))) : c \in Few, or \in Subs, g \in Groups}
    \cup {Group({}, Many(<<Group({c}, One(g), Nothing), Flat({d})>>), Nothing) : c, d \in Few, g \in Groups}
    \cup {Group({c}, One(Flat({d, t})), Nothing) : c \in Few \cup Totals, d \in Few, t \in Totals}
    \cup {Flat({Simple(<<"org", "name">>, "eq", A), Simple(<<"contract", "firm", "name">>, "eq", Null)})}
=============================================================================
