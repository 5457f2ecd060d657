--------------------------- MODULE MCInheritance ---------------------------
(* Model files for Inheritance: presets base, head and item with every way  *)
(* of extending each other, templates that share presets and relations      *)
(* with the model, and texts with keys that are not allowed.                *)
EXTENDS Inheritance, TLC

Names3 == {"base", "head", "item"}
Extends3 == {<<>>, <<"gone">>, <<"base", "head">>, <<"head", "base">>, <<"base", "head", "base">>}
              \cup {<<p>> : p \in {"base", "head"}}
OwnFields(p) == {<<Field("id", p)>>, <<Field("name", p), Field("id", p)>>}
NoRelations == <<>>

(* One file by itself. *)
Plain ==
    {File({}, NoRelations, [p \in Names3 |-> Preset(e[p], o[p])], <<>>) :
        e \in [Names3 -> Extends3],
        o \in {g \in [Names3 -> UNION {OwnFields(p) : p \in Names3}] :
                  \A p \in Names3 : g[p] \in OwnFields(p)}}

(* One or two templates. *)
Rel(type, fk) == [type |-> type, fk |-> fk]
Templates ==
    LET Bases(by) == {Preset(<<>>, <<Field("id", by), Field("name", by)>>),
                      Preset(<<"item">>, <<Field("skip", by), Field("id", by)>>)}
        Items(by) == {Preset(<<>>, <<Field("name", by)>>), Preset(<<"base">>, <<Field("id", by), Field("skip", by)>>),
                      Preset(<<"base">>, <<Field("no", by)>>)}
    IN  [by \in {"model", "first", "second"} |->
            {("base" :> b) : b \in Bases(by)} \cup {("item" :> i) : i \in Items(by)}
              \cup {("base" :> b @@ "item" :> i) : b \in Bases(by), i \in Items(by)}]
Relations(by) == {"boss" :> Rel("", by), "boss" :> Rel(by, ""), "staff" :> Rel(by, by), <<>>}
Including1 ==
    {File({}, r, p, <<Template({}, s, q)>>) :
        r \in Relations("model"), s \in Relations("first"), p \in Templates["model"], q \in Templates["first"]}
Including2 ==
    {File({}, r, p, <<Template({}, s, q), Template({}, t, "item" :> Preset(<<>>, <<Field("id", "second")>>))>>) :
        r \in Relations("model"), s \in Relations("first"), t \in Relations("second"),
        p \in {"base" :> Preset(<<>>, <<Field("id", "model")>>)}, q \in Templates["first"]}

(* Texts, good and bad, in the file or in its template. *)
Written == {
    <<"table">>, <<"primary_keys">>, <<"presets", "item", "fields", "source">>,
    <<"presets", "item", "fields", "type", "int">>, <<"presets", "item", "fields", "type", "array">>,
    <<"presets", "item", "field">>, <<"presets", "item", "fields", "sources">>,
    <<"relations", "boss", "type">>, <<"relations", "boss", "presets">>,
    <<"computable", "age", "type", "int">>, <<"computable", "age", "type", "text">>,
    <<"computable", "age", "expr">>, <<"aggregatable", "age", "functions">>,
    <<"aggregatable", "age", "function">>, <<"aliases", "presets", "boss">>}
OneItem == "item" :> Preset(<<>>, <<Field("id", "model")>>)
Faulty ==
    {File({path}, NoRelations, OneItem, <<>>) : path \in Written}
      \cup {File({}, NoRelations, OneItem, <<Template({path}, NoRelations, OneItem)>>) : path \in Written}
      \cup {File({}, NoRelations, OneItem, <<Unreadable>>)}

MCFiles == Plain \cup Including1 \cup Including2 \cup Faulty
=============================================================================
