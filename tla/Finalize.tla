------------------------------ MODULE Finalize ------------------------------
(***************************************************************************)
(* What becomes of one item between the rows of the database and the       *)
(* response: ScanColumns and FoldFlatRowByPreset nest the columns, child   *)
(* requests attach the has_many branches, and finalizeItems                *)
(* (internal/resolver/finalizeItems.go, locales.go) aliases, collapses,    *)
(* localizes, formats, removes and renames, in this order, each pass field *)
(* by field on what has been left so far.                                  *)
(*                                                                         *)
(* The passes walk a preset and the presets of its belongs_to fields with  *)
(* a prefix, the sources that lead from the item to a container, and find  *)
(* maps of the item by it.  So the fields are one list here, each with its *)
(* prefix, in the order in which the walks reach them: what is in a        *)
(* container comes before it.  The item is a function on paths.            *)
(*                                                                         *)
(* Sources, aliases and templates are names; what a has_many branch holds  *)
(* and how through branches are unwrapped is the subject of TailStitch.  A *)
(* copied value (nested_field) is not a map: the copy would share it.      *)
(***************************************************************************)
EXTENDS Templates, FiniteSetsExt

CONSTANT
    Cases       \* a preset's fields, a row, dictionaries and the names of model and preset

(* Fields have names and lie in containers that come later in the list; the *)
(* paths of a dictionary have a key before the value.                       *)
ASSUME CasesAssumption ==
    \A c \in Cases :
        /\ Len(c.fields) \in Nat /\ DOMAIN c.fields = 1..Len(c.fields)
        /\ \A i \in DOMAIN c.fields : LET f == c.fields[i] IN
              /\ f.prefix \in Seq(STRING) /\ f.source \in STRING /\ f.alias \in STRING
              /\ f.type \in {"column", "formatter", "nested_field", "belongs_to", "has_many"}
              /\ f.prefix # <<>> => \E j \in (i + 1)..Len(c.fields) :
                    /\ c.fields[j].type = "belongs_to"
                    /\ f.prefix = Append(c.fields[j].prefix, c.fields[j].source)
              /\ f.type = "nested_field" => f.template[1].path \in Seq(STRING) \ {<<>>}
        /\ \A d \in c.dicts : \A path \in DOMAIN d :
              Len(path) \in Nat /\ Len(path) >= 2 /\ path = [k \in 1..Len(path) |-> path[k]]

VARIABLES
    case,       \* the one of this request
    dict,       \* the locale's dictionary: paths of keys to translations
    item,       \* the item, paths to values; the item itself is at <<>>
    stage,      \* the pass, see After
    done        \* the fields this pass has been at, by their numbers

finalizeVars == <<case, dict, item, stage, done>>
-----------------------------------------------------------------------------
(* Fields; a belongs_to or has_many field is of type "preset" in the        *)
(* program and gets its kind from the relation.  All other types but those *)
(* of computed fields are "column" here; ofInt tells those of type "int".  *)
FieldAt(prefix, type, source, alias) ==
    [prefix |-> prefix, type |-> type, source |-> source, alias |-> alias,
     ofInt |-> FALSE, internal |-> FALSE, localize |-> FALSE, template |-> <<>>]

NoAlias == ""
fieldKey(f) == IF f.alias = NoAlias THEN f.source ELSE f.alias
HasOtherName(f) == f.alias \notin {NoAlias, f.source}

Numbers == DOMAIN case.fields
F(i) == case.fields[i]
Numbered(type) == {i \in Numbers : F(i).type = type}
Source(i) == Append(F(i).prefix, F(i).source)
Target(i) == Append(F(i).prefix, fieldKey(F(i)))

(* Operations on maps in maps. *)
Under(m, path) == {q \in DOMAIN m : IsPrefix(path, q)}
Drop(m, path) == Restrict(m, DOMAIN m \ Under(m, path))
Put(m, path, v) ==
    [q \in (DOMAIN m \ Under(m, path)) \cup {path} |-> IF q = path THEN v ELSE m[q]]

(* What lies under a path goes to another key of the same map. *)
Moved(m, path, key) ==
    LET n == Len(path)
        moved == {[q EXCEPT ![n] = key] : q \in Under(m, path)}
    IN  [q \in (DOMAIN m \ Under(m, path)) \cup moved |->
            IF q \in moved THEN m[[q EXCEPT ![n] = path[n]]] ELSE m[q]]
-----------------------------------------------------------------------------
(* What finalizeItems gets. *)

(* The column a field needs: its own, or the key has_many rows are joined   *)
(* by.  A column selected before is not selected again.                     *)
Reads(i) == IF F(i).type = "has_many" THEN "id" ELSE F(i).source
ReadsColumn(i) == F(i).type \in {"column", "has_many"}
Selected ==
    {i \in Numbers : ReadsColumn(i) /\
        ~ \E j \in 1..(i - 1) : ReadsColumn(j) /\ F(j).prefix = F(i).prefix /\ Reads(j) = Reads(i)}
Value(i) == case.row[Append(F(i).prefix, Reads(i))]
ColumnPath(i) == IF F(i).type = "has_many" THEN Append(F(i).prefix, "id") ELSE Target(i)

(* ScanColumns and FoldFlatRowByPreset: columns under their aliases,        *)
(* containers, if there is a column in them, under their sources.  (Of two  *)
(* columns under one name the later remains.)                               *)
HoldsColumn(fields, i) ==
    \E j \in DOMAIN fields : /\ fields[j].type \in {"column", "has_many"}
                            /\ IsPrefix(Append(fields[i].prefix, fields[i].source), fields[j].prefix)
ScanColumns ==
    LET Of(path) == {i \in Selected : ColumnPath(i) = path}
    IN  [path \in {<<>>} \cup {Source(i) : i \in {c \in Numbered("belongs_to") : HoldsColumn(case.fields, c)}}
                  \cup {ColumnPath(i) : i \in Selected} |->
            IF Of(path) = {} THEN Object ELSE Value(Max(Of(path)))]

(* The child requests: what belongs to the key of its context, or nothing.  *)
ChildRows(m, i) ==
    IF getNested(m, F(i).prefix, <<"id">>) = Nil THEN List(<<>>) ELSE case.row[Source(i)]
AttachBranches(m) ==
    LET Of(path) == {i \in Numbered("has_many") : Target(i) = path}
    IN  [path \in DOMAIN m \cup {Target(i) : i \in Numbered("has_many")} |->
            IF Of(path) = {} THEN m[path] ELSE ChildRows(m, Max(Of(path)))]
-----------------------------------------------------------------------------
(* The passes of finalizeItems: what each does at field i. *)

(* At the root only, what still lies under a source moves to its alias. *)
applyFieldAlias(m, i) ==
    IF Target(i) \in DOMAIN m \/ Source(i) \notin DOMAIN m THEN m
    ELSE Moved(m, Source(i), fieldKey(F(i)))

(* Mutant: any null makes a container empty. *)
HasNull(m, path) ==
    LET inside == {m[q] : q \in {r \in DOMAIN m : r # <<>> /\ Front(r) = path}}
    IN  inside = {} \/ Nil \in inside

(* No scalar in the map itself; nested maps and lists, full or empty, do    *)
(* not count.                                                               *)
isEmptyMap(m, path) == \A q \in DOMAIN m : q # <<>> /\ Front(q) = path => ~IsScalar(m[q])

(* Containers inside have collapsed before. *)
collapseEmpty(m, i) ==
    LET IsEmptyAt(path) == IsObject(m, path) /\ isEmptyMap(m, path)
    IN  IF IsEmptyAt(Source(i)) THEN Put(m, Source(i), Nil)
        ELSE IF IsEmptyAt(Target(i)) THEN Put(m, Target(i), Nil)
        ELSE m

(* Lookup in the dictionary, whose entries are paths of keys, the value     *)
(* last.  An integer matches an entry of the same Go type only: the         *)
(* dictionary's are int, the database's int16, int32 or int64 (here <<"num",*)
(* n>>).  Only the lookup below the field's name converts, if the field is  *)
(* of type int; it has no entry then for what is no integer.                *)
NoKey == <<"none">>
toIntKey(v) == IF v[1] = "num" THEN <<"int", v[2]>> ELSE NoKey
FieldKey(f, v) == IF f.ofInt THEN toIntKey(v) ELSE v

(* Mutant: from the broadest to the most specific. *)
LookupPathsReversed(f, v) ==
    LET At(key) == << <<key, FieldKey(f, v)>>, <<case.preset, key, v>>,
                      <<case.model, case.preset, key, v>> >>
    IN  IF HasOtherName(f) THEN At(f.alias) \o At(f.source) ELSE At(f.source)

LookupPaths(f, v) ==
    LET At(key) == << <<case.model, case.preset, key, v>>, <<case.preset, key, v>>,
                      <<key, FieldKey(f, v)>> >>
    IN  IF HasOtherName(f) THEN At(f.alias) \o At(f.source) ELSE At(f.source)

(* The first of the paths that the dictionary has.  Root fields only. *)
applyLocalization(m, i) ==
    LET key == IF Target(i) \in DOMAIN m THEN Target(i) ELSE Source(i)
        paths == LookupPaths(F(i), m[key])
        hits == {k \in DOMAIN paths : paths[k] \in DOMAIN dict}
    IN  IF key \notin DOMAIN m THEN m
        ELSE Put(m, Target(i), IF hits = {} THEN m[key] ELSE dict[paths[Min(hits)]])

(* Fields that are computed from others: formatters, copies of nested       *)
(* fields and containers with a template.                                   *)
IsNode(f) ==
    f.type \in {"formatter", "nested_field"} \/ (f.type = "belongs_to" /\ f.template # <<>>)
Mentions(i, j) == F(j).alias \in NamesIn(F(i).template) \cup {F(i).source}

(* Mutant: the list keeps the order of the preset. *)
AppendNode(list, i) == Append(list, i)

(* After the last node it mentions; before all others if it mentions none. *)
insertByDeps(list, i) ==
    LET mentioned == {k \in DOMAIN list : Mentions(i, list[k])}
    IN  InsertAt(list, IF mentioned = {} THEN 1 ELSE Max(mentioned) + 1, i)

(* The nodes of one map in the order in which they are computed. *)
NodeList(prefix) ==
    LET list[n \in 0..Len(case.fields)] ==
            IF n = 0 THEN <<>>
            ELSE IF IsNode(F(n)) /\ F(n).prefix = prefix THEN insertByDeps(list[n - 1], n)
            ELSE list[n - 1]
    IN  list[Len(case.fields)]

executeNode(m, i) ==
    LET f == F(i)
        result == Append(f.prefix, f.alias)
        child == IF IsObject(m, Source(i)) THEN Source(i) ELSE Target(i)
        copied == f.prefix \o f.template[1].path
    IN  CASE f.type = "formatter" /\ IsObject(m, f.prefix) ->
                Put(m, result, Str(applyFormatter(f.template, m, f.prefix)))
          [] f.type = "nested_field" /\ copied \in DOMAIN m ->
                Put(m, result, m[copied])
          [] f.type = "belongs_to" /\ IsObject(m, child) ->
                Put(m, result, Str(applyFormatter(f.template, m, child)))
          [] OTHER -> m

(* Mutant: markers are not collected below containers. *)
collectRootMarkers == {Source(i) : i \in {j \in Numbers : F(j).internal /\ F(j).prefix = <<>>}}

(* The paths of internal fields, by their sources. *)
collectInternalMarkers == {Source(i) : i \in {j \in Numbers : F(j).internal}}

(* deleteExactPath and deletePrefix, for all markers. *)
RemoveInternal(m) == Restrict(m, DOMAIN m \ UNION {Under(m, path) : path \in collectInternalMarkers})

(* Containers move to their aliases, inner ones first; what already lies    *)
(* under the alias stays.                                                   *)
applyPresetAlias(m, i) ==
    IF Source(i) \notin DOMAIN m THEN m
    ELSE IF Target(i) \in DOMAIN m THEN Drop(m, Source(i))
    ELSE Moved(m, Source(i), fieldKey(F(i)))
-----------------------------------------------------------------------------
After ==
    [scan |-> "attach", attach |-> "alias", alias |-> "collapse", collapse |-> "localize",
     localize |-> "format", format |-> "remove", remove |-> "rename", rename |-> "done"]

FinalizeInit ==
    /\ case \in Cases
    /\ dict \in case.dicts
    /\ item = <<>>
    /\ stage = "scan"
    /\ done = {}

(* The fields a pass is concerned with. *)
Work ==
    CASE stage = "alias" ->
            {i \in Numbers : /\ F(i).prefix = <<>> /\ HasOtherName(F(i))
                             /\ F(i).type \in {"column", "nested_field"}}
      [] stage = "collapse" -> Numbered("belongs_to")
      [] stage = "localize" -> {i \in Numbers : F(i).prefix = <<>> /\ F(i).localize}
      [] stage = "format" -> {i \in Numbers : IsNode(F(i))}
      [] stage = "rename" ->
            {i \in Numbers : HasOtherName(F(i)) /\ F(i).type \in {"belongs_to", "has_many"}}
      [] OTHER -> {}

(* A pass takes the fields in order, but the nodes of a map in that of      *)
(* NodeList, once those of the maps in it are computed.                     *)
Turn(i) ==
    /\ i \in Work \ done
    /\ IF stage = "format"
       THEN LET list == NodeList(F(i).prefix)
            IN  /\ \A k \in 1..Len(list) : list[k] = i => \A l \in 1..(k - 1) : list[l] \in done
                /\ \A j \in Work : IsStrictPrefix(F(i).prefix, F(j).prefix) => j \in done
       ELSE \A j \in Work : j < i => j \in done

At(pass, i, m) ==
    /\ stage = pass
    /\ Turn(i)
    /\ item' = m
    /\ done' = done \cup {i}
    /\ UNCHANGED <<case, dict, stage>>

AliasField(i) == At("alias", i, applyFieldAlias(item, i))
CollapseContainer(i) == At("collapse", i, collapseEmpty(item, i))
LocalizeField(i) == At("localize", i, applyLocalization(item, i))
ComputeNode(i) == At("format", i, executeNode(item, i))
RenameContainer(i) == At("rename", i, applyPresetAlias(item, i))

Whole(pass, m) ==
    /\ stage = pass
    /\ item' = m
    /\ stage' = After[pass]
    /\ UNCHANGED <<case, dict, done>>

Scan == Whole("scan", ScanColumns)
Attach == Whole("attach", AttachBranches(item))
RemoveFields == Whole("remove", RemoveInternal(item))

PassEnds ==
    /\ stage \in {"alias", "collapse", "localize", "format", "rename"}
    /\ Work \subseteq done
    /\ stage' = After[stage]
    /\ done' = {}
    /\ UNCHANGED <<case, dict, item>>

FinalizeNext ==
    \/ Scan
    \/ Attach
    \/ RemoveFields
    \/ PassEnds
    \/ \E i \in Numbers :
          \/ AliasField(i)
          \/ CollapseContainer(i)
          \/ LocalizeField(i)
          \/ ComputeNode(i)
          \/ RenameContainer(i)

FinalizeSpec == FinalizeInit /\ [][FinalizeNext]_finalizeVars
-----------------------------------------------------------------------------
(* Properties. *)

Done == stage = "done"

(* What the properties of names and containers take for granted of a        *)
(* preset: fields of one map share no name or source (a formatter's source  *)
(* is no key), where has_many rows are joined by the id it keeps its name,  *)
(* internal fields are what the item is made of, under their own names, and *)
(* what is computed has a name.  Columns hold no maps or lists, and of each *)
(* container a column is selected.                                          *)
Stored(f) == f.type \in {"column", "belongs_to", "has_many"}
NamesApart(fields) ==
    \A i, j \in DOMAIN fields : LET f == fields[i]  g == fields[j] IN
        i # j /\ f.prefix = g.prefix =>
            /\ fieldKey(f) # fieldKey(g)
            /\ g.type # "formatter" =>
                  fieldKey(f) # g.source /\ (Stored(f) => f.source # g.source)
IdStays(fields) ==
    \A i, j \in DOMAIN fields : LET f == fields[i]  g == fields[j] IN
        f.type = "has_many" /\ f.prefix = g.prefix /\ "id" \in {g.source, fieldKey(g)}
            => g.type = "column" /\ g.source = fieldKey(g)
KindsFit(f) ==
    /\ f.internal => /\ Stored(f)
                     /\ f.type = "belongs_to" \/ ~HasOtherName(f)
                     /\ f.type = "belongs_to" => f.template = <<>>
    /\ f.localize => f.type = "column"
    /\ IsNode(f) => f.alias # NoAlias
ScalarColumns(c) ==
    \A i \in DOMAIN c.fields : LET f == c.fields[i] IN
        f.type \in {"column", "has_many"} =>
            LET v == c.row[Append(f.prefix, IF f.type = "has_many" THEN "id" ELSE f.source)]
            IN  v = Nil \/ IsScalar(v)
SensibleCases ==
    \A c \in Cases :
        /\ NamesApart(c.fields)
        /\ IdStays(c.fields)
        /\ \A i \in DOMAIN c.fields : KindsFit(c.fields[i])
        /\ ScalarColumns(c)
        /\ \A i \in DOMAIN c.fields : c.fields[i].type = "belongs_to" => HoldsColumn(c.fields, i)

(* What the properties of formatters take for granted: they can be parsed,  *)
(* none mentions itself, and they are given in an order in which no field   *)
(* that an earlier one mentions mentions an earlier one itself              *)
(* (insertByDeps misplaces those).                                          *)
IsTemplate(t) ==
    /\ t \in Seq(PartsAt(t)[0])
    /\ \A n \in 0..MaxNesting : \A part \in PartsAt(t)[n] :
          /\ part.kind \in {"text", "token", "ternary"}
          /\ part.kind = "token" => part.path \in Seq(STRING)
          /\ part.kind = "ternary" =>
                /\ part.cond.path \in Seq(STRING)
                /\ part.cond.op \in {"", "==", "!=", "<", "<=", ">", ">="}
                /\ n < MaxNesting /\ {part.then, part.else} \subseteq Seq(PartsAt(t)[n + 1])
OrderFits(fields) ==
    \A i, j, k \in DOMAIN fields : LET f == fields[i]  g == fields[j]  h == fields[k] IN
        /\ IsNode(f) /\ IsNode(g) /\ IsNode(h)
        /\ j < i /\ k < i /\ {g.prefix, h.prefix} = {f.prefix}
        /\ f.alias \in NamesIn(g.template) \cup {g.source}
        => h.alias \notin NamesIn(f.template) \cup {f.source}
OrderlyCases ==
    \A c \in Cases :
        /\ OrderFits(c.fields)
        /\ \A i \in DOMAIN c.fields : LET f == c.fields[i] IN
              /\ f.type = "nested_field" => f.template[1].kind = "token"
              /\ f.type \in {"formatter", "nested_field"} =>
                    IsTemplate(f.template) /\ f.template # <<>> /\ f.alias \notin NamesIn(f.template)

(* A formatter reads what the other formatters have made: no text is from   *)
(* before a field it mentions was computed, at the root and in containers.  *)
(* (insertByDeps)                                                           *)
FormattersSeeDependencies ==
    stage = "remove" => \A i \in Numbers : LET f == F(i) IN
        /\ f.type = "formatter" /\ IsObject(item, f.prefix) =>
              item[Target(i)] = Str(applyFormatter(f.template, item, f.prefix))
        /\ f.type = "nested_field" /\ f.prefix \o f.template[1].path \in DOMAIN item =>
              item[Target(i)] = item[f.prefix \o f.template[1].path]

(* Where the client finds the container that a prefix leads to. *)
ClientPath(prefix) ==
    [k \in DOMAIN prefix |->
        LET c == CHOOSE i \in Numbered("belongs_to") : Source(i) = SubSeq(prefix, 1, k)
        IN  fieldKey(F(c))]

(* Neither internal nor in an internal container.                           *)
Visible(i) ==
    /\ ~F(i).internal
    /\ \A c \in Numbered("belongs_to") : F(c).internal => ~IsPrefix(Source(c), F(i).prefix)

(* What the database holds for the columns a container selects, the key of  *)
(* its has_many relations among them, and for all those in it.              *)
OwnColumns(path) == {Value(i) : i \in {j \in Numbers : ReadsColumn(j) /\ F(j).prefix = path}}
DeepColumns(path) == {Value(i) : i \in {j \in Numbers : ReadsColumn(j) /\ IsPrefix(path, F(j).prefix)}}

VisibleContainers == {i \in Numbered("belongs_to") : Visible(i) /\ F(i).template = <<>>}

(* A container with a column of its own that is not null reaches the client *)
(* as an object, one without any data as null, wherever the container       *)
(* around it is one.  (collapseEmptyBelongsTo)                              *)
ContainersKept ==
    Done => \A i \in VisibleContainers :
        LET path == Append(ClientPath(F(i).prefix), fieldKey(F(i))) IN
        IsObject(item, ClientPath(F(i).prefix)) =>
            /\ path \in DOMAIN item
            /\ OwnColumns(Source(i)) \subseteq {Nil} \/ item[path] = Object
            /\ DeepColumns(Source(i)) \subseteq {Nil} => item[path] = Nil

(* The comment above collapseEmptyBelongsTo: only containers with nothing   *)
(* but nulls inside become null.                                            *)
OnlyEmptyContainersNull ==
    Done => \A i \in VisibleContainers :
        getNested(item, ClientPath(F(i).prefix), <<fieldKey(F(i))>>) = Nil
            => DeepColumns(Source(i)) \subseteq {Nil}

(* The keys a client may see: every field under its alias, and the key of   *)
(* has_many relations.                                                      *)
KeyShown(i) ==
    /\ \A c \in Numbered("belongs_to") : F(c).internal => ~IsPrefix(Source(c), F(i).prefix)
    /\ \A j \in Numbers : F(j).internal => Source(j) # Append(F(i).prefix, "id")
VisiblePaths ==
    {Append(ClientPath(F(i).prefix), fieldKey(F(i))) : i \in {j \in Numbers : Visible(j)}}
    \cup {Append(ClientPath(F(i).prefix), "id") : i \in {j \in Numbered("has_many") : KeyShown(j)}}

(* Internal fields serve formatters and never leave, at any depth; all      *)
(* others arrive under their aliases, but for a copy of what is not there.  *)
(* (collectInternalMarkers, applyFieldAliases, applyPresetAliases)          *)
OnlyVisibleKeys ==
    Done =>
        /\ DOMAIN item \subseteq {<<>>} \cup VisiblePaths
        /\ \A i \in Numbers :
              Visible(i) /\ F(i).type # "nested_field" /\ IsObject(item, ClientPath(F(i).prefix)) =>
                  Append(ClientPath(F(i).prefix), fieldKey(F(i))) \in DOMAIN item

(* The most specific translation of the alias, else of the source, as the   *)
(* set of entries that apply has it; only the name the field answers to     *)
(* changes afterwards.  (applyLocalization)                                 *)
Translations(f, v) ==
    {path \in DOMAIN dict :
        /\ \/ SubSeq(path, 1, Len(path) - 2) \in {<<case.model, case.preset>>, <<case.preset>>}
              /\ Last(path) = v
           \/ Len(path) = 2 /\ Last(path) = FieldKey(f, v)
        /\ path[Len(path) - 1] \in {f.source, fieldKey(f)}}
Preferred(f, p, q) ==
    IF p[Len(p) - 1] = q[Len(q) - 1] THEN Len(p) >= Len(q) ELSE p[Len(p) - 1] = fieldKey(f)
Localized ==
    Done => \A i \in {j \in Numbered("column") :
                        F(j).prefix = <<>> /\ F(j).localize /\ ~F(j).internal} :
        LET v == case.row[Source(i)]
            paths == Translations(F(i), v)
        IN  item[Target(i)] =
              IF paths = {} THEN v
              ELSE dict[CHOOSE p \in paths : \A q \in paths : Preferred(F(i), p, q)]

Opposite ==
    [op \in {"==", "!=", "<", "<=", ">", ">="} |->
        CASE op = "==" -> "!="
          [] op = "!=" -> "=="
          [] op = "<"  -> ">="
          [] op = ">=" -> "<"
          [] op = ">"  -> "<="
          [] op = "<=" -> ">"]
Opposed(s, t) ==
    /\ s.kind = "ternary" /\ t.kind = "ternary"
    /\ s.cond.op # "" /\ s.cond.literal[1] # "bool"
    /\ t.cond.path = s.cond.path /\ t.cond.literal = s.cond.literal
    /\ t.cond.op = Opposite[s.cond.op]
    /\ s.then = t.else /\ s.else = t.then
SayTheSame(s, t) ==
    DOMAIN s = DOMAIN t /\ \A k \in DOMAIN s : s[k] = t[k] \/ Opposed(s[k], t[k])

(* A condition and its opposite choose opposite branches, null, numbers and *)
(* texts compared; booleans have no order.  So two formatters make the same *)
(* text if one has opposite conditions where the branches are exchanged.    *)
(* (evalCondition)                                                          *)
OppositesAgree ==
    Done => \A i, j \in {k \in Numbered("formatter") : F(k).prefix = <<>>} :
        SayTheSame(F(i).template, F(j).template) => item[Target(i)] = item[Target(j)]
=============================================================================
