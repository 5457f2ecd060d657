----------------------------- MODULE PresetGraph -----------------------------
(***************************************************************************)
(* The graph of presets, and the four walks the service makes through it.  *)
(* A preset selects relations of its model, each with a preset of the      *)
(* related model, and may come back to where it started: reentrant         *)
(* relations make cycles, and max_depth is to bound them.                  *)
(*                                                                         *)
(*   validate  every preset, at startup          (registry_validation.go)  *)
(*   collect   its relation paths, at startup    (CreateAliasMap.go)       *)
(*   alias     the paths of filters and sorts    (BuildAliasMap.go)        *)
(*   scan      the preset's columns, joins and branches, once for each     *)
(*             call of the resolver              (ScanColumns.go, ...)     *)
(*                                                                         *)
(* The code walks depth first. The model takes the places of one depth in  *)
(* one step, which visits the same places. A place of a walk is a frame:   *)
(* the arguments of the recursive call.                                    *)
(*                                                                         *)
(* Left out: shortcuts (aliases:), which are expanded before a path gets   *)
(* here, through relations, and fields that are columns.                   *)
(***************************************************************************)
EXTENDS Integers, Sequences, FiniteSets, FiniteSetsExt, Functions

CONSTANTS
    Models,           \* the models loaded
    Names,            \* names of relations
    Rank,             \* Rank[s]: the place of name s in the order of strings
    Registries,       \* what the YAML files may say, see below
    ExtraPaths,       \* relation paths that filters and sorts may name
    DefaultMaxDepth,  \* defaultReentrantMaxDepth
    StackLimit,       \* depth of recursion that counts as endless
    MaxHops           \* bound on the models on the way of a request that calls a branch

(***************************************************************************)
(* A registry has                                                          *)
(*   relations[m][s]  relation s of model m: its kind, the model it leads  *)
(*                    to, reentrant and max_depth (0: not given),          *)
(*   fields[p]        the fields of preset p = <<model, name>> that give a *)
(*                    nested preset: source, type, nested and max_depth,   *)
(*   tokens[p]        the relation paths in the templates of its formatter *)
(*                    and nested_field fields.                             *)
(***************************************************************************)
ASSUME PresetGraphAssumption ==
    /\ Rank \in [Names -> Nat] /\ IsInjective(Rank)
    /\ ExtraPaths \subseteq Seq(Names)
    /\ DefaultMaxDepth \in Nat \ {0} /\ StackLimit \in Nat \ {0}
    /\ IsFiniteSet(Models)

(* Presets belong to models and are finite; what a nested preset comes from *)
(* is a name; max_depth is an int.                                          *)
ASSUME RegistriesAssumption ==
    \A r \in Registries :
        /\ \A m \in Models : \A s \in DOMAIN r.relations[m] : r.relations[m][s].max \in Int
        /\ IsFiniteSet(DOMAIN r.fields)
        /\ \A p \in DOMAIN r.fields :
              /\ p[1] \in Models
              /\ IsFiniteSet(r.fields[p])
              /\ \A f \in r.fields[p] :
                    f.type = "preset" => f.source \in Names /\ f.max \in Int

VARIABLES
    registry,   \* Registry
    phase,
    todo,       \* frames of the current walk still to visit
    paths,      \* paths[p]: relation paths collected for preset p
    maps,       \* maps[p]: FieldsAliasMap of preset p, path to number of alias
    preset,     \* preset of the running call of the resolver
    trail,      \* models on the way from the user's request to that preset
    extra,      \* paths of its filters and sorts not yet in the alias map
    cursor,     \* ensureAliasPath: the path and how far it has come
    aliasMap,   \* the call's alias map
    nextIdx,    \* and the number to try for its next alias
    joins,      \* paths the call needs joins for
    tails       \* its has_* and polymorphic branches

vars == <<registry, phase, todo, paths, maps, preset, trail, extra, cursor, aliasMap,
          nextIdx, joins, tails>>
startVars == <<registry, paths, maps>>
callVars == <<preset, trail, extra, cursor, aliasMap, nextIdx, joins, tails>>

Presets == DOMAIN registry.fields
Fields(p) == registry.fields[p]
PresetFields(p) == {f \in Fields(p) : f.type = "preset"}
Declared(m, s) == s \in DOMAIN registry.relations[m]
Rel(m, s) == registry.relations[m][s]
Polymorphic(m, s) == Rel(m, s).kind = "polymorphic"
NestedOf(p, f) == <<Rel(p[1], f.source).to, f.nested>>

ResolveMaxDepth(fieldMax, relMax) ==
    IF fieldMax > 0 THEN fieldMax ELSE IF relMax > 0 THEN relMax ELSE DefaultMaxDepth

Visits(stack, m) == Cardinality({i \in DOMAIN stack : stack[i] = m})
Prefixes(path) == {SubSeq(path, 1, n) : n \in 1..Len(path)}

(***************************************************************************)
(* Frames                                                                  *)
(***************************************************************************)
RootFrame(p, stack) == [root |-> p, preset |-> p, path |-> <<>>, stack |-> stack]

ChildFrame(fr, f) ==
    LET p == NestedOf(fr.preset, f)
    IN [root |-> fr.root, preset |-> p, path |-> Append(fr.path, f.source),
        stack |-> Append(fr.stack, p[1])]

(* The model is on the path already; and as often as max_depth allows.      *)
Reenters(fr, f) == Visits(fr.stack, Rel(fr.preset[1], f.source).to) > 0

DepthReached(fr, f) ==
    LET r == Rel(fr.preset[1], f.source)
    IN Visits(fr.stack, r.to) >= ResolveMaxDepth(f.max, r.max)

(* Mutant: a cycle without max_depth is not capped.                         *)
CappedIfGiven(fr, f) ==
    Reenters(fr, f) /\ DepthReached(fr, f) /\ f.max + Rel(fr.preset[1], f.source).max > 0

(* Fields at which the walks at startup go no deeper.                       *)
Capped(fr, f) == Reenters(fr, f) /\ DepthReached(fr, f)

(* A goroutine's stack is finite; here a walk goes no further.              *)
StackOverflows == \E fr \in todo : Len(fr.path) >= StackLimit

RootFrames == {RootFrame(p, <<p[1]>>) : p \in Presets}

EmptyMap == <<>>
NoPreset == <<>>

Init ==
    /\ registry \in Registries
    /\ phase = "link"
    /\ todo = {}
    /\ paths = [p \in Presets |-> {}]
    /\ maps = [p \in Presets |-> EmptyMap]
    /\ preset = NoPreset /\ trail = <<>> /\ extra = {}
    /\ cursor = [path |-> <<>>, done |-> 0, stack |-> <<>>]
    /\ aliasMap = EmptyMap /\ nextIdx = 0
    /\ joins = {} /\ tails = {}

(***************************************************************************)
(* Startup                                                                 *)
(***************************************************************************)
(* LinkModelRelations finds the model of every relation and the preset of   *)
(* every field.                                                             *)
Linkable ==
    /\ \A m \in Models : \A s \in DOMAIN registry.relations[m] :
          Polymorphic(m, s) \/ Rel(m, s).to \in Models
    /\ \A p \in Presets : \A f \in PresetFields(p) :
          /\ Declared(p[1], f.source)
          /\ Polymorphic(p[1], f.source) \/ NestedOf(p, f) \in Presets

Link ==
    /\ phase = "link"
    /\ IF Linkable THEN phase' = "validate" /\ todo' = RootFrames
                   ELSE phase' = "failed" /\ UNCHANGED todo
    /\ UNCHANGED <<startVars, callVars>>

(* Mutant: only relations of a model to itself count as cycles.             *)
InvalidIfDirect(fr, f) ==
    \/ f.type # "preset"
    \/ ~Declared(fr.preset[1], f.source)
    \/ /\ ~Polymorphic(fr.preset[1], f.source)
       /\ \/ NestedOf(fr.preset, f) \notin Presets
          \/ /\ Rel(fr.preset[1], f.source).to = fr.preset[1]
             /\ ~Rel(fr.preset[1], f.source).reentrant

(* dfsPresetWithPolicy: what makes a field invalid, and where it goes on.   *)
Invalid(fr, f) ==
    \/ f.type # "preset"
    \/ ~Declared(fr.preset[1], f.source)
    \/ /\ ~Polymorphic(fr.preset[1], f.source)
       /\ \/ NestedOf(fr.preset, f) \notin Presets
          \/ Reenters(fr, f) /\ ~Rel(fr.preset[1], f.source).reentrant

Validate ==
    /\ phase = "validate" /\ todo # {} /\ ~StackOverflows
    /\ IF \E fr \in todo : \E f \in Fields(fr.preset) : Invalid(fr, f)
       THEN phase' = "failed" /\ todo' = {}
       ELSE /\ phase' = phase
            /\ todo' = UNION {{ChildFrame(fr, f) : f \in {g \in Fields(fr.preset) :
                            ~Polymorphic(fr.preset[1], g.source) /\ ~Capped(fr, g)}} :
                        fr \in todo}
    /\ UNCHANGED <<startVars, callVars>>

StartCollecting ==
    /\ phase = "validate" /\ todo = {}
    /\ phase' = "collect" /\ todo' = RootFrames
    /\ UNCHANGED <<startVars, callVars>>

(* collectPresetRelationPaths: a path is recorded before its depth is       *)
(* looked at.                                                               *)
Collected(fr) == {f \in PresetFields(fr.preset) :
    Declared(fr.preset[1], f.source) /\ ~Polymorphic(fr.preset[1], f.source)}

(* Mutant: stops at every relation that is not reentrant.                   *)
CutUnlessReentrant(fr, f) ==
    ~Rel(fr.preset[1], f.source).reentrant \/ (Reenters(fr, f) /\ DepthReached(fr, f))

Cut(fr, f) == Reenters(fr, f) /\
    (~Rel(fr.preset[1], f.source).reentrant \/ DepthReached(fr, f))

Collect ==
    /\ phase = "collect" /\ todo # {} /\ ~StackOverflows
    /\ paths' = [p \in Presets |-> paths[p] \cup
            UNION {{Append(fr.path, f.source) : f \in Collected(fr)} :
                fr \in {g \in todo : g.root = p}}]
    /\ todo' = UNION {{ChildFrame(fr, f) : f \in {g \in Collected(fr) : ~Cut(fr, g)}} :
                   fr \in todo}
    /\ UNCHANGED <<registry, phase, maps, callVars>>

(* Paths are numbered shorter ones first, then as strings.                  *)
Before(p, q) ==
    \/ Len(p) < Len(q)
    \/ /\ Len(p) = Len(q)
       /\ \E i \in DOMAIN p : /\ Rank[p[i]] < Rank[q[i]]
                              /\ \A j \in 1..(i - 1) : p[j] = q[j]

Numbered(S) == [p \in S |-> Cardinality({q \in S : Before(q, p)})]

FinishStartup ==
    /\ phase = "collect" /\ todo = {}
    /\ maps' = [p \in Presets |-> Numbered(paths[p])]
    /\ phase' = "ready"
    /\ UNCHANGED <<registry, todo, paths, callVars>>

(***************************************************************************)
(* One call of the resolver: its alias map                                 *)
(***************************************************************************)
(* detectNextAliasIndex: one more than the highest number in use.           *)
DetectNextAliasIndex(am) == IF am = EmptyMap THEN 0 ELSE Max(Range(am)) + 1

BeginCall(p, way, x) ==
    /\ phase' = "alias"
    /\ preset' = p /\ trail' = way /\ extra' = x
    /\ aliasMap' = maps[p] /\ nextIdx' = DetectNextAliasIndex(maps[p])
    /\ cursor' = [path |-> <<>>, done |-> 0, stack |-> <<>>]
    /\ joins' = x /\ tails' = {}
    /\ UNCHANGED <<startVars, todo>>

(* A user asks for a preset, with filters and sorts.                        *)
Request ==
    /\ phase = "ready"
    /\ \E p \in Presets : \E x \in SUBSET ExtraPaths : BeginCall(p, <<p[1]>>, x)

NextExtraPath ==
    /\ phase = "alias" /\ cursor.path = <<>>
    /\ \E p \in extra :
          /\ \A q \in extra \ {p} : Before(p, q)
          /\ extra' = extra \ {p}
          /\ cursor' = [path |-> p, done |-> 0, stack |-> <<>>]
    /\ UNCHANGED <<startVars, phase, todo, preset, trail, aliasMap, nextIdx, joins, tails>>

(* ensureAliasPath, one round of its loop. The root is not on its stack.    *)
Segment == cursor.path[cursor.done + 1]
CursorModel == IF cursor.stack = <<>> THEN preset[1] ELSE cursor.stack[Len(cursor.stack)]
CursorPrefix == SubSeq(cursor.path, 1, cursor.done + 1)
AtSegment == phase = "alias" /\ cursor.done < Len(cursor.path)

(* Mutant: one visit too many.                                              *)
MayEnterOnceMore(stack, r) ==
    Visits(stack, r.to) > 0 => r.reentrant /\ Visits(stack, r.to) <= ResolveMaxDepth(0, r.max)

MayEnter(stack, r) ==
    Visits(stack, r.to) > 0 =>
        r.reentrant /\ Visits(stack, r.to) + 1 <= ResolveMaxDepth(0, r.max)

(* nextAlias: the first number from nextIdx on that is not in use.          *)
NextAlias(am, n) == Min((n..(n + Cardinality(DOMAIN am))) \ Range(am))

(* Mutants: the inner prefixes of a path get no alias; no path is known     *)
(* from the preset.                                                         *)
RegisteredOrInner(prefix) == prefix \in DOMAIN aliasMap \/ Len(prefix) < Len(cursor.path)
RegisteredByNone(prefix) == FALSE

Registered(prefix) == prefix \in DOMAIN aliasMap

EnsureSegment ==
    /\ AtSegment
    /\ Declared(CursorModel, Segment) /\ ~Polymorphic(CursorModel, Segment)
    /\ \/ /\ Registered(CursorPrefix)
          /\ UNCHANGED <<aliasMap, nextIdx>>
       \/ /\ ~Registered(CursorPrefix)
          /\ MayEnter(cursor.stack, Rel(CursorModel, Segment))
          /\ LET a == NextAlias(aliasMap, nextIdx)
             IN /\ aliasMap' = [q \in DOMAIN aliasMap \cup {CursorPrefix} |->
                                  IF q = CursorPrefix THEN a ELSE aliasMap[q]]
                /\ nextIdx' = a + 1
    /\ cursor' = [cursor EXCEPT !.done = @ + 1,
                                !.stack = Append(@, Rel(CursorModel, Segment).to)]
    /\ UNCHANGED <<startVars, phase, todo, preset, trail, extra, joins, tails>>

(* The end of the path, or a polymorphic relation on it.                    *)
EnsureDone ==
    /\ phase = "alias" /\ cursor.path # <<>>
    /\ \/ cursor.done = Len(cursor.path)
       \/ AtSegment /\ Declared(CursorModel, Segment) /\ Polymorphic(CursorModel, Segment)
    /\ cursor' = [path |-> <<>>, done |-> 0, stack |-> <<>>]
    /\ UNCHANGED <<startVars, phase, todo, preset, trail, extra, aliasMap, nextIdx, joins, tails>>

EnsureFails ==
    /\ AtSegment
    /\ \/ ~Declared(CursorModel, Segment)
       \/ /\ Declared(CursorModel, Segment) /\ ~Polymorphic(CursorModel, Segment)
          /\ ~Registered(CursorPrefix)
          /\ ~MayEnter(cursor.stack, Rel(CursorModel, Segment))
    /\ phase' = "refused"
    /\ UNCHANGED <<startVars, todo, callVars>>

(***************************************************************************)
(* ... its query, and its branches                                         *)
(***************************************************************************)
StartScan ==
    /\ phase = "alias" /\ cursor.path = <<>> /\ extra = {}
    /\ phase' = "scan" /\ todo' = {RootFrame(preset, trail)}
    /\ UNCHANGED <<startVars, callVars>>

OfKind(fr, kinds) == {f \in PresetFields(fr.preset) : Rel(fr.preset[1], f.source).kind \in kinds}

(* ScanPresetFields (what joins there are), ScanColumns and collectTails    *)
(* all follow the belongs_to fields, to the end.                            *)
Scan ==
    /\ phase = "scan" /\ todo # {} /\ ~StackOverflows
    /\ joins' = joins \cup UNION {
          {Append(fr.path, f.source) : f \in OfKind(fr, {"belongs_to", "polymorphic"})}
             \cup {fr.path \o t : t \in registry.tokens[fr.preset]} : fr \in todo}
    /\ tails' = tails \cup UNION {{[frame |-> fr, field |-> f] :
          f \in OfKind(fr, {"has_one", "has_many", "polymorphic"})} : fr \in todo}
    /\ todo' = UNION {{ChildFrame(fr, f) : f \in OfKind(fr, {"belongs_to"})} : fr \in todo}
    /\ UNCHANGED <<startVars, phase, preset, trail, extra, cursor, aliasMap, nextIdx>>

(* The models path leads to from m, as far as its names are those of        *)
(* relations one can join.                                                  *)
ModelsAlong(m, path) ==
    LET at[i \in 0..Len(path)] ==
          IF i = 0 THEN {m}
          ELSE {Rel(n, path[i]).to : n \in {k \in at[i - 1] :
                   Declared(k, path[i]) /\ ~Polymorphic(k, path[i])}}
    IN at

Joined(path) ==
    {SubSeq(path, 1, i) : i \in {k \in 1..Len(path) : ModelsAlong(preset[1], path)[k] # {}}}

Unaliased == (UNION {Joined(j) : j \in joins}) \ DOMAIN aliasMap

DetectJoins ==
    /\ phase = "scan" /\ todo = {}
    /\ phase' = IF Unaliased = {} THEN "tails" ELSE "unjoined"
    /\ UNCHANGED <<startVars, todo, callVars>>

(* A branch with rows calls the resolver again. Which model a polymorphic   *)
(* branch leads to is in the rows.                                          *)
Targets(t) ==
    LET r == Rel(t.frame.preset[1], t.field.source)
    IN IF r.kind = "polymorphic" THEN {p \in Presets : p[2] = t.field.nested}
                                 ELSE {NestedOf(t.frame.preset, t.field)}

CallTail ==
    /\ phase = "tails" /\ Len(trail) < MaxHops
    /\ \E t \in tails : \E p \in Targets(t) : BeginCall(p, Append(t.frame.stack, p[1]), {})

(* The answer, or the error, after which another request may come.          *)
Respond ==
    /\ phase \in {"tails", "unjoined", "refused"}
    /\ phase' = "ready"
    /\ preset' = NoPreset /\ trail' = <<>> /\ extra' = {}
    /\ cursor' = [path |-> <<>>, done |-> 0, stack |-> <<>>]
    /\ aliasMap' = EmptyMap /\ nextIdx' = 0 /\ joins' = {} /\ tails' = {}
    /\ UNCHANGED <<startVars, todo>>

Next ==
    \/ Link \/ Validate \/ StartCollecting \/ Collect \/ FinishStartup
    \/ Request \/ NextExtraPath \/ EnsureSegment \/ EnsureDone \/ EnsureFails
    \/ StartScan \/ Scan \/ DetectJoins \/ CallTail \/ Respond

Spec == Init /\ [][Next]_vars
-----------------------------------------------------------------------------
(* No walk, at startup or for a request, recurses without end: what         *)
(* max_depth is for (DOCS.md, "protects SQL building and result folding").  *)
RecursionEnds == ~StackOverflows

(* What validation lets pass the collection of paths cuts off only where    *)
(* max_depth is reached, never for want of "reentrant": the two count the   *)
(* visits to a model alike.                                                 *)
CutOnlyAtMaxDepth ==
    phase = "collect" =>
        \A fr \in todo : \A f \in Collected(fr) : Cut(fr, f) => DepthReached(fr, f)

(* Every relation a call joins has an alias: the walk of the request goes   *)
(* nowhere the walk at startup has not been.                                *)
JoinsHaveAliases == phase = "scan" /\ todo = {} => Unaliased = {}

(* No two paths share an alias, and the parent of every path joined is      *)
(* joined too, however many paths filters and sorts have added.             *)
AliasMapIsTree ==
    /\ IsInjective(aliasMap)
    /\ \A p \in DOMAIN aliasMap : Prefixes(p) \subseteq DOMAIN aliasMap

(* A relation the preset itself selects can be filtered and sorted by, even *)
(* if its field allows more depth than the relation.                        *)
PresetPathsAccepted == phase = "refused" => cursor.path \notin paths[preset]

(* A path that filters or sorts have added comes back to no model more      *)
(* often than its last relation allows, whatever was in the map before it.  *)
AddedPathsBounded ==
    \A p \in DOMAIN aliasMap :
        preset # NoPreset /\ p \notin DOMAIN maps[preset] =>
            LET at == ModelsAlong(preset[1], p)
                n == Len(p)
                r == Rel(CHOOSE m \in at[n - 1] : TRUE, p[n])
            IN Cardinality({i \in 1..n : at[i] = at[n]}) \in 1..ResolveMaxDepth(0, r.max)

(* A request comes back to a model at most max_depth times.                 *)
MaxDepthTo(m) == Max({0} \cup UNION {{ResolveMaxDepth(f.max, Rel(p[1], f.source).max) :
    f \in {g \in PresetFields(p) :
        ~Polymorphic(p[1], g.source) /\ Rel(p[1], g.source).to = m}} : p \in Presets})

WithinMaxDepth ==
    phase = "scan" =>
        \A fr \in todo : \A m \in Models : Visits(fr.stack, m) <= MaxDepthTo(m) + 1
=============================================================================
