----------------------------- MODULE Inheritance -----------------------------
(***************************************************************************)
(* Loading of one model file (LoadModelsFromDir in internal/model/         *)
(* loader.go): its YAML is validated, templates are included, and each     *)
(* preset gets the fields of the presets it extends.  Presets are taken in *)
(* the order of a Go map, which is no order, and a template's presets are  *)
(* resolved before they are merged into the model's.                       *)
(*                                                                         *)
(* The recursive dfs of resolvePresetInheritance is a stack of frames.  A  *)
(* field is the key it answers to (its alias, else its source) and the     *)
(* place it was written at; "skip" is the alias that drops a field of a    *)
(* template.                                                               *)
(***************************************************************************)
EXTENDS Integers, Sequences, FiniteSets, SequencesExt, Functions, Selections

CONSTANT
    Files       \* model files with their templates, see File below

VARIABLES
    file,       \* the file being loaded
    status,     \* "loading", "ok" or the error
    phase,
    next,       \* number of the include to process
    model,      \* the model's presets and relations so far
    work,       \* the presets whose inheritance is being resolved
    cache,      \* names of those already resolved
    stack       \* running calls of dfs, the outermost first

vars == <<file, status, phase, next, model, work, cache, stack>>
-----------------------------------------------------------------------------
(* A file or template: the paths of keys in its YAML, the elements of       *)
(* sequences left out and the value of a field's type at the end; relations *)
(* as functions from attributes to values, "" where not given; and presets. *)
Preset(extends, fields) == [extends |-> extends, fields |-> fields]
Field(key, by) == [key |-> key, by |-> by]
Template(paths, relations, presets) ==
    [paths |-> paths, relations |-> relations, presets |-> presets]
File(paths, relations, presets, includes) ==
    [paths |-> paths, relations |-> relations, presets |-> presets, includes |-> includes]
Unreadable == Template({<<"unreadable">>}, <<>>, <<>>)

(* What the program can read these from: presets have lists of names and of *)
(* fields, and relations all have the same attributes.  Below what is no    *)
(* mapping for the program there is no key, or a type.                      *)
IsPresets(presets) ==
    /\ IsFiniteSet(DOMAIN presets)
    /\ presets = [p \in DOMAIN presets |-> Preset(presets[p].extends, presets[p].fields)]
    /\ \A p \in DOMAIN presets :
          /\ presets[p].extends \in Seq(ToSet(presets[p].extends))
          /\ presets[p].fields \in Seq(ToSet(presets[p].fields))
IsPath(path) ==
    /\ path \in Seq(ToSet(path)) /\ path # <<>>
    /\ path[1] \in {"table", "include"} => Len(path) = 1
    /\ path[1] \in {"relations", "aggregatable"} => Len(path) <= 3
    /\ path[1] = "computable" /\ Len(path) > 3 => path[3] = "type" /\ Len(path) = 4
    /\ path[1] = "presets" /\ Len(path) > 3 => path[3] # "extends"

Texts(f) == {f} \cup ToSet(f.includes)

ASSUME FilesAssumption ==
    \A f \in Files :
        /\ f.includes \in Seq(ToSet(f.includes))
        /\ \A t \in Texts(f) : IsPresets(t.presets) /\ \A path \in t.paths : IsPath(path)
        /\ \A s, t \in Texts(f) : \A r \in DOMAIN s.relations, q \in DOMAIN t.relations :
              DOMAIN s.relations[r] = DOMAIN t.relations[q]

AllowedKeys == [
    model |-> {"table", "relations", "presets", "include", "computable", "aggregatable", "aliases"},
    relation |-> {"model", "type", "fk", "pk", "table", "where", "order", "through",
                  "through_where", "reentrant", "max_depth", "polymorphic", "type_column"},
    preset |-> {"extends", "fields"},
    field |-> {"source", "type", "alias", "preset", "where", "internal", "formatter", "localize",
               "max_depth"},
    computable |-> {"source", "type", "where"},
    aggregatable |-> {"functions", "type"}]
AllowedTypes == {"int", "string", "formatter", "preset", "bool", "float", "time", "datetime",
                 "date", "UUID", "nested_field", "computable"}

(* The context below a key; in those without allowed keys any key will do.  *)
MapsOf == [relations |-> "map of relations", presets |-> "map of presets",
           computable |-> "map of computable", aggregatable |-> "map of aggregatable",
           aliases |-> "map of aliases"]
NextContext(context, key) ==
    CASE context = "model" /\ key \in DOMAIN MapsOf -> MapsOf[key]
      [] context = "map of relations"    -> "relation"
      [] context = "map of presets"      -> "preset"
      [] context = "preset" /\ key = "fields" -> "field"
      [] context = "field"               -> "field value"
      [] context = "map of computable"   -> "computable"
      [] context = "map of aggregatable" -> "aggregatable"
      [] OTHER                           -> context

(* Mutant: keys are checked at the top only. *)
ValidateTopKeys(paths) == \A path \in paths : path[1] \in AllowedKeys.model

(* The contexts below the keys of a path, that of the file at 0. *)
Contexts(path) ==
    LET context[i \in 0..Len(path)] ==
          IF i = 0 THEN "model" ELSE NextContext(context[i - 1], path[i])
    IN  context

(* validateYAMLNode: no path has a key its context does not allow. *)
validateYAML(paths) ==
    \A path \in paths : \A i \in DOMAIN path :
        LET context == Contexts(path)
            isType == i > 1 /\ path[i - 1] = "type" /\ context[i - 2] \in {"field", "computable"}
        IN  IF isType THEN path[i] \in AllowedTypes
            ELSE context[i - 1] \in DOMAIN AllowedKeys => path[i] \in AllowedKeys[context[i - 1]]
-----------------------------------------------------------------------------
(* The elements of a sequence, each where it comes first. *)
Unrepeated(seq) ==
    LET some[i \in 0..Len(seq)] ==
          IF i = 0 THEN <<>>
          ELSE IF seq[i] \in ToSet(some[i - 1]) THEN some[i - 1] ELSE Append(some[i - 1], seq[i])
    IN  some[Len(seq)]

(* Mutant: a field that is overridden moves to the end. *)
MergeAtEnd(dst, src) ==
    FoldLeft(LAMBDA acc, f : Append(SelectSeq(acc, LAMBDA g : g.key # f.key), f), dst, src)

(* A field replaces that of the same key where it stands, or comes last. *)
Put(fields, f) ==
    IF \E i \in DOMAIN fields : fields[i].key = f.key
    THEN [i \in DOMAIN fields |-> IF fields[i].key = f.key THEN f ELSE fields[i]]
    ELSE Append(fields, f)

mergeFields(dst, src) ==
    LET merged[n \in 0..Len(src)] == IF n = 0 THEN dst ELSE Put(merged[n - 1], src[n])
    IN  merged[Len(src)]

NoSkip(fields) == Keep(fields, {f \in ToSet(fields) : f.key # "skip"})

(* Mutant: a template's attribute replaces the model's. *)
FillAll(dst, src) == [a \in DOMAIN dst |-> IF src[a] # "" THEN src[a] ELSE dst[a]]

(* mergeRelation: what the model leaves out comes from the template. *)
mergeRelation(dst, src) == [a \in DOMAIN dst |-> IF dst[a] = "" THEN src[a] ELSE dst[a]]

(* The part of applyTemplateIncludes after the template's own inheritance.  *)
(* A preset that the model lacks comes along with what it extends.          *)
MergeTemplate(m, relations, presets) ==
    [relations |->
        [r \in DOMAIN m.relations \cup DOMAIN relations |->
            CASE r \notin DOMAIN relations   -> m.relations[r]
              [] r \notin DOMAIN m.relations -> relations[r]
              [] OTHER                       -> mergeRelation(m.relations[r], relations[r])],
     presets |->
        [p \in DOMAIN m.presets \cup DOMAIN presets |->
            CASE p \notin DOMAIN presets   -> m.presets[p]
              [] p \notin DOMAIN m.presets -> presets[p]
              [] OTHER -> [m.presets[p] EXCEPT
                            !.fields = mergeFields(NoSkip(presets[p].fields), NoSkip(@))]]]
-----------------------------------------------------------------------------
Init ==
    /\ file \in Files
    /\ status = "loading" /\ phase = "read" /\ next = 1
    /\ model = [relations |-> file.relations, presets |-> file.presets]
    /\ work = <<>> /\ cache = {} /\ stack = <<>>

Fail(error) ==
    /\ status' = error
    /\ UNCHANGED <<file, phase, next, model, work, cache, stack>>

StartResolving(presets) ==
    /\ phase' = "resolve" /\ work' = presets /\ cache' = {}
    /\ UNCHANGED <<file, status, next, model, stack>>

More == next <= Len(file.includes)
Included == file.includes[next]

Loading(p) == status = "loading" /\ phase = p

ReadFile ==
    /\ Loading("read")
    /\ IF validateYAML(file.paths)
       THEN /\ phase' = "include"
            /\ UNCHANGED <<file, status, next, model, work, cache, stack>>
       ELSE Fail("invalid")

ReadTemplate ==
    /\ Loading("include") /\ More
    /\ CASE Included = Unreadable             -> Fail("unreadable")
         [] ~validateYAML(Included.paths)     -> Fail("invalid")
         [] OTHER                             -> StartResolving(Included.presets)

AllIncluded ==
    /\ Loading("include") /\ ~More
    /\ StartResolving(model.presets)

(* Calls of dfs. *)
Frame(name) == [name |-> name, parent |-> 1, result |-> <<>>]
Top == Last(stack)
Below == Front(stack)
Names(s) == {s[i].name : i \in DOMAIN s}

parseParents(extends) == Unrepeated(extends)
Parents(name) == parseParents(work[name].extends)
HasParentLeft == Top.parent <= Len(Parents(Top.name))
NextParent == Parents(Top.name)[Top.parent]

Call(name) ==
    /\ stack' = Append(stack, Frame(name))
    /\ UNCHANGED <<file, status, phase, next, model, work, cache>>

Pick ==
    /\ Loading("resolve") /\ stack = <<>>
    /\ \E name \in DOMAIN work \ cache : Call(name)

(* Mutant: only a preset that extends itself is found. *)
IsTop(name) == name = Top.name

OnStack(name) == name \in Names(stack)

Descend ==
    /\ Loading("resolve") /\ stack # <<>>
    /\ HasParentLeft /\ NextParent \notin cache
    /\ CASE OnStack(NextParent)          -> Fail("cycle")
         [] NextParent \notin DOMAIN work -> Fail("missing")
         [] OTHER                        -> Call(NextParent)

MergeParent ==
    /\ Loading("resolve") /\ stack # <<>>
    /\ HasParentLeft /\ NextParent \in cache
    /\ stack' = Append(Below, [Top EXCEPT !.parent = @ + 1,
                                          !.result = mergeFields(@, work[NextParent].fields)])
    /\ UNCHANGED <<file, status, phase, next, model, work, cache>>

(* Mutant: the cache is never filled. *)
CacheNothing(name) == cache

Cached(name) == cache \cup {name}

Leave ==
    /\ Loading("resolve") /\ stack # <<>> /\ ~HasParentLeft
    /\ work' = [work EXCEPT ![Top.name].fields = mergeFields(Top.result, @)]
    /\ cache' = Cached(Top.name)
    /\ stack' = Below
    /\ UNCHANGED <<file, status, phase, next, model>>

Resolved == Loading("resolve") /\ stack = <<>> /\ cache = DOMAIN work

IncludeTemplate ==
    /\ Resolved /\ More
    /\ model' = MergeTemplate(model, Included.relations, work)
    /\ phase' = "include" /\ next' = next + 1
    /\ UNCHANGED <<file, status, work, cache, stack>>

Register ==
    /\ Resolved /\ ~More
    /\ model' = [model EXCEPT !.presets = work]
    /\ status' = "ok"
    /\ UNCHANGED <<file, phase, next, work, cache, stack>>

Next ==
    \/ ReadFile \/ ReadTemplate \/ AllIncluded
    \/ Pick \/ Descend \/ MergeParent \/ Leave
    \/ IncludeTemplate \/ Register

(* The loader is sequential code: it takes the next step it can take.       *)
Spec == Init /\ [][Next]_vars /\ WF_vars(Next)
-----------------------------------------------------------------------------
(* What a set of presets means, without an order of work: the fields of a   *)
(* preset are those of its parents from left to right, each of them once,   *)
(* and then its own; a key stands where it first occurs and has the field   *)
(* that occurs last.                                                        *)
LastOf(fields, key) == Last(Keep(fields, {f \in ToSet(fields) : f.key = key}))
KeysOf(fields) == [i \in DOMAIN fields |-> fields[i].key]
Overridden(fields) ==
    LET keys == Unrepeated(KeysOf(fields))
    IN  [n \in DOMAIN keys |-> LastOf(fields, keys[n])]

ParentsIn(presets, p) == Keep(Unrepeated(presets[p].extends), DOMAIN presets)
Inherited(presets, p, fields) ==
    Overridden(FlattenSeq(Mapped(ParentsIn(presets, p), fields)) \o presets[p].fields)

(* Seen from the presets so many levels up. *)
MeaningTo(presets) ==
    LET fields[depth \in 0..Cardinality(DOMAIN presets)] ==
          [p \in DOMAIN presets |->
              IF depth = 0 THEN <<>> ELSE Inherited(presets, p, fields[depth - 1])]
    IN  fields

Meaning(presets) ==
    [p \in DOMAIN presets |->
        [presets[p] EXCEPT !.fields = MeaningTo(presets)[Cardinality(DOMAIN presets)][p]]]

Including(presets, t) ==
    LET given == Meaning(t.presets)
    IN  [p \in DOMAIN presets \cup DOMAIN given |->
            CASE p \notin DOMAIN given   -> presets[p]
              [] p \notin DOMAIN presets -> given[p]
              [] OTHER -> [presets[p] EXCEPT
                              !.fields = Overridden(NoSkip(given[p].fields) \o NoSkip(@))]]

(* The presets whose inheritance is resolved, the model's own last. *)
MergedTo(f) ==
    LET merged[n \in 0..Len(f.includes)] ==
          IF n = 0 THEN f.presets ELSE Including(merged[n - 1], f.includes[n])
    IN  merged
Merged(f) == MergedTo(f)[Len(f.includes)]
Scopes(f) == {f.includes[i].presets : i \in DOMAIN f.includes} \cup {Merged(f)}

Ancestors(presets, p) ==
    LET Up[depth \in 0..Cardinality(DOMAIN presets)] ==
            IF depth = 0 THEN ToSet(presets[p].extends)
            ELSE Up[depth - 1] \cup
                 UNION {ToSet(presets[q].extends) : q \in Up[depth - 1] \cap DOMAIN presets}
    IN  Up[Cardinality(DOMAIN presets)]
HasCycle(presets) == \E p \in DOMAIN presets : p \in Ancestors(presets, p)
HasMissing(presets) == \E p \in DOMAIN presets : ~(ToSet(presets[p].extends) \subseteq DOMAIN presets)

(* The grammar of model files: after the presets, fields and computables    *)
(* comes one of their keys, and a type is one of the types.                 *)
WellFormed(path) ==
    /\ path[1] \in AllowedKeys.model
    /\ path[1] = "relations" /\ Len(path) > 2 => path[3] \in AllowedKeys.relation
    /\ path[1] = "computable" /\ Len(path) > 2 => path[3] \in AllowedKeys.computable
    /\ path[1] = "aggregatable" /\ Len(path) > 2 => path[3] \in AllowedKeys.aggregatable
    /\ path[1] = "presets" /\ Len(path) > 2 => path[3] \in AllowedKeys.preset
    /\ path[1] = "presets" /\ Len(path) > 3 /\ path[3] = "fields" => path[4] \in AllowedKeys.field
    /\ path[1] = "computable" /\ Len(path) > 3 /\ path[3] = "type" => path[4] \in AllowedTypes
    /\ path[1] = "presets" /\ Len(path) > 4 /\ path[4] = "type" => path[5] \in AllowedTypes

(* Whatever the order of the map: a file that loads has no cycle, no        *)
(* missing parent and no unknown key, in no template either; one that does  *)
(* not load has the fault reported.  (LoadModelsFromDir)                    *)
FaultsFound ==
    LET texts == {file.paths} \cup {file.includes[i].paths : i \in DOMAIN file.includes}
        IsWellFormed(paths) == \A path \in paths : WellFormed(path)
    IN  /\ status = "ok" =>
              /\ \A paths \in texts : IsWellFormed(paths)
              /\ \A presets \in Scopes(file) : ~HasCycle(presets) /\ ~HasMissing(presets)
        /\ status = "invalid" => \E paths \in texts : ~IsWellFormed(paths)
        /\ status = "cycle" => HasCycle(work)
        /\ status = "missing" => HasMissing(work)

(* No call of dfs is for a preset another running call is for, nor for one  *)
(* that is resolved: the recursion is bounded.  (the map stack of           *)
(* resolvePresetInheritance)                                                *)
NoPresetTwice ==
    /\ \A i, j \in DOMAIN stack : stack[i].name = stack[j].name => i = j
    /\ Names(stack) \cap cache = {}

(* The presets of a file that loads mean what their text says.  (mergeFields*)
(* and the write-back into presets other presets still read)                *)
FieldsAsDeclared == status = "ok" => model.presets = Meaning(Merged(file))

(* The texts that give an attribute of a relation. *)
Giving(f, r, a) == {t \in Texts(f) : r \in DOMAIN t.relations /\ t.relations[r][a] # ""}

(* Every attribute of a relation is the model's, else that of the first     *)
(* template to give it.  (mergeRelation)                                    *)
RelationsAsDeclared ==
    status = "ok" =>
        \A r \in DOMAIN model.relations : \A a \in DOMAIN model.relations[r] :
            LET sources == Keep(<<file>> \o file.includes, Giving(file, r, a))
            IN  model.relations[r][a] = IF sources = <<>> THEN "" ELSE sources[1].relations[r][a]

(* Loading ends, whatever presets extend. *)
LoadingEnds == <>(status # "loading")

(* The manual: "model-local values win on conflicts".  A field the model    *)
(* gives to a preset also reaches the heirs that do not set it themselves.  *)
OverridesReachHeirs ==
    status = "ok" =>
        \A p \in DOMAIN file.presets : \A q \in DOMAIN model.presets :
            ToSet(model.presets[q].extends) = {p} =>
                \A i \in DOMAIN file.presets[p].fields :
                    LET f == file.presets[p].fields[i]
                        declared == {t.presets[q].fields : t \in {u \in ToSet(<<file>> \o file.includes) :
                                                                     q \in DOMAIN u.presets}}
                    IN  (\A fields \in declared : \A j \in DOMAIN fields : fields[j].key # f.key) =>
                            f \in ToSet(model.presets[q].fields)
=============================================================================
