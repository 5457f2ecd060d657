-------------------------- MODULE PresetGraphProofs --------------------------
(***************************************************************************)
(* Proofs about PresetGraph, for any registry of presets, any paths of     *)
(* filters and sorts, and any number of calls.                             *)
(***************************************************************************)
EXTENDS PresetGraph, CommonLemmas, SequenceTheorems

-----------------------------------------------------------------------------
(* The order of paths.                                                     *)

LEMMA BeforeIsStrict ==
    ASSUME NEW p \in Seq(Names)
    PROVE  ~Before(p, p)
  BY PresetGraphAssumption DEF Before

LEMMA BeforeIsTransitive ==
    ASSUME NEW p \in Seq(Names), NEW q \in Seq(Names), NEW r \in Seq(Names),
           Before(p, q), Before(q, r)
    PROVE  Before(p, r)
  <1>1. Len(p) \in Nat /\ Len(q) \in Nat /\ Len(r) \in Nat
    OBVIOUS
  <1>2. Len(p) <= Len(q) /\ Len(q) <= Len(r)
    BY <1>1 DEF Before
  <1>3. CASE Len(p) < Len(r)
    BY <1>3 DEF Before
  <1>4. CASE Len(p) = Len(r)
    <2>1. Len(p) = Len(q) /\ Len(q) = Len(r)
      BY <1>1, <1>2, <1>4
    <2>2. PICK i \in 1..Len(p) : Rank[p[i]] < Rank[q[i]] /\ \A j \in 1..(i - 1) : p[j] = q[j]
      BY <2>1 DEF Before
    <2>3. PICK k \in 1..Len(p) : Rank[q[k]] < Rank[r[k]] /\ \A j \in 1..(k - 1) : q[j] = r[j]
      BY <2>1 DEF Before
    <2>4. /\ Rank[p[i]] \in Nat /\ Rank[q[i]] \in Nat /\ Rank[r[i]] \in Nat
          /\ Rank[p[k]] \in Nat /\ Rank[q[k]] \in Nat /\ Rank[r[k]] \in Nat
      BY <2>1, PresetGraphAssumption
    <2>5. CASE i <= k
      <3>1. Rank[p[i]] < Rank[r[i]]
        <4>1. CASE i = k
          <5>1. Rank[p[i]] < Rank[q[i]] /\ Rank[q[i]] < Rank[r[i]]
            BY <2>2, <2>3, <4>1
          <5> QED
            BY <2>4, <5>1
        <4>2. CASE i < k
          <5>1. q[i] = r[i]
            BY <2>3, <4>2
          <5> QED
            BY <2>2, <5>1
        <4> QED
          BY <2>5, <4>1, <4>2
      <3>2. \A j \in 1..(i - 1) : p[j] = r[j]
        BY <2>2, <2>3, <2>5
      <3>3. i \in DOMAIN p
        BY <2>2
      <3> QED
        BY <3>1, <3>2, <3>3, <2>1, <1>4 DEF Before
    <2>6. CASE k < i
      <3>1. Rank[p[k]] < Rank[r[k]]
        <4>1. p[k] = q[k]
          BY <2>2, <2>6
        <4> QED
          BY <2>3, <4>1
      <3>2. \A j \in 1..(k - 1) : p[j] = r[j]
        BY <2>2, <2>3, <2>6
      <3>3. k \in DOMAIN p
        BY <2>3
      <3> QED
        BY <3>1, <3>2, <3>3, <2>1, <1>4 DEF Before
    <2> QED
      BY <2>5, <2>6
  <1> QED
    BY <1>1, <1>2, <1>3, <1>4

LEMMA BeforeIsTotal ==
    ASSUME NEW p \in Seq(Names), NEW q \in Seq(Names), p # q
    PROVE  Before(p, q) \/ Before(q, p)
  <1>1. CASE Len(p) # Len(q)
    BY <1>1 DEF Before
  <1>2. CASE Len(p) = Len(q)
    <2> DEFINE Differ == {i \in 1..Len(p) : p[i] # q[i]}
    <2>1. Differ # {} /\ Differ \subseteq Nat
      BY <1>2
    <2> DEFINE i == Min(Differ)
    <2>2. i \in Differ /\ \A k \in Differ : i <= k
      BY <2>1, MinOfNats
    <2> HIDE DEF i
    <2>3. i \in 1..Len(p) /\ p[i] # q[i] /\ \A j \in 1..(i - 1) : p[j] = q[j]
      BY <2>2
    <2>4. p[i] \in Names /\ q[i] \in Names
      BY <2>3, <1>2
    <2>5. Rank[p[i]] \in Nat /\ Rank[q[i]] \in Nat /\ Rank[p[i]] # Rank[q[i]]
      BY <2>3, <2>4, PresetGraphAssumption DEF IsInjective
    <2> QED
      BY <2>3, <2>5, <1>2 DEF Before
  <1> QED
    BY <1>1, <1>2

(* Paths are numbered apart, from 0 on without reaching their count twice. *)
LEMMA NumbersDiffer ==
    ASSUME NEW S \in SUBSET Seq(Names), IsFiniteSet(S)
    PROVE  /\ DOMAIN Numbered(S) = S
           /\ IsInjective(Numbered(S))
           /\ Cardinality(S) \in Nat
           /\ \A p \in S : Numbered(S)[p] \in 0..Cardinality(S)
  <1> DEFINE Less(p) == {q \in S : Before(q, p)}
  <1>1. Cardinality(S) \in Nat
    BY FS_CardinalityType
  <1>2. \A p \in S : /\ IsFiniteSet(Less(p)) /\ Cardinality(Less(p)) \in Nat
                     /\ Cardinality(Less(p)) <= Cardinality(S)
    BY FS_Subset, FS_CardinalityType
  <1>3. ASSUME NEW p \in S, NEW q \in S, Before(p, q)
        PROVE  Cardinality(Less(p)) # Cardinality(Less(q))
    <2>1. Less(p) \subseteq Less(q)
      BY <1>3, BeforeIsTransitive
    <2>2. p \in Less(q) /\ p \notin Less(p)
      BY <1>3, BeforeIsStrict
    <2> QED
      BY <1>2, <2>1, <2>2, FS_Subset
  <1>4. \A p \in S : Numbered(S)[p] = Cardinality(Less(p))
    BY DEF Numbered
  <1>5. \A p, q \in S : p # q => Numbered(S)[p] # Numbered(S)[q]
    BY <1>3, <1>4, BeforeIsTotal
  <1>6. DOMAIN Numbered(S) = S
    BY DEF Numbered
  <1>7. IsInjective(Numbered(S))
    BY <1>5, <1>6 DEF IsInjective
  <1>8. ASSUME NEW p \in S
        PROVE  Numbered(S)[p] \in 0..Cardinality(S)
    <2> HIDE DEF Less
    <2>1. Cardinality(Less(p)) \in Nat /\ Cardinality(Less(p)) <= Cardinality(S)
      BY <1>2
    <2> QED
      BY <1>1, <1>4, <2>1
  <1> HIDE DEF Less
  <1> QED
    BY <1>1, <1>6, <1>7, <1>8

-----------------------------------------------------------------------------
(* Paths and the models on their way.                                      *)

Prefixed(S) == \A path \in S : Prefixes(path) \subseteq S

LEMMA PrefixesOfAppend ==
    ASSUME NEW path \in Seq(Names), NEW s \in Names
    PROVE  /\ Append(path, s) \in Seq(Names)
           /\ Prefixes(Append(path, s)) = Prefixes(path) \cup {Append(path, s)}
           /\ Prefixes(<<>>) = {}
  <1> DEFINE longer == Append(path, s)
  <1>1. /\ longer \in Seq(Names) /\ Len(longer) = Len(path) + 1 /\ Len(path) \in Nat
        /\ \A i \in 1..Len(path) : longer[i] = path[i]
    OBVIOUS
  <1>2. \A n \in 1..Len(path) : SubSeq(longer, 1, n) = SubSeq(path, 1, n)
    BY <1>1
  <1>3. SubSeq(longer, 1, Len(longer)) = longer
    BY <1>1
  <1>4. 1..Len(longer) = 1..Len(path) \cup {Len(longer)}
    BY <1>1
  <1>5. Prefixes(longer) = {SubSeq(longer, 1, n) : n \in 1..Len(path)} \cup {longer}
    <2> HIDE DEF longer
    <2> QED
      BY <1>3, <1>4 DEF Prefixes
  <1>6. {SubSeq(longer, 1, n) : n \in 1..Len(path)} = Prefixes(path)
    <2> HIDE DEF longer
    <2> QED
      BY <1>2 DEF Prefixes
  <1>7. Prefixes(<<>>) = {}
    BY DEF Prefixes
  <1> QED
    BY <1>1, <1>5, <1>6, <1>7

(* ms are the models a path comes to, beginning with m. *)
Way(m, path, ms) ==
    /\ ms[1] = m
    /\ \A i \in 1..Len(path) :
          /\ Declared(ms[i], path[i]) /\ ~Polymorphic(ms[i], path[i])
          /\ ms[i + 1] = Rel(ms[i], path[i]).to

Leads(m, path) == \E ms \in Seq(Models) : Len(ms) = Len(path) + 1 /\ Way(m, path, ms)

(* One relation further. *)
LEMMA WayOfAppend ==
    ASSUME NEW m, NEW path \in Seq(Names), NEW ms \in Seq(Models), Len(ms) = Len(path) + 1,
           Way(m, path, ms), NEW s \in Names,
           Declared(ms[Len(ms)], s), ~Polymorphic(ms[Len(ms)], s),
           NEW to \in Models, to = Rel(ms[Len(ms)], s).to
    PROVE  /\ Way(m, Append(path, s), Append(ms, to))
           /\ Append(ms, to) \in Seq(Models)
           /\ Len(Append(ms, to)) = Len(Append(path, s)) + 1
           /\ Append(ms, to)[Len(Append(ms, to))] = to
  <1> DEFINE path2 == Append(path, s)
             ms2 == Append(ms, to)
  <1>1. /\ Len(path) \in Nat /\ Len(path2) = Len(path) + 1
        /\ \A i \in 1..Len(path) : path2[i] = path[i]
        /\ path2[Len(path) + 1] = s
    OBVIOUS
  <1>2. /\ ms2 \in Seq(Models) /\ Len(ms2) = Len(ms) + 1
        /\ \A i \in 1..Len(ms) : ms2[i] = ms[i]
        /\ ms2[Len(ms) + 1] = to
    OBVIOUS
  <1> HIDE DEF path2, ms2
  <1>3. ms2[1] = m
    BY <1>1, <1>2 DEF Way
  <1>4. ASSUME NEW i \in 1..Len(path2)
        PROVE  /\ Declared(ms2[i], path2[i]) /\ ~Polymorphic(ms2[i], path2[i])
               /\ ms2[i + 1] = Rel(ms2[i], path2[i]).to
    <2>1. CASE i \in 1..Len(path)
      BY <1>1, <1>2, <2>1 DEF Way
    <2>2. CASE i = Len(path) + 1
      BY <1>1, <1>2, <2>2
    <2> QED
      BY <1>1, <2>1, <2>2
  <1>5. Way(m, path2, ms2)
    BY <1>3, <1>4 DEF Way
  <1> QED
    BY <1>1, <1>2, <1>5 DEF path2, ms2

-----------------------------------------------------------------------------
(* The invariant.                                                          *)

Called == phase \in {"alias", "scan", "tails", "unjoined", "refused"}

(* What was found to be in order at the link stays so. *)
Linked == phase \notin {"link", "failed"} => Linkable

(* A frame without fault, from which the walk goes on to frames of S. *)
Passed(fr, S) ==
    \A f \in Fields(fr.preset) :
        /\ ~Invalid(fr, f)
        /\ ~Polymorphic(fr.preset[1], f.source) /\ ~Capped(fr, f) => ChildFrame(fr, f) \in S

(* What validation has seen leads to what it has seen or is about to see;   *)
(* the collection of paths stays within what validation has seen.           *)
ValidInv ==
    /\ phase = "validate" => \E seen : /\ RootFrames \subseteq seen \cup todo
                                       /\ \A fr \in seen : Passed(fr, seen \cup todo)
    /\ phase = "collect" => \E seen : todo \subseteq seen /\ \A fr \in seen : Passed(fr, seen)

(* The paths collected for a preset. *)
PathsInv ==
    /\ paths \in [Presets -> SUBSET Seq(Names)]
    /\ \A p \in Presets : /\ IsFiniteSet(paths[p])
                          /\ Prefixed(paths[p])
                          /\ \A path \in paths[p] : Leads(p[1], path)

(* The place of a walk at startup. *)
Standing(fr) ==
    /\ fr.root \in Presets /\ fr.preset \in Presets
    /\ fr.path \in Seq(Names) /\ fr.stack \in Seq(Models)
    /\ Len(fr.stack) = Len(fr.path) + 1
    /\ Way(fr.root[1], fr.path, fr.stack)
    /\ fr.stack[Len(fr.stack)] = fr.preset[1]

Placed(fr) == Standing(fr) /\ (fr.path = <<>> \/ fr.path \in paths[fr.root])

CollectInv == phase = "collect" => IsFiniteSet(todo) /\ \A fr \in todo : Placed(fr)

MapsInv == phase = "ready" \/ Called => maps = [p \in Presets |-> Numbered(paths[p])]

(* The alias map of a call: the paths of its preset, and what was added. *)
MapOK ==
    /\ aliasMap \in [DOMAIN aliasMap -> Nat]
    /\ DOMAIN aliasMap \subseteq Seq(Names) /\ IsFiniteSet(DOMAIN aliasMap)
    /\ IsInjective(aliasMap) /\ Prefixed(DOMAIN aliasMap)
    /\ paths[preset] \subseteq DOMAIN aliasMap
    /\ nextIdx \in Nat

(* ensureAliasPath has registered the prefixes so far, and if the path is   *)
(* one that leads somewhere, is at the model it leads to.                   *)
CursorOK ==
    /\ cursor \in [path : Seq(Names), done : Nat, stack : Seq(Models)]
    /\ cursor.done <= Len(cursor.path) /\ Len(cursor.stack) = cursor.done
    /\ \A n \in 1..cursor.done : SubSeq(cursor.path, 1, n) \in DOMAIN aliasMap
    /\ \A ms : Way(preset[1], cursor.path, ms) =>
          \A i \in 1..cursor.done : cursor.stack[i] = ms[i + 1]

TailOK(t) == t.frame.preset \in Presets /\ t.field \in PresetFields(t.frame.preset)

CallInv ==
    IF Called
    THEN /\ preset \in Presets
         /\ extra \subseteq Seq(Names)
         /\ MapOK /\ CursorOK
         /\ phase = "scan" => \A fr \in todo : fr.preset \in Presets
         /\ \A t \in tails : TailOK(t)
         /\ PresetPathsAccepted
    ELSE aliasMap = EmptyMap

IndInv ==
    /\ registry \in Registries
    /\ Linked
    /\ ValidInv
    /\ PathsInv
    /\ CollectInv
    /\ MapsInv
    /\ CallInv

-----------------------------------------------------------------------------
(* What follows from the registry alone.                                   *)

LEMMA LinkedField ==
    ASSUME registry \in Registries, Linkable,
           NEW p \in Presets, NEW f \in PresetFields(p), ~Polymorphic(p[1], f.source)
    PROVE  /\ Declared(p[1], f.source) /\ f.source \in Names
           /\ NestedOf(p, f) \in Presets
           /\ NestedOf(p, f)[1] = Rel(p[1], f.source).to
           /\ Rel(p[1], f.source).to \in Models
  <1>1. f.source \in Names
    BY RegistriesAssumption DEF Presets, PresetFields, Fields
  <1>2. Declared(p[1], f.source) /\ NestedOf(p, f) \in Presets
    BY DEF Linkable
  <1>3. NestedOf(p, f)[1] = Rel(p[1], f.source).to
    BY DEF NestedOf
  <1>4. NestedOf(p, f)[1] \in Models
    BY <1>2, RegistriesAssumption DEF Presets
  <1> QED
    BY <1>1, <1>2, <1>3, <1>4

LEMMA ChildStands ==
    ASSUME registry \in Registries, Linkable, NEW fr, Standing(fr), NEW f \in Collected(fr)
    PROVE  /\ Standing(ChildFrame(fr, f))
           /\ ChildFrame(fr, f).root = fr.root
           /\ ChildFrame(fr, f).path = Append(fr.path, f.source)
           /\ f.source \in Names
           /\ Leads(fr.root[1], Append(fr.path, f.source))
  <1> DEFINE to == Rel(fr.preset[1], f.source).to
             child == ChildFrame(fr, f)
  <1>1. /\ fr.preset \in Presets /\ f \in PresetFields(fr.preset)
        /\ ~Polymorphic(fr.preset[1], f.source)
    BY DEF Standing, Collected
  <1>2. /\ Declared(fr.preset[1], f.source) /\ f.source \in Names
        /\ NestedOf(fr.preset, f) \in Presets /\ NestedOf(fr.preset, f)[1] = to /\ to \in Models
    BY <1>1, LinkedField
  <1>3. /\ child.root = fr.root /\ child.preset = NestedOf(fr.preset, f)
        /\ child.path = Append(fr.path, f.source)
        /\ child.stack = Append(fr.stack, to)
    BY <1>2 DEF ChildFrame
  <1> HIDE DEF child
  <1>4. /\ Way(fr.root[1], Append(fr.path, f.source), Append(fr.stack, to))
        /\ Append(fr.stack, to) \in Seq(Models)
        /\ Len(Append(fr.stack, to)) = Len(Append(fr.path, f.source)) + 1
        /\ Append(fr.stack, to)[Len(Append(fr.stack, to))] = to
    <2> HIDE DEF to
    <2>1. fr.stack[Len(fr.stack)] = fr.preset[1] /\ to = Rel(fr.preset[1], f.source).to
      BY DEF Standing, to
    <2>2. /\ fr.path \in Seq(Names) /\ fr.stack \in Seq(Models)
          /\ Len(fr.stack) = Len(fr.path) + 1 /\ Way(fr.root[1], fr.path, fr.stack)
      BY DEF Standing
    <2>3. /\ Declared(fr.stack[Len(fr.stack)], f.source)
          /\ ~Polymorphic(fr.stack[Len(fr.stack)], f.source)
          /\ to = Rel(fr.stack[Len(fr.stack)], f.source).to
      BY <1>1, <1>2, <2>1
    <2>4. f.source \in Names /\ to \in Models
      BY <1>2
    <2> QED
      BY <2>2, <2>3, <2>4, WayOfAppend
  <1>5. Append(fr.path, f.source) \in Seq(Names)
    BY <1>2 DEF Standing
  <1>6. Standing(child)
    BY <1>2, <1>3, <1>4, <1>5 DEF Standing
  <1>7. Leads(fr.root[1], Append(fr.path, f.source))
    BY <1>4 DEF Leads
  <1> QED
    BY <1>2, <1>3, <1>6, <1>7 DEF child

LEMMA RootsStand ==
    ASSUME registry \in Registries
    PROVE  /\ IsFiniteSet(RootFrames)
           /\ \A fr \in RootFrames : Standing(fr) /\ fr.path = <<>>
  <1>1. ASSUME NEW p \in Presets
        PROVE  Standing(RootFrame(p, <<p[1]>>)) /\ RootFrame(p, <<p[1]>>).path = <<>>
    <2>1. p[1] \in Models
      BY RegistriesAssumption DEF Presets
    <2>2. <<p[1]>> \in Seq(Models) /\ Len(<<p[1]>>) = 1 /\ <<p[1]>>[1] = p[1]
      BY <2>1
    <2>3. <<>> \in Seq(Names) /\ Len(<<>>) = 0
      OBVIOUS
    <2> QED
      BY <2>1, <2>2, <2>3 DEF RootFrame, Standing, Way
  <1>2. IsFiniteSet(RootFrames)
    <2> DEFINE frame == [p \in Presets |-> RootFrame(p, <<p[1]>>)]
    <2>1. IsFiniteSet(Presets)
      BY RegistriesAssumption DEF Presets
    <2>2. IsFiniteSet({frame[p] : p \in Presets})
      BY <2>1, FiniteImage
    <2>3. RootFrames = {frame[p] : p \in Presets}
      BY DEF RootFrames
    <2> QED
      BY <2>2, <2>3
  <1> QED
    BY <1>1, <1>2 DEF RootFrames

(* A place is followed by finitely many. *)
LEMMA FinitelyManyCollected ==
    ASSUME registry \in Registries, NEW fr, fr.preset \in Presets
    PROVE  IsFiniteSet(Collected(fr))
  <1>1. IsFiniteSet(Fields(fr.preset))
    BY RegistriesAssumption DEF Presets, Fields
  <1>2. Collected(fr) \subseteq Fields(fr.preset)
    BY DEF Collected, PresetFields
  <1> QED
    BY <1>1, <1>2, FS_Subset

(* As long as the registry stays, so does what is said about it alone. *)
LEMMA SameRegistry ==
    ASSUME registry' = registry
    PROVE  /\ Presets' = Presets /\ RootFrames' = RootFrames
           /\ Linkable' <=> Linkable
           /\ \A m, path, ms : Way(m, path, ms)' <=> Way(m, path, ms)
           /\ \A m, path : Leads(m, path)' <=> Leads(m, path)
           /\ \A fr : Standing(fr)' <=> Standing(fr)
           /\ \A fr, S : Passed(fr, S)' <=> Passed(fr, S)
           /\ \A t : TailOK(t)' <=> TailOK(t)
  <1>1. \A m, path, ms : Way(m, path, ms)' <=> Way(m, path, ms)
    BY DEF Way, Declared, Polymorphic, Rel
  <1>2. Presets' = Presets /\ RootFrames' = RootFrames
    BY DEF RootFrames, Presets
  <1>3. \A p : PresetFields(p)' = PresetFields(p) /\ Fields(p)' = Fields(p)
    BY DEF PresetFields, Fields
  <1>4. Linkable' <=> Linkable
    BY <1>2, <1>3 DEF Linkable, Declared, Polymorphic, Rel, NestedOf
  <1>5. \A fr, S : Passed(fr, S)' <=> Passed(fr, S)
    <2>1. /\ \A m, r : Declared(m, r)' <=> Declared(m, r)
          /\ \A m, r : Rel(m, r)' = Rel(m, r)
          /\ \A m, r : Polymorphic(m, r)' <=> Polymorphic(m, r)
          /\ \A p, f : NestedOf(p, f)' = NestedOf(p, f)
      BY DEF Declared, Rel, Polymorphic, NestedOf
    <2>2. \A fr, f : Reenters(fr, f)' <=> Reenters(fr, f)
      BY <2>1 DEF Reenters
    <2>3. \A fr, f : Capped(fr, f)' <=> Capped(fr, f)
      BY <2>1, <2>2 DEF Capped, DepthReached
    <2>4. \A fr, f : ChildFrame(fr, f)' = ChildFrame(fr, f)
      BY <2>1 DEF ChildFrame
    <2>5. \A fr, f : Invalid(fr, f)' <=> Invalid(fr, f)
      BY <1>2, <2>1, <2>2 DEF Invalid
    <2> QED
      BY <1>3, <2>1, <2>3, <2>4, <2>5 DEF Passed
  <1>6. \A fr : Standing(fr)' <=> Standing(fr)
    BY <1>1, <1>2 DEF Standing
  <1>7. \A m, path : Leads(m, path)' <=> Leads(m, path)
    BY <1>1 DEF Leads
  <1>8. \A t : TailOK(t)' <=> TailOK(t)
    BY <1>2, <1>3 DEF TailOK
  <1> QED
    BY <1>1, <1>2, <1>4, <1>5, <1>6, <1>7, <1>8

LEMMA SamePaths ==
    ASSUME registry' = registry, paths' = paths, PathsInv
    PROVE  /\ PathsInv'
           /\ \A fr : Placed(fr)' <=> Placed(fr)
  BY SameRegistry DEF PathsInv, Placed, Prefixed

-----------------------------------------------------------------------------
(* Startup.                                                                *)

LEMMA InvInit ==
    ASSUME Init
    PROVE  IndInv
  <1>1. PathsInv
    <2>1. \A p \in Presets : paths[p] = {}
      BY DEF Init
    <2>2. paths \in [Presets -> SUBSET Seq(Names)]
      BY DEF Init
    <2> QED
      BY <2>1, <2>2, FS_EmptySet DEF PathsInv, Prefixed
  <1> QED
    BY <1>1 DEF Init, IndInv, Linked, ValidInv, CollectInv, MapsInv, CallInv, Called

LEMMA LinkStep ==
    ASSUME IndInv, Link
    PROVE  IndInv'
  <1>1. /\ registry' = registry /\ paths' = paths /\ aliasMap' = aliasMap /\ phase = "link"
        /\ \/ phase' = "validate" /\ todo' = RootFrames /\ Linkable
           \/ phase' = "failed"
    BY DEF Link, startVars, callVars
  <1>2. PathsInv'
    BY <1>1, SamePaths DEF IndInv
  <1>3. ValidInv'
    <2>1. PICK seen : seen = {}
      OBVIOUS
    <2>2. phase' = "validate" =>
            RootFrames' \subseteq seen \cup todo' /\ \A fr \in seen : Passed(fr, seen \cup todo)'
      BY <1>1, <2>1, SameRegistry
    <2>3. phase' # "collect"
      BY <1>1
    <2> QED
      BY <2>2, <2>3 DEF ValidInv
  <1>4. Linked'
    BY <1>1, SameRegistry DEF Linked
  <1> QED
    BY <1>1, <1>2, <1>3, <1>4 DEF IndInv, CollectInv, MapsInv, CallInv, Called

LEMMA ValidateStep ==
    ASSUME IndInv, Validate
    PROVE  IndInv'
  <1> DEFINE bad == \E fr \in todo : \E f \in Fields(fr.preset) : Invalid(fr, f)
             next == UNION {{ChildFrame(fr, f) : f \in {g \in Fields(fr.preset) :
                                ~Polymorphic(fr.preset[1], g.source) /\ ~Capped(fr, g)}} :
                            fr \in todo}
  <1>1. /\ registry' = registry /\ paths' = paths /\ aliasMap' = aliasMap /\ phase = "validate"
        /\ \/ phase' = "validate" /\ todo' = next /\ ~bad
           \/ phase' = "failed"
    BY DEF Validate, startVars, callVars
  <1>2. PathsInv'
    BY <1>1, SamePaths DEF IndInv
  <1>3. Linked'
    BY <1>1, SameRegistry DEF Linked, IndInv
  <1>4. ValidInv'
    <2> SUFFICES ASSUME phase' = "validate"
                 PROVE  \E seen : /\ RootFrames' \subseteq seen \cup todo'
                                  /\ \A fr \in seen : Passed(fr, seen \cup todo)'
      BY <1>1 DEF ValidInv
    <2>1. todo' = next /\ ~bad
      BY <1>1
    <2>2. PICK seen : /\ RootFrames \subseteq seen \cup todo
                      /\ \A fr \in seen : Passed(fr, seen \cup todo)
      BY <1>1 DEF IndInv, ValidInv
    <2>3. ASSUME NEW fr \in todo
          PROVE  Passed(fr, (seen \cup todo) \cup next)
      BY <2>1 DEF Passed
    <2>4. ASSUME NEW fr \in seen
          PROVE  Passed(fr, (seen \cup todo) \cup next)
      BY <2>2 DEF Passed
    (* seen2 and ahead are the sets of this step, whatever comes after it. *)
    <2> DEFINE more == seen \cup todo
    <2>5. PICK seen2 : seen2 = more
      OBVIOUS
    <2>6. \A fr \in seen2 : Passed(fr, seen2 \cup next)
      BY <2>3, <2>4, <2>5
    <2>7. PICK ahead : ahead = next
      OBVIOUS
    <2>8. \A fr \in seen2 : Passed(fr, seen2 \cup ahead)'
      BY <1>1, <2>6, <2>7, SameRegistry
    <2>9. \A fr \in seen2 : Passed(fr, seen2 \cup todo)'
      BY <2>1, <2>7, <2>8
    <2>10. RootFrames' \subseteq seen2 \cup todo'
      BY <1>1, <2>2, <2>5, SameRegistry
    <2> QED
      BY <2>9, <2>10
  <1> QED
    BY <1>1, <1>2, <1>3, <1>4 DEF IndInv, CollectInv, MapsInv, CallInv, Called

LEMMA StartCollectingStep ==
    ASSUME IndInv, StartCollecting
    PROVE  IndInv'
  <1>1. /\ registry' = registry /\ paths' = paths /\ aliasMap' = aliasMap /\ phase = "validate"
        /\ phase' = "collect" /\ todo = {} /\ todo' = RootFrames
    BY DEF StartCollecting, startVars, callVars
  <1>2. PathsInv'
    BY <1>1, SamePaths DEF IndInv
  <1>3. Linked'
    BY <1>1, SameRegistry DEF Linked, IndInv
  <1>4. ValidInv'
    <2>1. PICK seen : /\ RootFrames \subseteq seen \cup todo
                      /\ \A fr \in seen : Passed(fr, seen \cup todo)
      BY <1>1 DEF IndInv, ValidInv
    <2>2. todo' \subseteq seen /\ \A fr \in seen : Passed(fr, seen)'
      <3>1. seen \cup todo = seen
        BY <1>1
      <3> QED
        BY <1>1, <2>1, <3>1, SameRegistry
    <2> QED
      BY <1>1, <2>2 DEF ValidInv
  <1>5. CollectInv'
    <2>1. \A fr \in todo' : Placed(fr)'
      BY <1>1, RootsStand, SamePaths DEF IndInv, Placed
    <2>2. IsFiniteSet(todo')
      BY <1>1, RootsStand DEF IndInv
    <2> QED
      BY <2>1, <2>2 DEF CollectInv
  <1> QED
    BY <1>1, <1>2, <1>3, <1>4, <1>5 DEF IndInv, MapsInv, CallInv, Called

(* The paths that the places of one depth add to those of preset p. *)
Found(p) ==
    UNION {{Append(fr.path, f.source) : f \in Collected(fr)} : fr \in {g \in todo : g.root = p}}

LEMMA FoundInOrder ==
    ASSUME IndInv, phase = "collect", NEW p \in Presets
    PROVE  /\ IsFiniteSet(Found(p)) /\ Found(p) \subseteq Seq(Names)
           /\ Prefixed(paths[p] \cup Found(p))
           /\ \A path \in Found(p) : Leads(p[1], path)
  <1> DEFINE here == {g \in todo : g.root = p}
             added(fr) == {Append(fr.path, f.source) : f \in Collected(fr)}
  <1>1. registry \in Registries /\ Linkable /\ IsFiniteSet(todo) /\ PathsInv
    BY DEF IndInv, Linked, CollectInv
  <1>2. \A fr \in here : Placed(fr) /\ Standing(fr) /\ fr.root = p
    BY DEF IndInv, CollectInv, Placed
  <1>3. IsFiniteSet(Found(p))
    <2>1. ASSUME NEW fr \in here
          PROVE  IsFiniteSet(added(fr))
      <3> DEFINE path == [f \in Collected(fr) |-> Append(fr.path, f.source)]
      <3>1. IsFiniteSet(Collected(fr))
        BY <1>1, <1>2, FinitelyManyCollected DEF Standing
      <3>2. IsFiniteSet({path[f] : f \in Collected(fr)})
        BY <3>1, FiniteImage
      <3> QED
        BY <3>2
    <2> DEFINE g == [fr \in here |-> added(fr)]
    <2>2. IsFiniteSet(here)
      BY <1>1, FS_Subset
    <2>3. IsFiniteSet(UNION {g[fr] : fr \in here})
      <3>1. \A fr \in here : IsFiniteSet(g[fr])
        BY <2>1
      <3>2. DOMAIN g = here /\ g \in [here -> {g[fr] : fr \in here}]
        OBVIOUS
      <3> HIDE DEF g, here, added
      <3> QED
        BY <2>2, <3>1, <3>2, FiniteUnion
    <2>4. {g[fr] : fr \in here} = {added(fr) : fr \in here}
      OBVIOUS
    <2> QED
      BY <2>3, <2>4 DEF Found
  <1>4. ASSUME NEW path \in Found(p)
        PROVE  /\ path \in Seq(Names) /\ Leads(p[1], path)
               /\ Prefixes(path) \subseteq paths[p] \cup Found(p)
    <2>0. PICK fr \in here : \E f \in Collected(fr) : path = Append(fr.path, f.source)
      BY DEF Found
    <2>1. PICK f \in Collected(fr) : path = Append(fr.path, f.source)
      BY <2>0
    <2>2. /\ f.source \in Names /\ Leads(fr.root[1], path) /\ fr.path \in Seq(Names)
      BY <1>1, <1>2, <2>1, ChildStands DEF Standing
    <2>3. path \in Seq(Names) /\ Prefixes(path) = Prefixes(fr.path) \cup {path}
      BY <2>1, <2>2, PrefixesOfAppend
    <2>4. Prefixes(fr.path) \subseteq paths[p]
      <3>1. CASE fr.path = <<>>
        BY <2>2, <3>1, PrefixesOfAppend
      <3>2. CASE fr.path \in paths[p]
        BY <1>1, <3>2 DEF PathsInv, Prefixed
      <3> QED
        BY <1>2, <3>1, <3>2 DEF Placed
    <2> QED
      BY <1>2, <2>2, <2>3, <2>4
  <1>5. Prefixed(paths[p] \cup Found(p))
    BY <1>1, <1>4 DEF PathsInv, Prefixed
  <1> QED
    BY <1>3, <1>4, <1>5

LEMMA CollectStep ==
    ASSUME IndInv, Collect
    PROVE  IndInv'
  <1> DEFINE next(fr) == {ChildFrame(fr, f) : f \in {g \in Collected(fr) : ~Cut(fr, g)}}
  <1>1. /\ registry' = registry /\ aliasMap' = aliasMap /\ phase = "collect" /\ phase' = "collect"
        /\ paths' = [p \in Presets |-> paths[p] \cup Found(p)]
        /\ todo' = UNION {next(fr) : fr \in todo}
    BY DEF Collect, callVars, Found
  <1>2. registry \in Registries /\ Linkable /\ IsFiniteSet(todo) /\ PathsInv
    BY <1>1 DEF IndInv, Linked, CollectInv
  <1>3. \A fr \in todo : Placed(fr) /\ Standing(fr)
    BY <1>1 DEF IndInv, CollectInv, Placed
  <1>4. PathsInv'
    <2>1. paths' \in [Presets -> SUBSET Seq(Names)]
      BY <1>1, <1>2, FoundInOrder DEF PathsInv
    <2>2. ASSUME NEW p \in Presets
          PROVE  /\ IsFiniteSet(paths'[p])
                 /\ Prefixed(paths'[p])
                 /\ \A path \in paths'[p] : Leads(p[1], path)
      <3>1. paths'[p] = paths[p] \cup Found(p)
        BY <1>1
      <3>2. IsFiniteSet(paths[p] \cup Found(p))
        BY <1>1, <1>2, FoundInOrder, FS_Union DEF PathsInv
      <3>3. \A path \in paths[p] \cup Found(p) : Leads(p[1], path)
        BY <1>1, <1>2, FoundInOrder DEF PathsInv
      <3> QED
        BY <1>1, <3>1, <3>2, <3>3, FoundInOrder
    <2>3. Presets' = Presets /\ \A m, path : Leads(m, path)' <=> Leads(m, path)
      BY <1>1, SameRegistry
    <2> QED
      BY <2>1, <2>2, <2>3 DEF PathsInv, Prefixed, Prefixes
  <1>5. CollectInv'
    <2>1. ASSUME NEW fr \in todo, NEW f \in Collected(fr)
          PROVE  Placed(ChildFrame(fr, f))'
      <3> DEFINE child == ChildFrame(fr, f)
      <3>1. Standing(child) /\ child.root = fr.root /\ child.path = Append(fr.path, f.source)
        BY <1>2, <1>3, ChildStands
      <3>2. fr.root \in Presets
        BY <1>3 DEF Standing
      <3>3. Append(fr.path, f.source) \in Found(fr.root)
        BY DEF Found
      <3>4. child.path \in paths'[child.root]
        BY <1>1, <3>1, <3>2, <3>3
      <3>5. PICK c : c = child
        OBVIOUS
      <3>6. Placed(c)'
        BY <1>1, <3>1, <3>4, <3>5, SameRegistry DEF Placed
      <3>7. child' = child
        BY <1>1 DEF ChildFrame, NestedOf, Rel
      <3> QED
        BY <3>5, <3>6, <3>7
    <2>2. \A fr \in todo' : Placed(fr)'
      <3>1. \A fr, f : ChildFrame(fr, f)' = ChildFrame(fr, f)
        BY <1>1 DEF ChildFrame, NestedOf, Rel
      <3> QED
        BY <1>1, <2>1, <3>1
    <2>3. IsFiniteSet(todo')
      <3>1. ASSUME NEW fr \in todo
            PROVE  IsFiniteSet(next(fr))
        <4> DEFINE going == {g \in Collected(fr) : ~Cut(fr, g)}
                   child == [f \in going |-> ChildFrame(fr, f)]
        <4>1. IsFiniteSet(going)
          BY <1>2, <1>3, FinitelyManyCollected, FS_Subset DEF Standing
        <4>2. IsFiniteSet({child[f] : f \in going})
          BY <4>1, FiniteImage
        <4> QED
          BY <4>2
      <3> DEFINE g == [fr \in todo |-> next(fr)]
      <3>2. IsFiniteSet(UNION {g[fr] : fr \in todo})
        <4>1. \A fr \in todo : IsFiniteSet(g[fr])
          BY <3>1
        <4>2. DOMAIN g = todo /\ g \in [todo -> {g[fr] : fr \in todo}]
          OBVIOUS
        <4> HIDE DEF g, next
        <4> QED
          BY <1>2, <4>1, <4>2, FiniteUnion
      <3>3. {g[fr] : fr \in todo} = {next(fr) : fr \in todo}
        OBVIOUS
      <3> QED
        BY <1>1, <3>2, <3>3
    <2> QED
      BY <2>2, <2>3 DEF CollectInv
  <1>6. ValidInv'
    <2>1. PICK seen : todo \subseteq seen /\ \A fr \in seen : Passed(fr, seen)
      BY <1>1 DEF IndInv, ValidInv
    <2>2. ASSUME NEW fr \in todo, NEW f \in Collected(fr), ~Cut(fr, f)
          PROVE  ChildFrame(fr, f) \in seen
      <3>1. f \in Fields(fr.preset) /\ ~Polymorphic(fr.preset[1], f.source)
        BY DEF Collected, PresetFields
      <3>2. ~Capped(fr, f)
        BY <2>2 DEF Capped, Cut
      <3> QED
        BY <2>1, <3>1, <3>2 DEF Passed
    <2>3. todo' \subseteq seen /\ \A fr \in seen : Passed(fr, seen)'
      BY <1>1, <2>1, <2>2, SameRegistry
    <2> QED
      BY <1>1, <2>3 DEF ValidInv
  <1>7. Linked'
    BY <1>1, SameRegistry DEF Linked, IndInv
  <1> QED
    BY <1>1, <1>4, <1>5, <1>6, <1>7 DEF IndInv, MapsInv, CallInv, Called

LEMMA FinishStep ==
    ASSUME IndInv, FinishStartup
    PROVE  IndInv'
  <1>1. /\ registry' = registry /\ paths' = paths /\ aliasMap' = aliasMap /\ phase = "collect"
        /\ phase' = "ready" /\ maps' = [p \in Presets |-> Numbered(paths[p])]
    BY DEF FinishStartup, callVars
  <1>2. PathsInv'
    BY <1>1, SamePaths DEF IndInv
  <1>3. Linked'
    BY <1>1, SameRegistry DEF Linked, IndInv
  <1>4. MapsInv'
    BY <1>1, SameRegistry DEF MapsInv, Numbered
  <1> QED
    BY <1>1, <1>2, <1>3, <1>4 DEF IndInv, ValidInv, CollectInv, CallInv, Called

-----------------------------------------------------------------------------
(* Calls.                                                                  *)

(* A call disturbs nothing that startup has found out. *)
LEMMA StartupKept ==
    ASSUME IndInv, UNCHANGED startVars, phase = "ready" \/ Called, (phase = "ready" \/ Called)',
           CallInv'
    PROVE  IndInv'
  <1>1. registry' = registry /\ paths' = paths /\ maps' = maps
    BY DEF startVars
  <1>2. PathsInv'
    BY <1>1, SamePaths DEF IndInv
  <1>3. Linked'
    BY <1>1, SameRegistry DEF IndInv, Linked, Called
  <1>4. MapsInv'
    BY <1>1, SameRegistry DEF IndInv, MapsInv, Numbered
  <1>5. phase' # "collect" /\ phase' # "validate"
    BY DEF Called
  <1> QED
    BY <1>1, <1>2, <1>3, <1>4, <1>5 DEF IndInv, ValidInv, CollectInv

LEMMA NumberedMap ==
    ASSUME PathsInv, NEW p \in Presets
    PROVE  LET am == Numbered(paths[p])
           IN  /\ am \in [paths[p] -> Nat] /\ IsInjective(am)
               /\ DetectNextAliasIndex(am) \in Nat
  <1> DEFINE S == paths[p]
             am == Numbered(S)
  <1>1. S \in SUBSET Seq(Names) /\ IsFiniteSet(S)
    BY DEF PathsInv
  <1> HIDE DEF S
  <1>2. /\ DOMAIN am = S /\ IsInjective(am) /\ Cardinality(S) \in Nat
        /\ \A q \in S : am[q] \in 0..Cardinality(S)
    BY <1>1, NumbersDiffer
  <1>3. am \in [S -> Nat]
    <2>1. am = [q \in S |-> am[q]]
      BY DEF Numbered
    <2>2. \A q \in S : am[q] \in Nat
      BY <1>2
    <2> QED
      BY <2>1, <2>2
  <1>4. DetectNextAliasIndex(am) \in Nat
    <2>1. CASE am = EmptyMap
      BY <2>1 DEF DetectNextAliasIndex
    <2>2. CASE am # EmptyMap
      <3>1. S # {}
        <4>1. S = {} => am = <<>>
          BY DEF Numbered
        <4> QED
          BY <2>2, <4>1 DEF EmptyMap
      <3>2. Range(am) \subseteq Nat /\ Range(am) # {} /\ \A n \in Range(am) : n <= Cardinality(S)
        BY <1>2, <3>1 DEF Range
      <3>3. Max(Range(am)) \in Nat
        BY <1>2, <3>2, MaxOfNats
      <3> QED
        BY <2>2, <3>3 DEF DetectNextAliasIndex
    <2> QED
      BY <2>1, <2>2
  <1> QED
    BY <1>2, <1>3, <1>4 DEF S

LEMMA BeginStep ==
    ASSUME IndInv, phase = "ready" \/ Called,
           NEW p \in Presets, NEW way, NEW x \in SUBSET Seq(Names), BeginCall(p, way, x)
    PROVE  IndInv'
  <1>1. /\ UNCHANGED startVars /\ registry' = registry /\ paths' = paths /\ maps' = maps
        /\ phase' = "alias" /\ preset' = p /\ extra' = x /\ tails' = {}
        /\ aliasMap' = maps[p] /\ nextIdx' = DetectNextAliasIndex(maps[p])
        /\ cursor' = [path |-> <<>>, done |-> 0, stack |-> <<>>]
    BY DEF BeginCall, startVars
  <1>2. maps[p] = Numbered(paths[p])
    BY DEF IndInv, MapsInv
  <1>3. MapOK'
    <2>1. maps[p] \in [paths[p] -> Nat] /\ IsInjective(maps[p]) /\ nextIdx' \in Nat
      BY <1>1, <1>2, NumberedMap DEF IndInv
    <2>2. paths[p] \subseteq Seq(Names) /\ IsFiniteSet(paths[p]) /\ Prefixed(paths[p])
      BY DEF IndInv, PathsInv
    <2>3. DOMAIN aliasMap' = paths[p] /\ paths'[preset'] = paths[p]
      BY <1>1, <2>1
    <2> QED
      BY <1>1, <2>1, <2>2, <2>3 DEF MapOK, Prefixed, Prefixes, IsInjective
  <1>4. CursorOK'
    <2>1. cursor' \in [path : Seq(Names), done : Nat, stack : Seq(Models)]
      BY <1>1
    <2>2. cursor'.done = 0 /\ Len(cursor'.path) = 0 /\ Len(cursor'.stack) = 0
      BY <1>1
    <2> QED
      BY <2>1, <2>2 DEF CursorOK
  <1>5. CallInv'
    BY <1>1, <1>3, <1>4, SameRegistry DEF CallInv, Called, PresetPathsAccepted
  <1> QED
    BY <1>1, <1>5, StartupKept DEF Called

LEMMA RequestStep ==
    ASSUME IndInv, Request
    PROVE  IndInv'
  <1>1. PICK p \in Presets, x \in SUBSET ExtraPaths : BeginCall(p, <<p[1]>>, x)
    BY DEF Request
  <1>2. x \in SUBSET Seq(Names)
    BY PresetGraphAssumption
  <1> QED
    BY <1>1, <1>2, BeginStep DEF Request

LEMMA TargetsArePresets ==
    ASSUME IndInv, Called, NEW t \in tails, NEW p \in Targets(t)
    PROVE  p \in Presets
  <1>1. TailOK(t) /\ Linkable /\ registry \in Registries
    BY DEF IndInv, CallInv, Linked, Called
  <1>2. CASE Polymorphic(t.frame.preset[1], t.field.source)
    BY <1>2 DEF Targets, Polymorphic
  <1>3. CASE ~Polymorphic(t.frame.preset[1], t.field.source)
    BY <1>1, <1>3, LinkedField DEF Targets, Polymorphic, TailOK
  <1> QED
    BY <1>2, <1>3

LEMMA CallTailStep ==
    ASSUME IndInv, CallTail
    PROVE  IndInv'
  <1>0. PICK t \in tails : \E p \in Targets(t) : BeginCall(p, Append(t.frame.stack, p[1]), {})
    BY DEF CallTail
  <1>1. PICK p \in Targets(t) : BeginCall(p, Append(t.frame.stack, p[1]), {})
    BY <1>0
  <1>2. Called /\ phase = "tails"
    BY DEF CallTail, Called
  <1>3. p \in Presets
    BY <1>1, <1>2, TargetsArePresets
  <1> QED
    BY <1>1, <1>2, <1>3, BeginStep

(* What a step that adds nothing to the alias map keeps. *)
LEMMA SameMap ==
    ASSUME IndInv, UNCHANGED <<startVars, preset, aliasMap, nextIdx>>, MapOK
    PROVE  MapOK'
  <1>1. registry' = registry /\ paths' = paths
    BY DEF startVars
  <1> QED
    BY <1>1 DEF MapOK, Prefixed, Prefixes, IsInjective

LEMMA NextExtraPathStep ==
    ASSUME IndInv, NextExtraPath
    PROVE  IndInv'
  <1>1. /\ UNCHANGED <<startVars, phase, todo, preset, aliasMap, nextIdx, tails>>
        /\ phase = "alias" /\ Called /\ Called' /\ registry' = registry
    BY DEF NextExtraPath, Called, startVars
  <1>2. PICK p \in extra : extra' = extra \ {p} /\ cursor' = [path |-> p, done |-> 0, stack |-> <<>>]
    BY DEF NextExtraPath
  <1>3. preset \in Presets /\ extra \subseteq Seq(Names) /\ MapOK /\ \A t \in tails : TailOK(t)
    BY <1>1 DEF IndInv, CallInv
  <1>4. MapOK'
    BY <1>1, <1>3, SameMap
  <1>5. CursorOK'
    <2>1. p \in Seq(Names) /\ Len(p) \in Nat
      BY <1>2, <1>3
    <2>2. cursor' \in [path : Seq(Names), done : Nat, stack : Seq(Models)]
      BY <1>2, <2>1
    <2>3. cursor'.done = 0 /\ 0 <= Len(cursor'.path) /\ Len(cursor'.stack) = 0
      BY <1>2, <2>1
    <2> QED
      BY <2>2, <2>3 DEF CursorOK
  <1>6. CallInv'
    BY <1>1, <1>2, <1>3, <1>4, <1>5, SameRegistry DEF CallInv, PresetPathsAccepted
  <1> QED
    BY <1>1, <1>6, StartupKept

LEMMA EnsureDoneStep ==
    ASSUME IndInv, EnsureDone
    PROVE  IndInv'
  <1>1. /\ UNCHANGED <<startVars, phase, todo, preset, extra, aliasMap, nextIdx, tails>>
        /\ phase = "alias" /\ Called /\ Called' /\ registry' = registry
        /\ cursor' = [path |-> <<>>, done |-> 0, stack |-> <<>>]
    BY DEF EnsureDone, Called, startVars
  <1>2. preset \in Presets /\ extra \subseteq Seq(Names) /\ MapOK /\ \A t \in tails : TailOK(t)
    BY <1>1 DEF IndInv, CallInv
  <1>3. MapOK'
    BY <1>1, <1>2, SameMap
  <1>4. CursorOK'
    <2>1. cursor' \in [path : Seq(Names), done : Nat, stack : Seq(Models)]
      BY <1>1
    <2>2. cursor'.done = 0 /\ Len(cursor'.path) = 0 /\ Len(cursor'.stack) = 0
      BY <1>1
    <2> QED
      BY <2>1, <2>2 DEF CursorOK
  <1>5. CallInv'
    BY <1>1, <1>2, <1>3, <1>4, SameRegistry DEF CallInv, PresetPathsAccepted
  <1> QED
    BY <1>1, <1>5, StartupKept

(* Steps that leave the cursor where it is. *)
LEMMA SameCursor ==
    ASSUME IndInv, UNCHANGED <<startVars, preset, aliasMap, cursor>>, CursorOK
    PROVE  CursorOK'
  <1>1. registry' = registry
    BY DEF startVars
  <1> QED
    BY <1>1, SameRegistry DEF CursorOK

LEMMA StartScanStep ==
    ASSUME IndInv, StartScan
    PROVE  IndInv'
  <1>1. /\ UNCHANGED <<startVars, preset, extra, cursor, aliasMap, nextIdx, tails>>
        /\ phase = "alias" /\ phase' = "scan" /\ Called /\ Called' /\ registry' = registry
        /\ todo' = {RootFrame(preset, trail)}
    BY DEF StartScan, Called, startVars, callVars
  <1>2. CallInv'
    BY <1>1, SameMap, SameCursor, SameRegistry
       DEF IndInv, CallInv, PresetPathsAccepted, RootFrame
  <1> QED
    BY <1>1, <1>2, StartupKept

LEMMA ScanStep ==
    ASSUME IndInv, Scan
    PROVE  IndInv'
  <1>1. /\ UNCHANGED <<startVars, phase, preset, extra, cursor, aliasMap, nextIdx>>
        /\ phase = "scan" /\ Called /\ Called' /\ registry' = registry
    BY DEF Scan, Called, startVars
  <1>2. /\ \A fr \in todo : fr.preset \in Presets
        /\ \A t \in tails : TailOK(t)
        /\ Linkable /\ registry \in Registries
    BY <1>1 DEF IndInv, CallInv, Linked
  <1>3. \A fr \in todo' : fr.preset \in Presets
    <2>1. ASSUME NEW fr \in todo, NEW f \in OfKind(fr, {"belongs_to"})
          PROVE  ChildFrame(fr, f).preset \in Presets
      <3>1. f \in PresetFields(fr.preset) /\ ~Polymorphic(fr.preset[1], f.source)
        BY DEF OfKind, Polymorphic
      <3>2. NestedOf(fr.preset, f) \in Presets
        BY <1>2, <3>1, LinkedField
      <3> QED
        BY <3>2 DEF ChildFrame
    <2> QED
      BY <2>1 DEF Scan
  <1>4. \A t \in tails' : TailOK(t)
    <2>1. ASSUME NEW fr \in todo, NEW f \in OfKind(fr, {"has_one", "has_many", "polymorphic"})
          PROVE  TailOK([frame |-> fr, field |-> f])
      BY <1>2 DEF OfKind, TailOK
    <2> QED
      BY <1>2, <2>1 DEF Scan
  <1>5. CallInv'
    BY <1>1, <1>3, <1>4, SameMap, SameCursor, SameRegistry
       DEF IndInv, CallInv, PresetPathsAccepted
  <1> QED
    BY <1>1, <1>5, StartupKept

LEMMA DetectJoinsStep ==
    ASSUME IndInv, DetectJoins
    PROVE  IndInv'
  <1>1. /\ UNCHANGED <<startVars, preset, extra, cursor, aliasMap, nextIdx, tails>>
        /\ Called /\ Called' /\ registry' = registry /\ phase' \in {"tails", "unjoined"}
    BY DEF DetectJoins, Called, startVars, callVars
  <1>2. CallInv'
    BY <1>1, SameMap, SameCursor, SameRegistry DEF IndInv, CallInv, PresetPathsAccepted
  <1> QED
    BY <1>1, <1>2, StartupKept

LEMMA RespondStep ==
    ASSUME IndInv, Respond
    PROVE  IndInv'
  <1>1. /\ UNCHANGED startVars /\ Called /\ phase' = "ready" /\ aliasMap' = EmptyMap
    BY DEF Respond, Called
  <1> QED
    BY <1>1, StartupKept DEF CallInv, Called

(* Among one more numbers than there are paths, one is not in use. *)
LEMMA AliasIsNew ==
    ASSUME NEW D, IsFiniteSet(D), NEW am \in [D -> Nat], NEW n \in Nat
    PROVE  NextAlias(am, n) \in Nat /\ NextAlias(am, n) \notin Range(am)
  <1> DEFINE size == Cardinality(D)
             tried == n..(n + size)
             free == tried \ Range(am)
  <1>1. size \in Nat
    BY FS_CardinalityType
  <1>2. IsFiniteSet(Range(am)) /\ Cardinality(Range(am)) <= size
    <2>1. DOMAIN am = D /\ am \in [D -> {am[x] : x \in D}]
      OBVIOUS
    <2> QED
      BY <2>1, FiniteImage DEF Range
  <1>3. IsFiniteSet(tried) /\ Cardinality(tried) = size + 1
    <2> HIDE DEF size
    <2> QED
      BY <1>1, FS_Interval
  <1>4. free # {}
    <2>1. SUFFICES ASSUME tried \subseteq Range(am) PROVE FALSE
      OBVIOUS
    <2>2. Cardinality(tried) <= Cardinality(Range(am))
      BY <1>2, <2>1, FS_Subset
    <2>3. Cardinality(Range(am)) \in Nat
      BY <1>2, FS_CardinalityType
    <2> HIDE DEF size, tried
    <2> QED
      BY <1>1, <1>2, <1>3, <2>2, <2>3
  <1>5. free \subseteq Nat
    <2> HIDE DEF size
    <2> QED
      BY <1>1
  <1>6. Min(free) \in free
    BY <1>4, <1>5, MinOfNats
  <1>7. NextAlias(am, n) = Min(free)
    BY DEF NextAlias
  <1> QED
    BY <1>5, <1>6, <1>7

LEMMA PrefixesOfPrefix ==
    ASSUME NEW path \in Seq(Names), NEW n \in 1..Len(path)
    PROVE  /\ SubSeq(path, 1, n) \in Seq(Names) /\ Len(SubSeq(path, 1, n)) = n
           /\ \A k \in 1..n : SubSeq(SubSeq(path, 1, n), 1, k) = SubSeq(path, 1, k)
           /\ Prefixes(SubSeq(path, 1, n)) = {SubSeq(path, 1, k) : k \in 1..n}
  <1> DEFINE prefix == SubSeq(path, 1, n)
  <1>1. prefix \in Seq(Names) /\ Len(prefix) = n /\ \A i \in 1..n : prefix[i] = path[i]
    OBVIOUS
  <1> HIDE DEF prefix
  <1>2. \A k \in 1..n : SubSeq(prefix, 1, k) = SubSeq(path, 1, k)
    BY <1>1
  <1>3. Prefixes(prefix) = {SubSeq(path, 1, k) : k \in 1..n}
    BY <1>1, <1>2 DEF Prefixes
  <1> QED
    BY <1>1, <1>2, <1>3 DEF prefix

(* Where ensureAliasPath is. *)
LEMMA AtModel ==
    ASSUME IndInv, AtSegment
    PROVE  /\ Called /\ Linkable /\ registry \in Registries /\ preset \in Presets
           /\ MapOK /\ CursorOK
           /\ cursor.path \in Seq(Names) /\ cursor.done \in Nat /\ cursor.stack \in Seq(Models)
           /\ cursor.done + 1 \in 1..Len(cursor.path)
           /\ CursorModel \in Models
           /\ \A ms : Way(preset[1], cursor.path, ms) => CursorModel = ms[cursor.done + 1]
  <1>1. Called /\ phase = "alias"
    BY DEF AtSegment, Called
  <1>2. /\ Linkable /\ registry \in Registries /\ preset \in Presets /\ MapOK /\ CursorOK
    BY <1>1 DEF IndInv, CallInv, Linked
  <1>3. /\ cursor.path \in Seq(Names) /\ cursor.done \in Nat /\ cursor.stack \in Seq(Models)
        /\ Len(cursor.stack) = cursor.done /\ cursor.done < Len(cursor.path)
        /\ Len(cursor.path) \in Nat
    BY <1>2 DEF CursorOK, AtSegment
  <1>4. preset[1] \in Models
    BY <1>2, RegistriesAssumption DEF Presets
  <1>5. CursorModel \in Models
    BY <1>3, <1>4 DEF CursorModel
  <1>6. ASSUME NEW ms, Way(preset[1], cursor.path, ms)
        PROVE  CursorModel = ms[cursor.done + 1]
    <2>1. CASE cursor.done = 0
      BY <1>3, <1>6, <2>1 DEF CursorModel, Way
    <2>2. CASE cursor.done # 0
      <3>1. cursor.done \in 1..cursor.done
        BY <1>3, <2>2
      <3> QED
        BY <1>2, <1>3, <1>6, <2>2, <3>1 DEF CursorModel, CursorOK
    <2> QED
      BY <2>1, <2>2
  <1> QED
    BY <1>1, <1>2, <1>3, <1>5, <1>6

LEMMA EnsureSegmentStep ==
    ASSUME IndInv, EnsureSegment
    PROVE  IndInv'
  <1> DEFINE n == cursor.done + 1
             to == Rel(CursorModel, Segment).to
  <1>1. /\ UNCHANGED <<startVars, phase, todo, preset, extra, tails>>
        /\ AtSegment /\ phase = "alias" /\ Called' /\ registry' = registry /\ paths' = paths
        /\ Declared(CursorModel, Segment) /\ ~Polymorphic(CursorModel, Segment)
    BY DEF EnsureSegment, AtSegment, Called, startVars
  <1>2. /\ Called /\ Linkable /\ preset \in Presets /\ MapOK /\ CursorOK
        /\ cursor.path \in Seq(Names) /\ cursor.done \in Nat /\ cursor.stack \in Seq(Models)
        /\ n \in 1..Len(cursor.path) /\ CursorModel \in Models
    BY <1>1, AtModel
  <1>3. to \in Models
    BY <1>1, <1>2 DEF Linkable, Declared
  <1>4. /\ CursorPrefix = SubSeq(cursor.path, 1, n) /\ CursorPrefix \in Seq(Names)
        /\ Prefixes(CursorPrefix) \subseteq DOMAIN aliasMap \cup {CursorPrefix}
    <2>1. CursorPrefix = SubSeq(cursor.path, 1, n)
      BY DEF CursorPrefix
    <2>2. \A k \in 1..n : k \in 1..cursor.done \/ k = n
      BY <1>2
    <2>3. \A k \in 1..n : SubSeq(cursor.path, 1, k) \in DOMAIN aliasMap \cup {CursorPrefix}
      BY <1>2, <2>1, <2>2 DEF CursorOK
    <2>4. /\ CursorPrefix \in Seq(Names)
          /\ Prefixes(CursorPrefix) = {SubSeq(cursor.path, 1, k) : k \in 1..n}
      <3> HIDE DEF n
      <3> QED
        BY <1>2, <2>1, PrefixesOfPrefix
    <2> HIDE DEF n
    <2> QED
      BY <2>1, <2>3, <2>4
  <1>5. MapOK' /\ DOMAIN aliasMap' = DOMAIN aliasMap \cup {CursorPrefix}
    <2>1. CASE Registered(CursorPrefix)
      <3>1. UNCHANGED <<aliasMap, nextIdx>> /\ CursorPrefix \in DOMAIN aliasMap
        BY <2>1 DEF EnsureSegment, Registered
      <3>2. MapOK'
        BY <1>1, <1>2, <3>1, SameMap
      <3> QED
        BY <3>1, <3>2
    <2>2. CASE ~Registered(CursorPrefix)
      <3> DEFINE a == NextAlias(aliasMap, nextIdx)
                 D == DOMAIN aliasMap
      <3>1. /\ aliasMap' = [q \in D \cup {CursorPrefix} |->
                               IF q = CursorPrefix THEN a ELSE aliasMap[q]]
            /\ nextIdx' = a + 1 /\ CursorPrefix \notin D
        BY <2>2 DEF EnsureSegment, Registered
      <3>2. /\ aliasMap \in [D -> Nat] /\ D \subseteq Seq(Names) /\ IsFiniteSet(D)
            /\ IsInjective(aliasMap) /\ Prefixed(D) /\ paths[preset] \subseteq D /\ nextIdx \in Nat
        BY <1>2 DEF MapOK
      <3>3. a \in Nat /\ a \notin Range(aliasMap)
        BY <3>2, AliasIsNew
      <3> HIDE DEF a
      <3>4. \A q \in D : aliasMap[q] # a
        BY <3>3 DEF Range
      <3>5. DOMAIN aliasMap' = D \cup {CursorPrefix} /\ aliasMap' \in [D \cup {CursorPrefix} -> Nat]
        BY <3>1, <3>2, <3>3
      <3>6. IsInjective(aliasMap')
        BY <3>1, <3>2, <3>4, <3>5 DEF IsInjective
      <3>7. Prefixed(D \cup {CursorPrefix})
        BY <1>4, <3>2 DEF Prefixed
      <3>8. IsFiniteSet(D \cup {CursorPrefix}) /\ D \cup {CursorPrefix} \subseteq Seq(Names)
        BY <1>4, <3>2, FS_AddElement
      <3>9. Prefixed(DOMAIN aliasMap)'
        BY <3>5, <3>7 DEF Prefixed, Prefixes
      <3>10. paths'[preset'] \subseteq DOMAIN aliasMap' /\ nextIdx' \in Nat
        BY <1>1, <3>1, <3>2, <3>3, <3>5
      <3>11. MapOK'
        BY <3>5, <3>6, <3>8, <3>9, <3>10 DEF MapOK, IsInjective
      <3> QED
        BY <3>5, <3>11
    <2> QED
      BY <2>1, <2>2
  <1>6. CursorOK'
    <2>1. cursor' = [path |-> cursor.path, done |-> n, stack |-> Append(cursor.stack, to)]
      <3>1. cursor \in [path : Seq(Names), done : Nat, stack : Seq(Models)]
        BY <1>2 DEF CursorOK
      <3> QED
        BY <3>1 DEF EnsureSegment
    <2>2. /\ Append(cursor.stack, to) \in Seq(Models) /\ Len(Append(cursor.stack, to)) = n
          /\ \A i \in 1..cursor.done : Append(cursor.stack, to)[i] = cursor.stack[i]
          /\ Append(cursor.stack, to)[n] = to
      <3>1. Len(cursor.stack) = cursor.done
        BY <1>2 DEF CursorOK
      <3> HIDE DEF to
      <3> QED
        BY <1>2, <1>3, <3>1, AppendProperties
    <2>3. cursor' \in [path : Seq(Names), done : Nat, stack : Seq(Models)]
      <3> HIDE DEF to
      <3> QED
        BY <1>2, <2>1, <2>2
    <2>4. \A k \in 1..n : k \in 1..cursor.done \/ k = n
      BY <1>2
    <2>5. \A k \in 1..n : SubSeq(cursor.path, 1, k) \in DOMAIN aliasMap'
      BY <1>2, <1>4, <1>5, <2>4 DEF CursorOK
    <2>6. ASSUME NEW ms, Way(preset[1], cursor.path, ms), NEW i \in 1..n
          PROVE  Append(cursor.stack, to)[i] = ms[i + 1]
      <3>1. CASE i \in 1..cursor.done
        BY <1>2, <2>2, <2>6, <3>1 DEF CursorOK
      <3>2. CASE i = n
        <4>1. CursorModel = ms[n] /\ Segment = cursor.path[n]
          BY <1>1, <2>6, AtModel DEF Segment
        <4>2. ms[n + 1] = Rel(ms[n], cursor.path[n]).to
          BY <1>2, <2>6 DEF Way
        <4> QED
          BY <2>2, <3>2, <4>1, <4>2
      <3> QED
        BY <2>4, <3>1, <3>2
    <2> HIDE DEF to
    <2> QED
      BY <1>1, <1>2, <2>1, <2>2, <2>3, <2>5, <2>6, SameRegistry DEF CursorOK
  <1>7. CallInv'
    <2>1. extra \subseteq Seq(Names) /\ \A t \in tails : TailOK(t)
      BY <1>2 DEF IndInv, CallInv
    <2> QED
      BY <1>1, <1>2, <1>5, <1>6, <2>1, SameRegistry DEF CallInv, PresetPathsAccepted
  <1> QED
    BY <1>1, <1>2, <1>7, StartupKept

(* A path the preset has collected leads somewhere, and all its prefixes are *)
(* registered: there is nothing for which it could be refused.               *)
LEMMA EnsureFailsStep ==
    ASSUME IndInv, EnsureFails
    PROVE  IndInv'
  <1>1. /\ UNCHANGED <<startVars, callVars>> /\ phase' = "refused" /\ AtSegment /\ Called'
        /\ registry' = registry /\ paths' = paths
        /\ \/ ~Declared(CursorModel, Segment)
           \/ ~Polymorphic(CursorModel, Segment) /\ ~Registered(CursorPrefix)
    BY DEF EnsureFails, Called, startVars
  <1>2. /\ Called /\ preset \in Presets /\ MapOK /\ CursorOK
        /\ cursor.path \in Seq(Names) /\ cursor.done + 1 \in 1..Len(cursor.path)
    BY <1>1, AtModel
  <1>3. ASSUME cursor.path \in paths[preset]
        PROVE  FALSE
    <2>1. PICK ms : Way(preset[1], cursor.path, ms)
      BY <1>2, <1>3 DEF IndInv, PathsInv, Leads
    <2>2. Declared(CursorModel, Segment)
      BY <1>1, <1>2, <2>1, AtModel DEF Way, Segment
    <2>3. CursorPrefix \in Prefixes(cursor.path)
      BY <1>2 DEF CursorPrefix, Prefixes
    <2>4. CursorPrefix \in DOMAIN aliasMap
      BY <1>2, <1>3, <2>3 DEF IndInv, PathsInv, Prefixed, MapOK
    <2> QED
      BY <1>1, <2>2, <2>4 DEF Registered
  <1>4. PresetPathsAccepted'
    BY <1>1, <1>3 DEF PresetPathsAccepted, callVars
  <1>5. MapOK' /\ CursorOK'
    BY <1>1, <1>2, SameMap, SameCursor DEF callVars
  <1>6. extra \subseteq Seq(Names) /\ \A t \in tails : TailOK(t)
    BY <1>2 DEF IndInv, CallInv
  <1>7. CallInv'
    BY <1>1, <1>2, <1>4, <1>5, <1>6, SameRegistry DEF CallInv, callVars
  <1> QED
    BY <1>1, <1>2, <1>7, StartupKept

-----------------------------------------------------------------------------
LEMMA Inductive == Spec => []IndInv
  <1>1. ASSUME IndInv, [Next]_vars
        PROVE  IndInv'
    <2>1. CASE UNCHANGED vars
      <3>1. registry' = registry /\ paths' = paths /\ UNCHANGED <<startVars, phase, todo, callVars>>
        BY <2>1 DEF vars, startVars, callVars
      <3>2. PathsInv' /\ Linked' /\ ValidInv' /\ CollectInv' /\ MapsInv'
        BY <1>1, <3>1, SamePaths, SameRegistry
           DEF IndInv, Linked, ValidInv, CollectInv, MapsInv, Called, Numbered, startVars
      <3>3. CallInv'
        BY <1>1, <3>1, SameMap, SameCursor, SameRegistry
           DEF IndInv, CallInv, Called, PresetPathsAccepted, callVars
      <3> QED
        BY <1>1, <3>1, <3>2, <3>3 DEF IndInv
    <2> QED
      BY <1>1, <2>1, LinkStep, ValidateStep, StartCollectingStep, CollectStep, FinishStep,
         RequestStep, NextExtraPathStep, EnsureSegmentStep, EnsureDoneStep, EnsureFailsStep,
         StartScanStep, ScanStep, DetectJoinsStep, CallTailStep, RespondStep
      DEF Next
  <1> QED
    BY <1>1, InvInit, PTL DEF Spec

(* What validation lets pass the collection of paths cuts off only where    *)
(* max_depth is reached.  (registry_validation.go, CreateAliasMap.go)       *)
THEOREM CutsOnlyAtMaxDepth == Spec => []CutOnlyAtMaxDepth
  <1>1. ASSUME IndInv
        PROVE  CutOnlyAtMaxDepth
    <2> SUFFICES ASSUME phase = "collect", NEW fr \in todo, NEW f \in Collected(fr), Cut(fr, f)
                 PROVE  DepthReached(fr, f)
      BY DEF CutOnlyAtMaxDepth
    <2>1. ~Invalid(fr, f)
      <3>1. PICK seen : todo \subseteq seen /\ \A g \in seen : Passed(g, seen)
        BY <1>1 DEF IndInv, ValidInv
      <3>2. f \in Fields(fr.preset)
        BY DEF Collected, PresetFields
      <3> QED
        BY <3>1, <3>2 DEF Passed
    <2>2. Reenters(fr, f) => Rel(fr.preset[1], f.source).reentrant
      BY <2>1 DEF Invalid, Collected
    <2> QED
      BY <2>2 DEF Cut
  <1> QED
    BY <1>1, Inductive, PTL

(* No two paths of an alias map share an alias, and the parent of every     *)
(* path is in it too, however many paths filters and sorts have added.      *)
(* (BuildAliasMap.go)                                                       *)
THEOREM AliasMapAlwaysTree == Spec => []AliasMapIsTree
  <1>1. ASSUME IndInv
        PROVE  AliasMapIsTree
    <2>1. CASE Called
      BY <1>1, <2>1 DEF IndInv, CallInv, MapOK, Prefixed, AliasMapIsTree
    <2>2. CASE ~Called
      <3>1. aliasMap = <<>> /\ DOMAIN aliasMap = {}
        BY <1>1, <2>2 DEF IndInv, CallInv, EmptyMap
      <3> QED
        BY <3>1 DEF AliasMapIsTree, IsInjective
    <2> QED
      BY <2>1, <2>2
  <1> QED
    BY <1>1, Inductive, PTL

(* A relation the preset itself selects can be filtered and sorted by, even *)
(* if its field allows more depth than the relation.  (ensureAliasPath)     *)
THEOREM PresetPathsAlwaysAccepted == Spec => []PresetPathsAccepted
  <1>1. IndInv => PresetPathsAccepted
    BY DEF IndInv, CallInv, Called, PresetPathsAccepted
  <1> QED
    BY <1>1, Inductive, PTL

-----------------------------------------------------------------------------
(* Where a path leads.                                                     *)

(* ms are the models the first k names of a path come to. *)
Reaches(m, path, k, ms) ==
    /\ ms[1] = m
    /\ \A i \in 1..k :
          /\ Declared(ms[i], path[i]) /\ ~Polymorphic(ms[i], path[i])
          /\ ms[i + 1] = Rel(ms[i], path[i]).to

Joins(m, s) == Declared(m, s) /\ ~Polymorphic(m, s)

(* A path is followed along its models, and no further than it can be. *)
LEMMA AlongWay ==
    ASSUME NEW m, NEW path \in Seq(Names), NEW ms, NEW k \in 0..Len(path), Reaches(m, path, k, ms),
           k < Len(path) => ~Joins(ms[k + 1], path[k + 1])
    PROVE  \A i \in 0..Len(path) : ModelsAlong(m, path)[i] = IF i <= k THEN {ms[i + 1]} ELSE {}
  <1> DEFINE n == Len(path)
             one(at, i) == IF i = 0 THEN {m}
                           ELSE {Rel(q, path[i]).to : q \in {r \in at[i - 1] :
                                    Declared(r, path[i]) /\ ~Polymorphic(r, path[i])}}
             ways == [i \in 0..n |-> IF i <= k THEN {ms[i + 1]} ELSE {}]
             along == ModelsAlong(m, path)
  <1>0. n \in Nat /\ k \in Nat /\ k <= n
    OBVIOUS
  <1>1. ASSUME NEW at, NEW i \in 0..n, i # 0, at[i - 1] = ways[i - 1]
        PROVE  one(at, i) = ways[i]
    <2>1. i \in 1..n /\ i - 1 \in 0..n
      BY <1>0, <1>1
    <2>2. CASE i <= k
      <3>1. at[i - 1] = {ms[i]} /\ ways[i] = {ms[i + 1]}
        BY <1>0, <1>1, <2>1, <2>2
      <3>2. Declared(ms[i], path[i]) /\ ~Polymorphic(ms[i], path[i])
            /\ ms[i + 1] = Rel(ms[i], path[i]).to
        BY <1>0, <2>1, <2>2 DEF Reaches
      <3> HIDE DEF ways
      <3>3. {r \in at[i - 1] : Declared(r, path[i]) /\ ~Polymorphic(r, path[i])} = {ms[i]}
        BY <3>1, <3>2
      <3> QED
        BY <1>1, <3>1, <3>2, <3>3
    <2>3. CASE i = k + 1
      <3>1. at[i - 1] = {ms[i]} /\ ways[i] = {}
        BY <1>0, <1>1, <2>1, <2>3
      <3>2. ~(Declared(ms[i], path[i]) /\ ~Polymorphic(ms[i], path[i]))
        BY <1>0, <2>1, <2>3 DEF Joins
      <3> HIDE DEF ways
      <3>3. {r \in at[i - 1] : Declared(r, path[i]) /\ ~Polymorphic(r, path[i])} = {}
        BY <3>1, <3>2
      <3> QED
        BY <1>1, <3>1, <3>3
    <2>4. CASE i > k + 1
      <3>1. at[i - 1] = {} /\ ways[i] = {}
        BY <1>0, <1>1, <2>1, <2>4
      <3> HIDE DEF ways
      <3> QED
        BY <1>1, <3>1
    <2> QED
      BY <1>0, <2>1, <2>2, <2>3, <2>4
  <1>2. ASSUME NEW at PROVE one(at, 0) = ways[0]
    BY <1>0 DEF Reaches
  <1>3. ways = [i \in 0..n |-> one(ways, i)]
    <2>1. \A i \in 0..n : ways[i] = one(ways, i)
      <3> HIDE DEF one, n
      <3>1. \A i \in 0..n : i # 0 => one(ways, i) = ways[i]
        BY <1>1
      <3> HIDE DEF ways
      <3> QED
        BY <1>2, <3>1
    <2>2. ways = [i \in 0..n |-> ways[i]]
      OBVIOUS
    <2> HIDE DEF ways, one, n
    <2> QED
      BY <2>1, <2>2
  <1>4. along = [i \in 0..n |-> one(along, i)]
    <2>1. along = CHOOSE at : at = [i \in 0..n |-> one(at, i)]
      BY DEF ModelsAlong
    <2> HIDE DEF along, one, ways
    <2> QED
      BY <1>3, <2>1
  <1> HIDE DEF along, ways, one, n
  <1>5. \A i \in 0..n : along[i] = one(along, i)
    BY <1>4
  <1> DEFINE Good == {i \in Nat : i \in 0..n => along[i] = ways[i]}
  <1>6. 0 \in Good
    BY <1>2, <1>5
  <1>7. ASSUME NEW i \in Nat, i \in Good
        PROVE  i + 1 \in Good
    <2> SUFFICES ASSUME i + 1 \in 0..n PROVE along[i + 1] = ways[i + 1]
      BY DEF Good
    <2>1. i \in 0..n /\ (i + 1) - 1 = i /\ i + 1 # 0
      BY <1>0
    <2>2. along[(i + 1) - 1] = ways[(i + 1) - 1]
      BY <1>7, <2>1
    <2>3. one(along, i + 1) = ways[i + 1]
      BY <1>1, <2>1, <2>2
    <2> QED
      BY <1>5, <2>3
  <1> HIDE DEF Good
  <1>8. \A i \in Nat : i \in Good
    BY <1>6, <1>7, InductionOnNats
  <1>9. \A i \in 0..n : along[i] = ways[i]
    BY <1>0, <1>8 DEF Good
  <1> QED
    BY <1>9 DEF along, ways, n

-----------------------------------------------------------------------------
(* Paths that filters and sorts have added.                                *)

(* How often the first n + 1 models come to the last of them. *)
Comes(ms, n) == Cardinality({i \in 1..n : ms[i + 1] = ms[n + 1]})

Bounded(m, path) ==
    /\ path # <<>>
    /\ \E ms \in Seq(Models) :
          /\ Len(ms) = Len(path) + 1 /\ Way(m, path, ms)
          /\ Comes(ms, Len(path)) \in
                1..ResolveMaxDepth(0, Rel(ms[Len(path)], path[Len(path)]).max)

(* ensureAliasPath is where its path leads. *)
AddedInv ==
    Called =>
        /\ \A path \in DOMAIN aliasMap : path \in paths[preset] \/ Bounded(preset[1], path)
        /\ phase = "alias" =>
              Reaches(preset[1], cursor.path, cursor.done, <<preset[1]>> \o cursor.stack)

LEMMA SameWays ==
    ASSUME registry' = registry
    PROVE  /\ \A m, path : Bounded(m, path)' <=> Bounded(m, path)
           /\ \A m, path, k, ms : Reaches(m, path, k, ms)' <=> Reaches(m, path, k, ms)
  <1>1. \A m, path, ms : Way(m, path, ms)' <=> Way(m, path, ms)
    BY SameRegistry
  <1>2. \A m, s : Rel(m, s)' = Rel(m, s)
    BY DEF Rel
  <1>3. \A m, path : Bounded(m, path)' <=> Bounded(m, path)
    BY <1>1, <1>2 DEF Bounded
  <1>4. \A m, path, k, ms : Reaches(m, path, k, ms)' <=> Reaches(m, path, k, ms)
    BY DEF Reaches, Rel, Declared, Polymorphic
  <1> QED
    BY <1>3, <1>4

LEMMA ReachesOne ==
    ASSUME NEW m, NEW path
    PROVE  Reaches(m, path, 0, <<m>> \o <<>>)
  <1>1. (<<m>> \o <<>>)[1] = m
    OBVIOUS
  <1> QED
    BY <1>1 DEF Reaches

(* The segment that is entered is on the way, and comes to its model as     *)
(* often as MayEnter has counted.                                           *)
LEMMA EnterOnce ==
    ASSUME IndInv, AtSegment, Joins(CursorModel, Segment),
           Reaches(preset[1], cursor.path, cursor.done, <<preset[1]>> \o cursor.stack)
    PROVE  LET n == cursor.done + 1
               to == Rel(CursorModel, Segment).to
               ms == <<preset[1]>> \o Append(cursor.stack, to)
           IN  /\ ms \in Seq(Models) /\ Len(ms) = n + 1
               /\ Reaches(preset[1], cursor.path, n, ms)
               /\ ms[n] = CursorModel
               /\ MayEnter(cursor.stack, Rel(CursorModel, Segment)) =>
                     Comes(ms, n) \in 1..ResolveMaxDepth(0, Rel(CursorModel, Segment).max)
  <1> DEFINE done == cursor.done
             stack == cursor.stack
             path == cursor.path
             n == done + 1
             m == preset[1]
             r == Rel(CursorModel, Segment)
             to == r.to
             ms == <<m>> \o Append(stack, to)
             old == <<m>> \o stack
  <1>1. /\ path \in Seq(Names) /\ done \in Nat /\ stack \in Seq(Models) /\ Len(stack) = done
        /\ n \in 1..Len(path) /\ CursorModel \in Models /\ Linkable /\ registry \in Registries
        /\ m \in Models
    <2>1. preset \in Presets /\ registry \in Registries
      BY AtModel
    <2>2. m \in Models
      BY <2>1, RegistriesAssumption DEF Presets
    <2> QED
      BY <2>2, AtModel DEF CursorOK
  <1>2. to \in Models /\ r.max \in Int
    <2>1. Segment \in DOMAIN registry.relations[CursorModel]
      BY DEF Joins, Declared
    <2>2. to \in Models
      BY <1>1, <2>1 DEF Linkable, Joins
    <2>3. r.max \in Int
      BY <1>1, <2>1, RegistriesAssumption DEF Rel
    <2> QED
      BY <2>2, <2>3
  <1>a. CursorModel = IF stack = <<>> THEN m ELSE stack[Len(stack)]
    BY DEF CursorModel
  <1>b. Segment = path[n]
    BY DEF Segment
  <1> HIDE DEF done, stack, path, m
  <1>3. /\ old \in Seq(Models) /\ Len(old) = n /\ old[1] = m
        /\ \A i \in 1..done : old[i + 1] = stack[i]
    BY <1>1
  <1>4. /\ ms \in Seq(Models) /\ Len(ms) = n + 1 /\ ms[1] = m
        /\ \A i \in 1..done : ms[i + 1] = stack[i]
        /\ ms[n + 1] = to
    <2> HIDE DEF r
    <2> QED
      BY <1>1, <1>2
  <1>5. \A i \in 1..n : ms[i] = old[i]
    <2>1. \A i \in 1..n : i = 1 \/ (i - 1 \in 1..done /\ (i - 1) + 1 = i)
      BY <1>1
    <2> HIDE DEF ms, old
    <2> QED
      BY <1>3, <1>4, <2>1
  <1>6. ms[n] = CursorModel
    <2>1. CASE done = 0
      BY <1>1, <1>4, <1>a, <2>1
    <2>2. CASE done # 0
      <3>1. done \in 1..done /\ stack # <<>>
        BY <1>1, <2>2
      <3> HIDE DEF ms
      <3> QED
        BY <1>1, <1>4, <1>a, <3>1
    <2> QED
      BY <2>1, <2>2
  <1>7. Reaches(m, path, n, ms)
    <2> SUFFICES ASSUME NEW i \in 1..n
                 PROVE  /\ Declared(ms[i], path[i]) /\ ~Polymorphic(ms[i], path[i])
                        /\ ms[i + 1] = Rel(ms[i], path[i]).to
      BY <1>4 DEF Reaches
    <2>1. CASE i \in 1..done
      <3>1. i \in 1..n /\ i + 1 \in 1..n
        BY <1>1, <2>1
      <3> HIDE DEF ms, old
      <3>2. Reaches(m, path, done, old)
        BY DEF m, path, done, old, stack
      <3> QED
        BY <1>5, <2>1, <3>1, <3>2 DEF Reaches
    <2>2. CASE i = n
      <3> HIDE DEF ms
      <3> QED
        BY <1>4, <1>6, <1>b, <2>2 DEF Joins
    <2> QED
      BY <1>1, <2>1, <2>2
  <1>8. ASSUME MayEnter(stack, r)
        PROVE  Comes(ms, n) \in 1..ResolveMaxDepth(0, r.max)
    <2> DEFINE before == {i \in 1..done : stack[i] = to}
    <2>1. {i \in 1..n : ms[i + 1] = ms[n + 1]} = before \cup {n}
      <3> HIDE DEF ms
      <3> QED
        BY <1>1, <1>4
    <2>2. Visits(stack, to) = Cardinality(before)
      <3>1. {i \in DOMAIN stack : stack[i] = to} = before
        BY <1>1
      <3> QED
        BY <3>1 DEF Visits
    <2>3. IsFiniteSet(before) /\ n \notin before
      <3>1. IsFiniteSet(1..done)
        BY <1>1, FS_Interval
      <3> QED
        BY <1>1, <3>1, FS_Subset
    <2>4. Comes(ms, n) = Visits(stack, to) + 1 /\ Visits(stack, to) \in Nat
      <3>1. Comes(ms, n) = Cardinality(before \cup {n})
        BY <2>1 DEF Comes
      <3> HIDE DEF before, ms, n
      <3>2. Cardinality(before \cup {n}) = Cardinality(before) + 1
        BY <2>3, FS_AddElement
      <3> QED
        BY <2>2, <2>3, <3>1, <3>2, FS_CardinalityType
    <2>5. ResolveMaxDepth(0, r.max) \in Nat /\ ResolveMaxDepth(0, r.max) >= 1
      <3> HIDE DEF r
      <3> QED
        BY <1>2, PresetGraphAssumption DEF ResolveMaxDepth
    <2>6. Visits(stack, to) > 0 => Visits(stack, to) + 1 <= ResolveMaxDepth(0, r.max)
      BY <1>8 DEF MayEnter
    <2> HIDE DEF r, to, ms
    <2> QED
      BY <2>4, <2>5, <2>6
  <1> QED
    BY <1>4, <1>6, <1>7, <1>8 DEF done, stack, path, m

LEMMA AddedSame ==
    ASSUME IndInv, AddedInv, UNCHANGED <<startVars, preset, aliasMap, cursor>>, Called,
           phase' = "alias" => phase = "alias"
    PROVE  AddedInv'
  <1>1. registry' = registry /\ paths' = paths
    BY DEF startVars
  <1>2. \A path \in DOMAIN aliasMap : path \in paths[preset] \/ Bounded(preset[1], path)
    BY DEF AddedInv
  <1>3. \A path : Bounded(preset[1], path)' <=> Bounded(preset[1], path)
    BY <1>1, SameWays DEF Bounded, Way, Declared, Polymorphic, Rel
  <1>4. \A k, ms : Reaches(preset[1], cursor.path, k, ms)' <=> Reaches(preset[1], cursor.path, k, ms)
    BY <1>1 DEF Reaches, Declared, Polymorphic, Rel
  <1> QED
    BY <1>1, <1>2, <1>3, <1>4 DEF AddedInv

LEMMA AddedStep ==
    ASSUME IndInv, AddedInv, Next
    PROVE  AddedInv'
  <1>1. CASE Link \/ Validate \/ StartCollecting \/ Collect \/ FinishStartup \/ Respond
    BY <1>1 DEF Link, Validate, StartCollecting, Collect, FinishStartup, Respond, AddedInv, Called
  <1>2. ASSUME NEW p \in Presets, NEW way, NEW x, BeginCall(p, way, x), phase = "ready" \/ Called
        PROVE  AddedInv'
    <2>1. maps[p] = Numbered(paths[p]) /\ paths[p] \subseteq Seq(Names) /\ IsFiniteSet(paths[p])
      BY <1>2 DEF IndInv, MapsInv, PathsInv
    <2>2. DOMAIN maps[p] = paths[p]
      BY <2>1, NumbersDiffer
    <2>3. DOMAIN aliasMap' = paths'[preset']
      BY <1>2, <2>2 DEF BeginCall, startVars
    <2>4. cursor'.done = 0 /\ cursor'.stack = <<>>
      BY <1>2 DEF BeginCall
    <2>5. Reaches(preset[1], cursor.path, cursor.done, <<preset[1]>> \o cursor.stack)'
      BY <2>4, ReachesOne DEF Reaches
    <2> QED
      BY <2>3, <2>5 DEF AddedInv
  <1>3. CASE Request
    BY <1>2, <1>3 DEF Request
  <1>4. CASE CallTail
    <2>1. PICK t \in tails : \E p \in Targets(t) : BeginCall(p, Append(t.frame.stack, p[1]), {})
      BY <1>4 DEF CallTail
    <2>2. PICK p \in Targets(t) : BeginCall(p, Append(t.frame.stack, p[1]), {})
      BY <2>1
    <2>3. Called
      BY <1>4 DEF CallTail, Called
    <2>4. p \in Presets
      BY <1>4, <2>2, <2>3, TargetsArePresets
    <2> QED
      BY <1>2, <2>2, <2>3, <2>4
  <1>5. CASE NextExtraPath \/ EnsureDone
    <2>1. /\ UNCHANGED <<startVars, preset, aliasMap>> /\ Called /\ registry' = registry
          /\ paths' = paths /\ cursor'.done = 0 /\ cursor'.stack = <<>>
      BY <1>5 DEF NextExtraPath, EnsureDone, Called, startVars
    <2>2. Reaches(preset[1], cursor.path, cursor.done, <<preset[1]>> \o cursor.stack)'
      BY <2>1, ReachesOne DEF Reaches
    <2>3. \A path : Bounded(preset[1], path)' <=> Bounded(preset[1], path)
      BY <2>1 DEF Bounded, Way, Declared, Polymorphic, Rel
    <2> QED
      BY <2>1, <2>2, <2>3 DEF AddedInv
  <1>6. CASE EnsureSegment
    <2> DEFINE n == cursor.done + 1
               m == preset[1]
               r == Rel(CursorModel, Segment)
               ms == <<m>> \o Append(cursor.stack, r.to)
    <2>1. /\ AtSegment /\ phase = "alias" /\ Called /\ UNCHANGED <<startVars, preset>>
          /\ registry' = registry /\ paths' = paths /\ Joins(CursorModel, Segment)
          /\ MapOK /\ CursorOK
          /\ cursor.path \in Seq(Names) /\ n \in 1..Len(cursor.path)
      BY <1>6, AtModel DEF EnsureSegment, AtSegment, startVars, Joins
    <2>2. /\ ms \in Seq(Models) /\ Len(ms) = n + 1 /\ Reaches(m, cursor.path, n, ms)
          /\ ms[n] = CursorModel
          /\ MayEnter(cursor.stack, r) => Comes(ms, n) \in 1..ResolveMaxDepth(0, r.max)
      BY <2>1, EnterOnce DEF AddedInv
    <2>3. cursor'.path = cursor.path /\ cursor'.done = n /\ cursor'.stack = Append(cursor.stack, r.to)
      <3>1. cursor \in [path : Seq(Names), done : Nat, stack : Seq(Models)]
        BY <2>1 DEF CursorOK
      <3> QED
        BY <1>6, <3>1 DEF EnsureSegment
    <2> HIDE DEF ms
    <2>4. Reaches(preset[1], cursor.path, cursor.done, <<preset[1]>> \o cursor.stack)'
      <3>1. PICK m0 : m0 = m
        OBVIOUS
      <3>2. PICK path0 : path0 = cursor.path
        OBVIOUS
      <3>3. PICK n0 : n0 = n
        OBVIOUS
      <3>4. PICK ms0 : ms0 = ms
        OBVIOUS
      <3>5. Reaches(m0, path0, n0, ms0)'
        BY <2>1, <2>2, <3>1, <3>2, <3>3, <3>4, SameWays
      <3>6. /\ preset'[1] = m0 /\ cursor'.path = path0 /\ cursor'.done = n0
            /\ <<preset'[1]>> \o cursor'.stack = ms0
        BY <2>1, <2>3, <3>1, <3>2, <3>3, <3>4 DEF ms
      <3> QED
        BY <3>5, <3>6 DEF Reaches
    <2>5. CursorPrefix = SubSeq(cursor.path, 1, n)
      BY DEF CursorPrefix
    <2>6. /\ CursorPrefix \in Seq(Names) /\ Len(CursorPrefix) = n
          /\ \A i \in 1..n : CursorPrefix[i] = cursor.path[i]
      <3> HIDE DEF n
      <3> QED
        BY <2>1, <2>5
    <2>7. ASSUME ~Registered(CursorPrefix)
          PROVE  Bounded(m, CursorPrefix)
      <3>1. MayEnter(cursor.stack, r)
        BY <1>6, <2>7 DEF EnsureSegment
      <3>2. Comes(ms, n) \in 1..ResolveMaxDepth(0, r.max)
        BY <2>2, <3>1
      <3>3. r = Rel(ms[n], CursorPrefix[n])
        BY <2>1, <2>2, <2>6 DEF Segment
      <3>4. Way(m, CursorPrefix, ms)
        <4> HIDE DEF n
        <4> QED
          BY <2>2, <2>6 DEF Way, Reaches
      <3>5. CursorPrefix # <<>>
        BY <2>1, <2>6
      <3> HIDE DEF n, m, r
      <3> QED
        BY <2>2, <2>6, <3>2, <3>3, <3>4, <3>5 DEF Bounded
    <2>8. DOMAIN aliasMap' \subseteq DOMAIN aliasMap \cup {CursorPrefix}
      BY <1>6 DEF EnsureSegment
    <2>9. Registered(CursorPrefix) => DOMAIN aliasMap' = DOMAIN aliasMap
      BY <1>6 DEF EnsureSegment
    <2>10. \A path : Bounded(preset[1], path)' <=> Bounded(m, path)
      BY <2>1 DEF Bounded, Way, Declared, Polymorphic, Rel
    <2>11. ASSUME NEW path \in DOMAIN aliasMap'
           PROVE  path \in paths'[preset'] \/ Bounded(preset[1], path)'
      <3>1. CASE path \in DOMAIN aliasMap
        BY <2>1, <2>10, <3>1 DEF AddedInv
      <3>2. CASE path \notin DOMAIN aliasMap
        BY <2>7, <2>8, <2>9, <2>10, <3>2
      <3> QED
        BY <3>1, <3>2
    <2> QED
      BY <2>4, <2>11 DEF AddedInv
  <1>7. CASE EnsureFails \/ StartScan \/ Scan \/ DetectJoins
    <2>1. /\ UNCHANGED <<startVars, preset, aliasMap, cursor>> /\ Called
          /\ phase' = "alias" => phase = "alias"
      BY <1>7 DEF EnsureFails, AtSegment, StartScan, Scan, DetectJoins, Called, callVars
    <2> QED
      BY <2>1, AddedSame
  <1> QED
    BY <1>1, <1>3, <1>4, <1>5, <1>6, <1>7 DEF Next

LEMMA AddedAlways == Spec => []AddedInv
  <1>1. ASSUME Init
        PROVE  AddedInv
    BY <1>1 DEF Init, AddedInv, Called
  <1>2. ASSUME IndInv, AddedInv, [Next]_vars
        PROVE  AddedInv'
    <2>1. CASE UNCHANGED vars
      BY <1>2, <2>1, AddedSame DEF vars, startVars, AddedInv, Called
    <2> QED
      BY <1>2, <2>1, AddedStep
  <1> QED
    BY <1>1, <1>2, Inductive, PTL DEF Spec

(* A path that filters or sorts have added comes back to no model more      *)
(* often than its last relation allows, whatever was in the map before it.  *)
(* (BuildAliasMap.go)                                                       *)
THEOREM AddedPathsAlwaysBounded == Spec => []AddedPathsBounded
  <1>1. ASSUME IndInv, AddedInv
        PROVE  AddedPathsBounded
    <2> SUFFICES ASSUME NEW p \in DOMAIN aliasMap, preset # NoPreset, p \notin DOMAIN maps[preset]
                 PROVE  LET at == ModelsAlong(preset[1], p)
                            n == Len(p)
                            r == Rel(CHOOSE m \in at[n - 1] : TRUE, p[n])
                        IN  Cardinality({i \in 1..n : at[i] = at[n]}) \in 1..ResolveMaxDepth(0, r.max)
      BY DEF AddedPathsBounded
    <2> DEFINE m == preset[1]
               n == Len(p)
               at == ModelsAlong(m, p)
    <2>1. Called /\ preset \in Presets /\ p \in Seq(Names)
      BY <1>1 DEF IndInv, CallInv, EmptyMap, MapOK
    <2>2. Bounded(m, p)
      <3>1. DOMAIN maps[preset] = paths[preset]
        BY <1>1, <2>1, NumbersDiffer DEF IndInv, MapsInv, PathsInv
      <3> QED
        BY <1>1, <2>1, <3>1 DEF AddedInv
    <2>3. PICK ms \in Seq(Models) :
             /\ Len(ms) = n + 1 /\ Way(m, p, ms)
             /\ Comes(ms, n) \in 1..ResolveMaxDepth(0, Rel(ms[n], p[n]).max)
      BY <2>2 DEF Bounded
    <2>4. n \in Nat /\ n # 0
      BY <2>1, <2>2 DEF Bounded
    <2>5. \A i \in 0..n : at[i] = {ms[i + 1]}
      <3>1. Reaches(m, p, n, ms) /\ n \in 0..n
        BY <2>3, <2>4 DEF Way, Reaches
      <3>2. \A i \in 0..n : at[i] = IF i <= n THEN {ms[i + 1]} ELSE {}
        <4>1. n = Len(p) /\ ~(n < Len(p))
          BY <2>4
        <4> HIDE DEF m, n
        <4> QED
          BY <2>1, <3>1, <4>1, AlongWay
      <3> HIDE DEF n, at
      <3> QED
        BY <2>4, <3>2
    <2> HIDE DEF at, m, n
    <2>6. (CHOOSE k \in at[n - 1] : TRUE) = ms[n]
      <3>1. at[n - 1] = {ms[n]}
        BY <2>4, <2>5
      <3> QED
        BY <3>1
    <2>7. {i \in 1..n : at[i] = at[n]} = {i \in 1..n : ms[i + 1] = ms[n + 1]}
      <3>1. ASSUME NEW i \in 1..n
            PROVE  at[i] = at[n] <=> ms[i + 1] = ms[n + 1]
        <4>1. at[i] = {ms[i + 1]} /\ at[n] = {ms[n + 1]}
          BY <2>4, <2>5
        <4>2. ms[i + 1] \in at[i] /\ \A x \in at[n] : x = ms[n + 1]
          BY <4>1
        <4>3. at[i] = at[n] => ms[i + 1] = ms[n + 1]
          BY <4>2
        <4>4. ms[i + 1] = ms[n + 1] => at[i] = at[n]
          BY <4>1
        <4> QED
          BY <4>3, <4>4
      <3> QED
        BY <3>1
    <2>8. Cardinality({i \in 1..n : at[i] = at[n]}) \in
             1..ResolveMaxDepth(0, Rel(CHOOSE k \in at[n - 1] : TRUE, p[n]).max)
      BY <2>3, <2>6, <2>7 DEF Comes
    <2> QED
      BY <2>8 DEF at, m, n
  <1> QED
    BY <1>1, Inductive, AddedAlways, PTL

-----------------------------------------------------------------------------
(* How deep the walks go.                                                  *)

(* A stack on which no model stands more than depth times is no longer than *)
(* that for each model.                                                     *)
LEMMA StackIsShort ==
    ASSUME NEW depth \in Nat, NEW stack \in Seq(Models),
           \A m \in Models : Visits(stack, m) <= depth
    PROVE  Len(stack) <= Cardinality(Models) * depth
  <1> DEFINE n == Len(stack)
             upto(i) == {j \in 1..i : stack[j] = stack[i]}
             slot == [i \in 1..n |-> <<stack[i], Cardinality(upto(i))>>]
             slots == Models \X (1..depth)
  <1>1. n \in Nat /\ \A i \in 1..n : stack[i] \in Models
    OBVIOUS
  <1> HIDE DEF n
  <1>2. ASSUME NEW i \in 1..n
        PROVE  /\ IsFiniteSet(upto(i)) /\ Cardinality(upto(i)) \in Nat /\ i \in upto(i)
               /\ Cardinality(upto(i)) \in 1..depth
    <2>1. IsFiniteSet(1..i)
      BY <1>1, FS_Interval
    <2>2. IsFiniteSet(upto(i)) /\ i \in upto(i)
      BY <1>1, <2>1, FS_Subset
    <2>3. Cardinality(upto(i)) \in Nat
      BY <2>2, FS_CardinalityType
    <2>4. Cardinality(upto(i)) # 0
      <3> HIDE DEF upto
      <3> QED
        BY <2>2, FS_EmptySet
    <2>5. Cardinality(upto(i)) <= depth
      <3> DEFINE all == {j \in DOMAIN stack : stack[j] = stack[i]}
      <3>1. upto(i) \subseteq all
        BY <1>1 DEF n
      <3>2. IsFiniteSet(all)
        <4>1. IsFiniteSet(1..n)
          BY <1>1, FS_Interval
        <4>2. all \subseteq 1..n
          BY DEF n
        <4> HIDE DEF all
        <4> QED
          BY <4>1, <4>2, FS_Subset
      <3>3. Cardinality(all) <= depth
        BY <1>1 DEF Visits
      <3> HIDE DEF all, upto
      <3>4. Cardinality(upto(i)) <= Cardinality(all) /\ Cardinality(all) \in Nat
        BY <3>1, <3>2, FS_Subset, FS_CardinalityType
      <3> QED
        BY <2>3, <3>3, <3>4
    <2> HIDE DEF upto
    <2> QED
      BY <2>2, <2>3, <2>4, <2>5
  <1>3. ASSUME NEW i \in 1..n, NEW k \in 1..n, i < k, stack[i] = stack[k]
        PROVE  Cardinality(upto(i)) # Cardinality(upto(k))
    <2>1. upto(i) \subseteq upto(k) /\ k \notin upto(i)
      BY <1>1, <1>3
    <2>2. IsFiniteSet(upto(k)) /\ k \in upto(k)
      BY <1>2
    <2> HIDE DEF upto
    <2> QED
      BY <2>1, <2>2, FS_Subset
  <1>4. slot \in Injection(1..n, slots)
    <2>1. slot \in [1..n -> slots]
      <3> HIDE DEF upto
      <3> QED
        BY <1>1, <1>2
    <2>2. ASSUME NEW i \in 1..n, NEW k \in 1..n, slot[i] = slot[k]
          PROVE  i = k
      <3>1. stack[i] = stack[k] /\ Cardinality(upto(i)) = Cardinality(upto(k))
        BY <2>2
      <3> HIDE DEF upto, slot
      <3> QED
        BY <1>1, <1>3, <3>1
    <2> HIDE DEF slot, slots
    <2> QED
      BY <2>1, <2>2 DEF Injection, IsInjective
  <1>5. IsFiniteSet(slots) /\ Cardinality(slots) = Cardinality(Models) * depth
    <2>1. IsFiniteSet(Models) /\ IsFiniteSet(1..depth) /\ Cardinality(1..depth) = depth
      BY PresetGraphAssumption, FS_Interval
    <2> QED
      BY <2>1, FS_Product
  <1>6. Cardinality(1..n) <= Cardinality(slots) /\ Cardinality(1..n) = n
    <2>1. Cardinality(1..n) = n
      BY <1>1, FS_Interval
    <2> HIDE DEF slot, slots
    <2> QED
      BY <1>4, <1>5, <2>1, FS_Injection
  <1> QED
    BY <1>5, <1>6 DEF n

LEMMA VisitsOfAppend ==
    ASSUME NEW stack \in Seq(Models), NEW to \in Models
    PROVE  /\ Visits(stack, to) \in Nat
           /\ Visits(Append(stack, to), to) = Visits(stack, to) + 1
           /\ \A m \in Models : m # to => Visits(Append(stack, to), m) = Visits(stack, m)
  <1> DEFINE n == Len(stack)
             at(m) == {i \in DOMAIN stack : stack[i] = m}
             longer == Append(stack, to)
  <1>1. /\ n \in Nat /\ DOMAIN stack = 1..n /\ DOMAIN longer = 1..(n + 1)
        /\ \A i \in 1..n : longer[i] = stack[i]
        /\ longer[n + 1] = to
    OBVIOUS
  <1> HIDE DEF n, longer
  <1>2. {i \in DOMAIN longer : longer[i] = to} = at(to) \cup {n + 1}
    BY <1>1
  <1>3. \A m \in Models : m # to => {i \in DOMAIN longer : longer[i] = m} = at(m)
    BY <1>1
  <1>4. IsFiniteSet(at(to)) /\ n + 1 \notin at(to)
    <2>1. IsFiniteSet(1..n)
      BY <1>1, FS_Interval
    <2> QED
      BY <1>1, <2>1, FS_Subset
  <1>5. Visits(stack, to) = Cardinality(at(to)) /\ \A m : Visits(stack, m) = Cardinality(at(m))
    BY DEF Visits
  <1> HIDE DEF at
  <1>6. Cardinality(at(to) \cup {n + 1}) = Cardinality(at(to)) + 1 /\ Cardinality(at(to)) \in Nat
    BY <1>4, FS_AddElement, FS_CardinalityType
  <1>7. Visits(longer, to) = Cardinality(at(to)) + 1
    BY <1>2, <1>6 DEF Visits
  <1>8. \A m \in Models : m # to => Visits(longer, m) = Visits(stack, m)
    BY <1>3, <1>5 DEF Visits
  <1> QED
    BY <1>5, <1>6, <1>7, <1>8 DEF longer

(* No field lets a walk come to a model more than depth times. *)
DepthAtMost(depth) ==
    \A p \in Presets : \A f \in PresetFields(p) :
        Declared(p[1], f.source) => ResolveMaxDepth(f.max, Rel(p[1], f.source).max) <= depth

(* Following belongs_to fields, one gets from preset to preset downwards. *)
Descends(height) ==
    /\ height \in [Presets -> 0..(StackLimit - 1)]
    /\ \A p \in Presets : \A f \in PresetFields(p) :
          Rel(p[1], f.source).kind = "belongs_to" => height[NestedOf(p, f)] < height[p]

(* The stack is deep enough for max_depth, and no belongs_to field of a     *)
(* preset leads back to the preset, for which the request has no bound.     *)
StackSuffices ==
    /\ \E depth \in Nat \ {0} : DepthAtMost(depth) /\ Cardinality(Models) * depth <= StackLimit
    /\ \E height : Descends(height)

(* A place of a walk at startup, and one of a request. *)
StandsWithin(fr, depth) == Standing(fr) /\ \A m \in Models : Visits(fr.stack, m) <= depth

ScansWithin(fr, height) ==
    fr.preset \in Presets /\ fr.path \in Seq(Names) /\ Len(fr.path) + height[fr.preset] < StackLimit

WalksWithin(depth, height) ==
    IF phase \in {"validate", "collect"} THEN \A fr \in todo : StandsWithin(fr, depth)
    ELSE IF phase = "scan" THEN \A fr \in todo : ScansWithin(fr, height)
    ELSE todo = {}

LEMMA SameBounds ==
    ASSUME registry' = registry
    PROVE  /\ \A depth : DepthAtMost(depth)' <=> DepthAtMost(depth)
           /\ \A height : Descends(height)' <=> Descends(height)
           /\ \A fr, depth : StandsWithin(fr, depth)' <=> StandsWithin(fr, depth)
           /\ \A fr, height : ScansWithin(fr, height)' <=> ScansWithin(fr, height)
  <1>1. Presets' = Presets /\ \A fr : Standing(fr)' <=> Standing(fr)
    BY SameRegistry
  <1>2. /\ \A p : PresetFields(p)' = PresetFields(p)
        /\ \A m, s : Rel(m, s)' = Rel(m, s) /\ (Declared(m, s)' <=> Declared(m, s))
        /\ \A p, f : NestedOf(p, f)' = NestedOf(p, f)
    BY DEF PresetFields, Fields, Rel, Declared, NestedOf
  <1> QED
    BY <1>1, <1>2 DEF DepthAtMost, Descends, StandsWithin, ScansWithin

LEMMA RootsWithin ==
    ASSUME registry \in Registries, NEW depth \in Nat \ {0}
    PROVE  \A fr \in RootFrames : StandsWithin(fr, depth)
  <1> SUFFICES ASSUME NEW p \in Presets, NEW m \in Models
               PROVE  Visits(<<p[1]>>, m) <= depth
    BY RootsStand DEF RootFrames, RootFrame, StandsWithin
  <1>1. {i \in DOMAIN <<p[1]>> : <<p[1]>>[i] = m} \subseteq {1}
    OBVIOUS
  <1>2. IsFiniteSet({1}) /\ Cardinality({1}) = 1
    BY FS_Singleton
  <1>3. Visits(<<p[1]>>, m) \in Nat /\ Visits(<<p[1]>>, m) <= 1
    BY <1>1, <1>2, FS_Subset, FS_CardinalityType DEF Visits
  <1> QED
    BY <1>3

(* A field that is not capped comes to its model once more, within depth. *)
LEMMA ChildWithin ==
    ASSUME registry \in Registries, Linkable, NEW depth \in Nat \ {0}, DepthAtMost(depth),
           NEW fr, StandsWithin(fr, depth), NEW f \in Collected(fr), ~Capped(fr, f)
    PROVE  StandsWithin(ChildFrame(fr, f), depth)
  <1> DEFINE r == Rel(fr.preset[1], f.source)
             to == r.to
  <1>1. /\ Standing(fr) /\ fr.preset \in Presets /\ fr.stack \in Seq(Models)
        /\ f \in PresetFields(fr.preset) /\ ~Polymorphic(fr.preset[1], f.source)
    BY DEF Standing, StandsWithin, Collected
  <1>2. /\ Declared(fr.preset[1], f.source) /\ NestedOf(fr.preset, f)[1] = to /\ to \in Models
    BY <1>1, LinkedField
  <1>3. ChildFrame(fr, f).stack = Append(fr.stack, to)
    BY <1>2 DEF ChildFrame
  <1>4. ResolveMaxDepth(f.max, r.max) <= depth /\ ResolveMaxDepth(f.max, r.max) \in Int
    <2>1. r.max \in Int /\ f.max \in Int
      <3>1. f.source \in DOMAIN registry.relations[fr.preset[1]]
        BY <1>2 DEF Declared
      <3>2. fr.preset[1] \in Models
        BY <1>1, RegistriesAssumption DEF Presets
      <3>3. r.max \in Int
        BY <3>1, <3>2, RegistriesAssumption DEF Rel
      <3>4. f.max \in Int
        BY <1>1, RegistriesAssumption DEF Presets, PresetFields, Fields
      <3> QED
        BY <3>3, <3>4
    <2>2. ResolveMaxDepth(f.max, r.max) \in Int
      BY <2>1, PresetGraphAssumption DEF ResolveMaxDepth
    <2> QED
      BY <1>1, <1>2, <2>2 DEF DepthAtMost
  <1>5. Visits(fr.stack, to) = 0 \/ Visits(fr.stack, to) < ResolveMaxDepth(f.max, r.max)
    <2>1. Visits(fr.stack, to) \in Nat
      BY <1>1, <1>2, VisitsOfAppend
    <2>2. ~(Visits(fr.stack, to) > 0 /\ Visits(fr.stack, to) >= ResolveMaxDepth(f.max, r.max))
      BY DEF Capped, Reenters, DepthReached
    <2> HIDE DEF r, to
    <2> QED
      BY <1>4, <2>1, <2>2
  <1>6. \A m \in Models : Visits(Append(fr.stack, to), m) <= depth
    <2> HIDE DEF r
    <2>1. /\ Visits(fr.stack, to) \in Nat
          /\ Visits(Append(fr.stack, to), to) = Visits(fr.stack, to) + 1
          /\ \A m \in Models : m # to => Visits(Append(fr.stack, to), m) = Visits(fr.stack, m)
      <3> HIDE DEF to
      <3> QED
        BY <1>1, <1>2, VisitsOfAppend
    <2>2. Visits(Append(fr.stack, to), to) <= depth
      <3> HIDE DEF to
      <3> QED
        BY <1>4, <1>5, <2>1
    <2> HIDE DEF to
    <2> QED
      BY <2>1, <2>2 DEF StandsWithin
  <1>7. Standing(ChildFrame(fr, f))
    BY <1>1, ChildStands
  <1> HIDE DEF to
  <1> QED
    BY <1>3, <1>6, <1>7 DEF StandsWithin

LEMMA ScanWithin ==
    ASSUME registry \in Registries, Linkable, StackLimit \in Nat,
           NEW height, Descends(height), NEW fr, ScansWithin(fr, height),
           NEW f \in OfKind(fr, {"belongs_to"})
    PROVE  ScansWithin(ChildFrame(fr, f), height)
  <1>1. /\ f \in PresetFields(fr.preset) /\ fr.preset \in Presets
        /\ Rel(fr.preset[1], f.source).kind = "belongs_to"
        /\ ~Polymorphic(fr.preset[1], f.source)
    BY DEF OfKind, Polymorphic, ScansWithin
  <1>2. NestedOf(fr.preset, f) \in Presets /\ f.source \in Names
    BY <1>1, LinkedField
  <1>3. height[NestedOf(fr.preset, f)] < height[fr.preset]
    BY <1>1 DEF Descends
  <1>4. height[NestedOf(fr.preset, f)] \in Nat /\ height[fr.preset] \in Nat
    BY <1>1, <1>2 DEF Descends
  <1>5. Append(fr.path, f.source) \in Seq(Names) /\ Len(Append(fr.path, f.source)) = Len(fr.path) + 1
        /\ Len(fr.path) \in Nat
    BY <1>2 DEF ScansWithin
  <1>6. Len(fr.path) + height[fr.preset] < StackLimit
    BY DEF ScansWithin
  <1>7. Len(fr.path) + 1 + height[NestedOf(fr.preset, f)] < StackLimit
    BY <1>3, <1>4, <1>5, <1>6
  <1> QED
    BY <1>2, <1>5, <1>7 DEF ScansWithin, ChildFrame

LEMMA WalksStep ==
    ASSUME IndInv, Next, NEW depth \in Nat \ {0}, NEW height, DepthAtMost(depth), Descends(height),
           WalksWithin(depth, height)
    PROVE  WalksWithin(depth, height)'
  <1>1. registry \in Registries /\ registry' = registry
    BY DEF IndInv, Next, Link, Validate, StartCollecting, Collect, FinishStartup, Request,
           NextExtraPath, EnsureSegment, EnsureDone, EnsureFails, StartScan, Scan, DetectJoins,
           CallTail, Respond, BeginCall, startVars
  <1>2. /\ \A fr : StandsWithin(fr, depth)' <=> StandsWithin(fr, depth)
        /\ \A fr : ScansWithin(fr, height)' <=> ScansWithin(fr, height)
    BY <1>1, SameBounds
  <1>3. CASE Link
    <2>1. CASE phase' = "validate"
      <3>1. todo' = RootFrames
        BY <1>3, <2>1 DEF Link
      <3>2. \A fr \in todo' : StandsWithin(fr, depth)'
        BY <1>1, <1>2, <3>1, RootsWithin
      <3> QED
        BY <2>1, <3>2 DEF WalksWithin
    <2>2. CASE phase' # "validate"
      BY <1>3, <2>2 DEF Link, WalksWithin
    <2> QED
      BY <2>1, <2>2
  <1>4. CASE Validate
    <2>1. CASE \E fr \in todo : \E f \in Fields(fr.preset) : Invalid(fr, f)
      <3>1. phase' = "failed" /\ todo' = {}
        BY <1>4, <2>1 DEF Validate
      <3> QED
        BY <3>1 DEF WalksWithin
    <2>2. CASE ~ \E fr \in todo : \E f \in Fields(fr.preset) : Invalid(fr, f)
      <3>1. /\ phase = "validate" /\ phase' = "validate"
            /\ todo' = UNION {{ChildFrame(fr, f) : f \in {g \in Fields(fr.preset) :
                            ~Polymorphic(fr.preset[1], g.source) /\ ~Capped(fr, g)}} :
                        fr \in todo}
        BY <1>4, <2>2 DEF Validate
      <3>2. Linkable /\ \A fr \in todo : StandsWithin(fr, depth)
        BY <3>1 DEF IndInv, Linked, WalksWithin
      <3>3. ASSUME NEW fr \in todo, NEW f \in Fields(fr.preset),
                   ~Polymorphic(fr.preset[1], f.source), ~Capped(fr, f)
            PROVE  StandsWithin(ChildFrame(fr, f), depth)
        <4>1. f \in Collected(fr)
          BY <2>2, <3>3 DEF Invalid, Collected, PresetFields
        <4> QED
          BY <1>1, <3>2, <3>3, <4>1, ChildWithin
      <3>4. \A fr \in todo' : StandsWithin(fr, depth)
        BY <3>1, <3>3
      <3> QED
        BY <1>2, <3>1, <3>4 DEF WalksWithin
    <2> QED
      BY <2>1, <2>2
  <1>5. CASE StartCollecting
    <2>1. phase' = "collect" /\ todo' = RootFrames
      BY <1>5 DEF StartCollecting
    <2>2. \A fr \in todo' : StandsWithin(fr, depth)'
      BY <1>1, <1>2, <2>1, RootsWithin
    <2> QED
      BY <2>1, <2>2 DEF WalksWithin
  <1>6. CASE Collect
    <2>1. /\ phase = "collect" /\ phase' = "collect"
          /\ todo' = UNION {{ChildFrame(fr, f) : f \in {g \in Collected(fr) : ~Cut(fr, g)}} :
                         fr \in todo}
      BY <1>6 DEF Collect
    <2>2. Linkable /\ \A fr \in todo : StandsWithin(fr, depth)
      BY <2>1 DEF IndInv, Linked, WalksWithin
    <2>3. ASSUME NEW fr \in todo, NEW f \in Collected(fr), ~Cut(fr, f)
          PROVE  StandsWithin(ChildFrame(fr, f), depth)
      <3>1. ~Capped(fr, f)
        BY <2>3 DEF Cut, Capped
      <3> QED
        BY <1>1, <2>2, <3>1, ChildWithin
    <2>4. \A fr \in todo' : StandsWithin(fr, depth)
      BY <2>1, <2>3
    <2> QED
      BY <1>2, <2>1, <2>4 DEF WalksWithin
  <1>7. CASE StartScan
    <2>1. phase' = "scan" /\ todo' = {RootFrame(preset, trail)} /\ preset \in Presets
      BY <1>7 DEF StartScan, IndInv, CallInv, Called
    <2>2. ScansWithin(RootFrame(preset, trail), height)
      <3>1. <<>> \in Seq(Names) /\ Len(<<>>) = 0
        OBVIOUS
      <3>2. height[preset] \in 0..(StackLimit - 1)
        BY <2>1 DEF Descends
      <3>3. 0 + height[preset] < StackLimit
        BY <3>2, PresetGraphAssumption
      <3> QED
        BY <2>1, <3>1, <3>3 DEF ScansWithin, RootFrame
    <2>3. \A fr \in todo' : ScansWithin(fr, height)'
      BY <1>2, <2>1, <2>2
    <2> QED
      BY <2>1, <2>3 DEF WalksWithin
  <1>8. CASE Scan
    <2>1. /\ phase = "scan" /\ phase' = "scan"
          /\ todo' = UNION {{ChildFrame(fr, f) : f \in OfKind(fr, {"belongs_to"})} : fr \in todo}
      BY <1>8 DEF Scan
    <2>2. Linkable /\ \A fr \in todo : ScansWithin(fr, height)
      BY <2>1 DEF IndInv, Linked, WalksWithin
    <2>3. \A fr \in todo : \A f \in OfKind(fr, {"belongs_to"}) : ScansWithin(ChildFrame(fr, f), height)
      BY <1>1, <2>2, ScanWithin, PresetGraphAssumption
    <2>4. \A fr \in todo' : ScansWithin(fr, height)
      BY <2>1, <2>3
    <2> QED
      BY <1>2, <2>1, <2>4 DEF WalksWithin
  <1>9. CASE FinishStartup \/ Request \/ NextExtraPath \/ EnsureSegment \/ EnsureDone \/ EnsureFails
               \/ DetectJoins \/ CallTail \/ Respond
    <2>1. todo = {} /\ todo' = todo /\ phase' \notin {"validate", "collect", "scan"}
      BY <1>9 DEF FinishStartup, Request, NextExtraPath, EnsureSegment, EnsureDone, EnsureFails,
           DetectJoins, CallTail, Respond, BeginCall, AtSegment, WalksWithin
    <2> QED
      BY <2>1 DEF WalksWithin
  <1> QED
    BY <1>3, <1>4, <1>5, <1>6, <1>7, <1>8, <1>9 DEF Next

EndInv ==
    \E depth \in Nat \ {0} : \E height :
        /\ DepthAtMost(depth) /\ Cardinality(Models) * depth <= StackLimit
        /\ Descends(height)
        /\ WalksWithin(depth, height)

(* No walk recurses without end, whatever the models and their relations,   *)
(* if max_depth times the models fits the stack and belongs_to fields do    *)
(* not lead back to their preset: what max_depth is for.                    *)
(* (registry_validation.go, CreateAliasMap.go, ScanColumns.go)              *)
THEOREM RecursionAlwaysEnds == Spec /\ StackSuffices => []RecursionEnds
  <1>1. ASSUME Init, StackSuffices
        PROVE  EndInv
    <2>1. PICK depth \in Nat \ {0} : DepthAtMost(depth) /\ Cardinality(Models) * depth <= StackLimit
      BY <1>1 DEF StackSuffices
    <2>2. PICK height : Descends(height)
      BY <1>1 DEF StackSuffices
    <2>3. WalksWithin(depth, height)
      BY <1>1 DEF Init, WalksWithin
    <2> QED
      BY <2>1, <2>2, <2>3 DEF EndInv
  <1>2. ASSUME IndInv, EndInv, [Next]_vars
        PROVE  EndInv'
    <2>0. PICK depth \in Nat \ {0} : \E height :
             /\ DepthAtMost(depth) /\ Cardinality(Models) * depth <= StackLimit
             /\ Descends(height) /\ WalksWithin(depth, height)
      BY <1>2 DEF EndInv
    <2>1. PICK height :
             /\ DepthAtMost(depth) /\ Cardinality(Models) * depth <= StackLimit
             /\ Descends(height) /\ WalksWithin(depth, height)
      BY <2>0
    <2>2. registry' = registry
      BY <1>2 DEF Next, Link, Validate, StartCollecting, Collect, FinishStartup, Request,
           NextExtraPath, EnsureSegment, EnsureDone, EnsureFails, StartScan, Scan, DetectJoins,
           CallTail, Respond, BeginCall, startVars, vars
    <2>3. DepthAtMost(depth)' /\ Descends(height)'
      BY <2>1, <2>2, SameBounds
    <2>4. WalksWithin(depth, height)'
      <3>1. CASE UNCHANGED vars
        BY <2>1, <2>2, <3>1, SameBounds DEF WalksWithin, vars
      <3>2. CASE Next
        BY <1>2, <2>1, <3>2, WalksStep
      <3> QED
        BY <1>2, <3>1, <3>2
    <2> QED
      BY <2>1, <2>3, <2>4 DEF EndInv
  <1>3. ASSUME IndInv, EndInv
        PROVE  RecursionEnds
    <2> SUFFICES ASSUME NEW fr \in todo, Len(fr.path) >= StackLimit PROVE FALSE
      BY DEF RecursionEnds, StackOverflows
    <2>0. PICK depth \in Nat \ {0} : \E height :
             /\ DepthAtMost(depth) /\ Cardinality(Models) * depth <= StackLimit
             /\ Descends(height) /\ WalksWithin(depth, height)
      BY <1>3 DEF EndInv
    <2>1. PICK height :
             /\ DepthAtMost(depth) /\ Cardinality(Models) * depth <= StackLimit
             /\ Descends(height) /\ WalksWithin(depth, height)
      BY <2>0
    <2>2. CASE phase \in {"validate", "collect"}
      <3>1. StandsWithin(fr, depth)
        BY <2>1, <2>2 DEF WalksWithin
      <3>2. fr.stack \in Seq(Models) /\ Len(fr.stack) = Len(fr.path) + 1 /\ Len(fr.path) \in Nat
        BY <3>1 DEF StandsWithin, Standing
      <3>3. Len(fr.stack) <= Cardinality(Models) * depth
        BY <3>1, <3>2, StackIsShort DEF StandsWithin
      <3>4. Cardinality(Models) * depth \in Nat
        <4>1. Cardinality(Models) \in Nat
          BY PresetGraphAssumption, FS_CardinalityType
        <4> QED
          BY <4>1
      <3> QED
        BY <2>1, <3>2, <3>3, <3>4, PresetGraphAssumption
    <2>3. CASE phase = "scan"
      <3>1. ScansWithin(fr, height)
        BY <2>1, <2>3 DEF WalksWithin
      <3>2. height[fr.preset] \in Nat /\ Len(fr.path) \in Nat
        BY <2>1, <3>1 DEF Descends, ScansWithin
      <3> QED
        BY <3>1, <3>2, PresetGraphAssumption DEF ScansWithin
    <2> QED
      BY <2>1, <2>2, <2>3 DEF WalksWithin
  <1> QED
    BY <1>1, <1>2, <1>3, Inductive, PTL DEF Spec

-----------------------------------------------------------------------------
(* What the walk at startup has recorded, the walk of a request finds.     *)

(* Going down the belongs_to fields from any preset, max_depth is not met. *)
WalkedUncut(S) ==
    /\ RootFrames \subseteq S
    /\ \A fr \in S : \A f \in OfKind(fr, {"belongs_to"}) :
          ~Capped(fr, f) /\ ChildFrame(fr, f) \in S

(* ps are the presets the relations of a template's token lead to, by fields *)
(* that the presets before them select.                                      *)
Selects(p, token, ps) ==
    /\ ps[1] = p
    /\ \A i \in 1..Len(token) : \E f \in PresetFields(ps[i]) :
          /\ f.source = token[i] /\ ~Polymorphic(ps[i][1], f.source)
          /\ i < Len(token) => Rel(ps[i][1], f.source).kind = "belongs_to"
          /\ ps[i + 1] = NestedOf(ps[i], f)

(* A template names only what the preset selects: a relation of one of its   *)
(* fields, or of the presets its belongs_to fields nest, and so on.          *)
TokensSelected ==
    \A p \in Presets : \A token \in registry.tokens[p] :
        token \in Seq(Names) /\ \E ps : Selects(p, token, ps)

NothingCutOff == (\E S : WalkedUncut(S)) /\ TokensSelected

(* A place whose fields are in order and have their paths recorded, and     *)
(* from which the walk at startup goes on to places of S.                   *)
Recorded(fr, S) ==
    /\ Placed(fr)
    /\ \A f \in Fields(fr.preset) : ~Invalid(fr, f)
    /\ \A f \in Collected(fr) :
          /\ Append(fr.path, f.source) \in paths[fr.root]
          /\ ~Cut(fr, f) => ChildFrame(fr, f) \in S

CoverInv ==
    phase = "collect" =>
        \E V : RootFrames \subseteq V \cup todo /\ \A fr \in V : Recorded(fr, V \cup todo)

(* The places of the walk down belongs_to fields, all recorded. *)
Selection(B) ==
    /\ RootFrames \subseteq B
    /\ \A fr \in B : /\ Placed(fr)
                     /\ \A f \in Collected(fr) : Append(fr.path, f.source) \in paths[fr.root]
                     /\ \A f \in OfKind(fr, {"belongs_to"}) :
                           f \in Collected(fr) /\ ChildFrame(fr, f) \in B

(* The request is at the same place of its preset, if by another way. *)
Shadowed(fr, B) ==
    \E sh \in B : sh.root = preset /\ fr.root = preset /\ sh.path = fr.path /\ sh.preset = fr.preset

SelectionInv ==
    phase = "ready" \/ Called =>
        \E B : Selection(B) /\ (phase = "scan" => \A fr \in todo : Shadowed(fr, B))

(* A path to join has aliases, or is about to get them. *)
JoinsInv ==
    phase \in {"alias", "scan"} =>
        \A j \in joins :
            \/ Joined(j) \subseteq DOMAIN aliasMap
            \/ phase = "alias" /\ (j \in extra \/ j = cursor.path)

LEMMA SameSelection ==
    ASSUME registry' = registry
    PROVE  /\ \A S : WalkedUncut(S)' <=> WalkedUncut(S)
           /\ TokensSelected' <=> TokensSelected
           /\ \A fr : Collected(fr)' = Collected(fr)
           /\ \A fr, f : /\ Cut(fr, f)' <=> Cut(fr, f)
                         /\ Invalid(fr, f)' <=> Invalid(fr, f)
                         /\ ChildFrame(fr, f)' = ChildFrame(fr, f)
           /\ \A fr, kinds : OfKind(fr, kinds)' = OfKind(fr, kinds)
           /\ \A p : Fields(p)' = Fields(p)
  <1>1. /\ \A p : PresetFields(p)' = PresetFields(p) /\ Fields(p)' = Fields(p)
        /\ \A m, s : Rel(m, s)' = Rel(m, s) /\ (Declared(m, s)' <=> Declared(m, s))
        /\ \A m, s : Polymorphic(m, s)' <=> Polymorphic(m, s)
        /\ \A p, f : NestedOf(p, f)' = NestedOf(p, f)
        /\ Presets' = Presets /\ RootFrames' = RootFrames
    BY DEF PresetFields, Fields, Rel, Declared, NestedOf, Polymorphic, Presets, RootFrames
  <1>2. \A fr, f : (Reenters(fr, f)' <=> Reenters(fr, f)) /\ (DepthReached(fr, f)' <=> DepthReached(fr, f))
    BY <1>1 DEF Reenters, DepthReached
  <1>3. \A fr, f : (Capped(fr, f)' <=> Capped(fr, f)) /\ (Cut(fr, f)' <=> Cut(fr, f))
    BY <1>1, <1>2 DEF Capped, Cut
  <1>4. \A fr, f : Invalid(fr, f)' <=> Invalid(fr, f)
    BY <1>1, <1>2 DEF Invalid
  <1>5. \A fr, f : ChildFrame(fr, f)' = ChildFrame(fr, f)
    BY <1>1 DEF ChildFrame
  <1>6. /\ \A fr : Collected(fr)' = Collected(fr)
        /\ \A fr, kinds : OfKind(fr, kinds)' = OfKind(fr, kinds)
    BY <1>1 DEF Collected, OfKind
  <1>7. \A S : WalkedUncut(S)' <=> WalkedUncut(S)
    BY <1>1, <1>3, <1>5, <1>6 DEF WalkedUncut
  <1>8. TokensSelected' <=> TokensSelected
    <2>1. \A p, token, ps : Selects(p, token, ps)' <=> Selects(p, token, ps)
      BY <1>1 DEF Selects
    <2> QED
      BY <1>1, <2>1 DEF TokensSelected
  <1> QED
    BY <1>1, <1>3, <1>4, <1>5, <1>6, <1>7, <1>8

LEMMA RegistryStays ==
    ASSUME [Next]_vars
    PROVE  registry' = registry
  BY DEF Next, Link, Validate, StartCollecting, Collect, FinishStartup, Request,
         NextExtraPath, EnsureSegment, EnsureDone, EnsureFails, StartScan, Scan, DetectJoins,
         CallTail, Respond, BeginCall, startVars, vars

(* The collection of paths records everything at the places it leaves. *)
LEMMA CoverStep ==
    ASSUME IndInv, IndInv', CoverInv, Next
    PROVE  CoverInv'
  <1>1. registry' = registry
    BY RegistryStays
  <1>2. CASE phase' # "collect"
    BY <1>2 DEF CoverInv
  <1>3. CASE StartCollecting
    <2>1. PICK V : V = {}
      OBVIOUS
    <2>2. RootFrames' \subseteq V \cup todo' /\ \A fr \in V : Recorded(fr, V \cup todo)'
      BY <1>1, <1>3, <2>1, SameRegistry DEF StartCollecting
    <2> QED
      BY <2>2 DEF CoverInv
  <1>4. CASE Collect
    <2> DEFINE next == UNION {{ChildFrame(fr, f) : f \in {g \in Collected(fr) : ~Cut(fr, g)}} :
                               fr \in todo}
    <2>1. /\ phase = "collect" /\ todo' = next
          /\ paths' = [p \in Presets |-> paths[p] \cup Found(p)]
      BY <1>4 DEF Collect, Found
    <2>2. PICK V : RootFrames \subseteq V \cup todo /\ \A fr \in V : Recorded(fr, V \cup todo)
      BY <2>1 DEF CoverInv
    <2>3. \A fr \in todo : Placed(fr) /\ \A f \in Fields(fr.preset) : ~Invalid(fr, f)
      BY <2>1 DEF IndInv, CollectInv, ValidInv, Passed
    <2>4. \A fr : Placed(fr) => Placed(fr)'
      <3>1. \A fr : Standing(fr) => fr.root \in Presets
        BY DEF Standing
      <3> QED
        BY <1>1, <2>1, <3>1, SameRegistry DEF Placed
    <2>5. ASSUME NEW fr \in V \cup todo
          PROVE  /\ Placed(fr) /\ \A f \in Fields(fr.preset) : ~Invalid(fr, f)
                 /\ \A f \in Collected(fr) :
                       /\ Append(fr.path, f.source) \in paths'[fr.root]
                       /\ ~Cut(fr, f) => ChildFrame(fr, f) \in (V \cup todo) \cup next
      <3>1. fr.root \in Presets
        BY <2>2, <2>3 DEF Recorded, Placed, Standing
      <3>2. CASE fr \in V
        BY <2>1, <2>2, <3>1, <3>2 DEF Recorded
      <3>3. CASE fr \in todo
        <4>1. \A f \in Collected(fr) : Append(fr.path, f.source) \in Found(fr.root)
          BY <3>3 DEF Found
        <4>2. \A f \in Collected(fr) : ~Cut(fr, f) => ChildFrame(fr, f) \in next
          BY <3>3
        <4> QED
          BY <2>1, <2>3, <3>1, <3>3, <4>1, <4>2
      <3> QED
        BY <3>2, <3>3
    <2>6. PICK V2 : V2 = V \cup todo
      OBVIOUS
    <2>7. \A fr \in V2 : Recorded(fr, V2 \cup todo)'
      <3>1. PICK ahead : ahead = next
        OBVIOUS
      <3>2. \A fr \in V2 : Recorded(fr, V2 \cup ahead)'
        BY <1>1, <2>4, <2>5, <2>6, <3>1, SameSelection DEF Recorded
      <3> QED
        BY <2>1, <3>1, <3>2
    <2>8. RootFrames' \subseteq V2 \cup todo'
      BY <1>1, <2>2, <2>6, SameRegistry
    <2> QED
      BY <2>7, <2>8 DEF CoverInv
  <1>5. Next /\ phase' = "collect" => StartCollecting \/ Collect
    BY DEF Next, Link, Validate, StartCollecting, Collect, FinishStartup, Request, BeginCall,
           NextExtraPath, EnsureSegment, EnsureDone, EnsureFails, StartScan, Scan, DetectJoins,
           CallTail, Respond, AtSegment
  <1> QED
    BY <1>2, <1>3, <1>4, <1>5

(* Where it is over, the places down the belongs_to fields are all recorded, *)
(* since nothing is cut off there.                                           *)
LEMMA SelectionFound ==
    ASSUME IndInv, CoverInv, phase = "collect", todo = {}, NEW S, WalkedUncut(S)
    PROVE  \E B : Selection(B)
  <1>1. PICK V : RootFrames \subseteq V \cup todo /\ \A fr \in V : Recorded(fr, V \cup todo)
    BY DEF CoverInv
  <1>2. V \cup todo = V
    OBVIOUS
  <1> DEFINE B == V \cap S
  <1>3. RootFrames \subseteq B
    BY <1>1, <1>2 DEF WalkedUncut
  <1>4. ASSUME NEW fr \in B, NEW f \in OfKind(fr, {"belongs_to"})
        PROVE  f \in Collected(fr) /\ ChildFrame(fr, f) \in B
    <2>1. Recorded(fr, V) /\ ~Capped(fr, f) /\ ChildFrame(fr, f) \in S
      BY <1>1, <1>2 DEF WalkedUncut
    <2>2. f \in Fields(fr.preset) /\ f \in PresetFields(fr.preset) /\ ~Polymorphic(fr.preset[1], f.source)
      BY DEF OfKind, PresetFields, Polymorphic
    <2>3. ~Invalid(fr, f)
      BY <2>1, <2>2 DEF Recorded
    <2>4. f \in Collected(fr) /\ ~Cut(fr, f)
      BY <2>1, <2>2, <2>3 DEF Collected, Invalid, Cut, Capped
    <2> QED
      BY <2>1, <2>4 DEF Recorded
  <1>5. \A fr \in B : /\ Placed(fr)
                      /\ \A f \in Collected(fr) : Append(fr.path, f.source) \in paths[fr.root]
    BY <1>1 DEF Recorded
  <1>6. Selection(B)
    BY <1>3, <1>4, <1>5 DEF Selection
  <1> QED
    BY <1>6

LEMMA JoinedUpTo ==
    ASSUME NEW path \in Seq(Names), NEW k \in 0..Len(path), NEW ms,
           Reaches(preset[1], path, k, ms), k < Len(path) => ~Joins(ms[k + 1], path[k + 1])
    PROVE  Joined(path) \subseteq {SubSeq(path, 1, i) : i \in 1..k}
  <1> SUFFICES ASSUME NEW n \in 1..Len(path), ModelsAlong(preset[1], path)[n] # {}
               PROVE  n \in 1..k
    BY DEF Joined
  <1>1. n \in 0..Len(path) /\ k \in Nat
    OBVIOUS
  <1>2. ModelsAlong(preset[1], path)[n] = IF n <= k THEN {ms[n + 1]} ELSE {}
    BY <1>1, AlongWay
  <1> QED
    BY <1>1, <1>2

LEMMA JoinedArePrefixes ==
    ASSUME NEW path
    PROVE  Joined(path) \subseteq Prefixes(path)
  BY DEF Joined, Prefixes

LEMMA AppendToConcat ==
    ASSUME NEW q \in Seq(Names), NEW r \in Seq(Names), NEW s \in Names
    PROVE  Append(q \o r, s) = q \o Append(r, s)
  <1> DEFINE a == Append(q \o r, s)
             b == q \o Append(r, s)
  <1>1. a \in Seq(Names) /\ b \in Seq(Names) /\ Len(a) = Len(b)
    OBVIOUS
  <1>2. \A i \in 1..Len(a) : a[i] = b[i]
    OBVIOUS
  <1> HIDE DEF a, b
  <1>3. a = b
    BY <1>1, <1>2, SeqEqual
  <1> QED
    BY <1>3 DEF a, b

(* The path of a template's token is recorded. *)
LEMMA TokenRecorded ==
    ASSUME registry \in Registries, Linkable, NEW B, Selection(B), NEW sh \in B,
           NEW token \in Seq(Names), NEW ps, Selects(sh.preset, token, ps)
    PROVE  sh.path \o token = <<>> \/ sh.path \o token \in paths[sh.root]
  <1> DEFINE n == Len(token)
             upto(i) == sh.path \o SubSeq(token, 1, i)
             there(i) == \E g \in B : g.root = sh.root /\ g.path = upto(i) /\ g.preset = ps[i + 1]
             Good == {i \in Nat : i < n => there(i)}
  <1>1. n \in Nat /\ sh.path \in Seq(Names)
    BY DEF Selection, Placed, Standing
  <1>2. there(0)
    <2>1. upto(0) = sh.path
      BY <1>1
    <2> QED
      BY <2>1 DEF Selects
  <1>3. ASSUME NEW i \in 0..(n - 1)
        PROVE  Append(upto(i), token[i + 1]) = upto(i + 1)
    <2>1. SubSeq(token, 1, i + 1) = Append(SubSeq(token, 1, i), token[i + 1])
      BY <1>1
    <2>2. SubSeq(token, 1, i) \in Seq(Names) /\ token[i + 1] \in Names
      BY <1>1
    <2>3. Append(sh.path \o SubSeq(token, 1, i), token[i + 1])
             = sh.path \o Append(SubSeq(token, 1, i), token[i + 1])
      BY <1>1, <2>2, AppendToConcat, Zenon
    <2> QED
      BY <2>1, <2>3
  <1>4. ASSUME NEW i \in 0..(n - 1), there(i)
        PROVE  /\ upto(i + 1) \in paths[sh.root]
               /\ i + 1 < n => there(i + 1)
    <2>1. i + 1 \in 1..n
      BY <1>1
    <2>2. PICK g \in B : g.root = sh.root /\ g.path = upto(i) /\ g.preset = ps[i + 1]
      BY <1>4
    <2>3. PICK f \in PresetFields(ps[i + 1]) :
             /\ f.source = token[i + 1] /\ ~Polymorphic(ps[i + 1][1], f.source)
             /\ i + 1 < n => Rel(ps[i + 1][1], f.source).kind = "belongs_to"
             /\ ps[(i + 1) + 1] = NestedOf(ps[i + 1], f)
      BY <2>1 DEF Selects
    <2>4. f \in Collected(g)
      <3>1. g.preset \in Presets
        BY DEF Selection, Placed, Standing
      <3>2. Declared(g.preset[1], f.source)
        BY <2>2, <2>3, <3>1 DEF Linkable
      <3> QED
        BY <2>2, <2>3, <3>2 DEF Collected
    <2>5. Append(upto(i), f.source) \in paths[sh.root]
      BY <2>2, <2>4 DEF Selection
    <2>6. ASSUME i + 1 < n
          PROVE  there(i + 1)
      <3>1. f \in OfKind(g, {"belongs_to"})
        BY <2>2, <2>3, <2>6 DEF OfKind
      <3>2. ChildFrame(g, f) \in B
        BY <3>1 DEF Selection
      <3>3. /\ ChildFrame(g, f).root = sh.root /\ ChildFrame(g, f).preset = ps[(i + 1) + 1]
            /\ ChildFrame(g, f).path = upto(i + 1)
        BY <1>3, <2>2, <2>3 DEF ChildFrame
      <3> HIDE DEF upto
      <3> QED
        BY <3>2, <3>3
    <2> HIDE DEF upto, there
    <2> QED
      BY <1>3, <2>3, <2>5, <2>6
  <1>5. 0 \in Good
    <2> HIDE DEF there
    <2> QED
      BY <1>2
  <1>6. ASSUME NEW i \in Nat, i \in Good
        PROVE  i + 1 \in Good
    <2> HIDE DEF there, upto
    <2> QED
      BY <1>1, <1>4, <1>6
  <1>7. \A i \in Nat : i \in Good
    <2> HIDE DEF Good
    <2> QED
      BY <1>5, <1>6, InductionOnNats
  <1>8. CASE n = 0
    <2>1. sh.path \o token = sh.path
      BY <1>1, <1>8
    <2> QED
      BY <2>1 DEF Selection, Placed
  <1>9. CASE n # 0
    <2>1. n - 1 \in 0..(n - 1) /\ (n - 1) + 1 = n
      BY <1>1, <1>9
    <2>2. there(n - 1)
      <3>1. n - 1 \in Good
        <4>1. n - 1 \in Nat
          BY <1>1, <1>9
        <4> HIDE DEF Good
        <4> QED
          BY <1>7, <4>1
      <3> HIDE DEF there
      <3> QED
        BY <1>1, <2>1, <3>1
    <2>3. upto(n) \in paths[sh.root]
      <3> HIDE DEF there, upto
      <3> QED
        BY <1>4, <2>1, <2>2
    <2>4. SubSeq(token, 1, n) = token
      OBVIOUS
    <2> QED
      BY <2>3, <2>4
  <1> QED
    BY <1>8, <1>9

(* What the preset's columns, branches and templates join has an alias. *)
LEMMA ScannedHaveAliases ==
    ASSUME IndInv, phase = "scan", TokensSelected, NEW B, Selection(B), NEW fr \in todo, Shadowed(fr, B)
    PROVE  /\ \A f \in OfKind(fr, {"belongs_to", "polymorphic"}) :
                 Joined(Append(fr.path, f.source)) \subseteq DOMAIN aliasMap
           /\ \A token \in registry.tokens[fr.preset] :
                 Joined(fr.path \o token) \subseteq DOMAIN aliasMap
  <1>1. /\ registry \in Registries /\ Linkable /\ PathsInv /\ preset \in Presets
        /\ paths[preset] \subseteq DOMAIN aliasMap /\ Prefixed(DOMAIN aliasMap)
        /\ fr.preset \in Presets
    BY DEF IndInv, Linked, CallInv, Called, MapOK
  <1>2. PICK sh \in B : sh.root = preset /\ sh.path = fr.path /\ sh.preset = fr.preset
    BY DEF Shadowed
  <1>3. Placed(sh) /\ Standing(sh) /\ sh.path \in Seq(Names)
    BY DEF Selection, Placed, Standing
  <1>4. ASSUME NEW path, path = <<>> \/ path \in paths[preset]
        PROVE  Prefixes(path) \subseteq DOMAIN aliasMap
    <2>1. CASE path = <<>>
      BY <2>1 DEF Prefixes
    <2>2. CASE path \in paths[preset]
      BY <1>1, <2>2 DEF Prefixed
    <2> QED
      BY <1>4, <2>1, <2>2
  <1>5. ASSUME NEW f \in OfKind(fr, {"belongs_to"})
        PROVE  Joined(Append(fr.path, f.source)) \subseteq DOMAIN aliasMap
    <2>1. f \in OfKind(sh, {"belongs_to"})
      BY <1>2 DEF OfKind
    <2>2. Append(fr.path, f.source) \in paths[preset]
      BY <1>2, <2>1 DEF Selection
    <2> QED
      BY <1>4, <2>2, JoinedArePrefixes
  <1>6. ASSUME NEW f \in OfKind(fr, {"polymorphic"})
        PROVE  Joined(Append(fr.path, f.source)) \subseteq DOMAIN aliasMap
    <2> DEFINE path == Append(sh.path, f.source)
               k == Len(sh.path)
    <2>1. f.source \in Names /\ Polymorphic(sh.preset[1], f.source)
      <3>1. f \in PresetFields(fr.preset)
        BY DEF OfKind
      <3>2. f.source \in Names
        BY <1>1, <3>1, RegistriesAssumption DEF Presets, PresetFields, Fields
      <3> QED
        BY <1>2, <3>2 DEF OfKind, Polymorphic
    <2>2. /\ path \in Seq(Names) /\ Len(path) = k + 1 /\ k \in Nat /\ path[k + 1] = f.source
          /\ \A i \in 1..k : path[i] = sh.path[i]
      BY <1>3, <2>1
    <2>3. /\ sh.stack[1] = preset[1] /\ sh.stack[k + 1] = sh.preset[1]
          /\ Way(preset[1], sh.path, sh.stack)
      BY <1>2, <1>3 DEF Standing, Way
    <2> HIDE DEF path
    <2>4. Reaches(preset[1], path, k, sh.stack)
      BY <2>2, <2>3 DEF Reaches, Way
    <2>5. ~Joins(sh.stack[k + 1], path[k + 1])
      BY <2>1, <2>2, <2>3 DEF Joins
    <2>6. Joined(path) \subseteq {SubSeq(path, 1, i) : i \in 1..k}
      <3>1. k \in 0..Len(path)
        BY <2>2
      <3> QED
        BY <2>2, <2>4, <2>5, <3>1, JoinedUpTo
    <2>7. {SubSeq(path, 1, i) : i \in 1..k} = Prefixes(sh.path)
      <3>1. \A i \in 1..k : SubSeq(path, 1, i) = SubSeq(sh.path, 1, i)
        BY <1>3, <2>2
      <3> QED
        BY <3>1 DEF Prefixes
    <2>8. Prefixes(sh.path) \subseteq DOMAIN aliasMap
      BY <1>2, <1>3, <1>4 DEF Placed
    <2> QED
      BY <1>2, <2>6, <2>7, <2>8 DEF path
  <1>7. ASSUME NEW token \in registry.tokens[fr.preset]
        PROVE  Joined(fr.path \o token) \subseteq DOMAIN aliasMap
    <2>1. PICK ps : Selects(sh.preset, token, ps)
      BY <1>1, <1>2 DEF TokensSelected
    <2>2. token \in Seq(Names)
      BY <1>1 DEF TokensSelected
    <2>3. fr.path \o token = <<>> \/ fr.path \o token \in paths[preset]
      BY <1>1, <1>2, <2>1, <2>2, TokenRecorded
    <2> QED
      BY <1>4, <2>3, JoinedArePrefixes
  <1>8. OfKind(fr, {"belongs_to", "polymorphic"}) =
           OfKind(fr, {"belongs_to"}) \cup OfKind(fr, {"polymorphic"})
    BY DEF OfKind
  <1> QED
    BY <1>5, <1>6, <1>7, <1>8

-----------------------------------------------------------------------------
(* What a request relies on. *)
CallCover == NothingCutOff /\ CoverInv /\ SelectionInv /\ JoinsInv

LEMMA SelectionStays ==
    ASSUME registry' = registry, paths' = paths
    PROVE  \A B : Selection(B)' <=> Selection(B)
  <1>1. \A fr : Placed(fr)' <=> Placed(fr)
    BY SameRegistry DEF Placed
  <1> QED
    BY <1>1, SameSelection, SameRegistry DEF Selection

LEMMA ModelsAlongSame ==
    ASSUME registry' = registry, preset' = preset
    PROVE  \A j : Joined(j)' = Joined(j)
  <1>1. \A m, j : ModelsAlong(m, j)' = ModelsAlong(m, j)
    BY DEF ModelsAlong, Rel, Declared, Polymorphic
  <1> QED
    BY <1>1 DEF Joined

LEMMA SelectionStep ==
    ASSUME IndInv, NothingCutOff, CoverInv, SelectionInv, Next
    PROVE  SelectionInv'
  <1>1. registry' = registry
    BY RegistryStays
  <1>2. CASE Link \/ Validate \/ StartCollecting \/ Collect
    BY <1>2 DEF Link, Validate, StartCollecting, Collect, SelectionInv, Called
  <1>3. CASE FinishStartup
    <2>1. PICK B : Selection(B)
      BY <1>3, SelectionFound DEF FinishStartup, NothingCutOff
    <2>2. Selection(B)' /\ phase' # "scan"
      BY <1>1, <1>3, <2>1, SelectionStays DEF FinishStartup
    <2> QED
      BY <2>2 DEF SelectionInv
  <1>4. CASE Request \/ NextExtraPath \/ EnsureSegment \/ EnsureDone \/ EnsureFails
               \/ DetectJoins \/ CallTail \/ Respond
    <2>1. /\ paths' = paths /\ (phase = "ready" \/ Called) /\ phase' # "scan"
      BY <1>4 DEF Request, NextExtraPath, EnsureSegment, EnsureDone, EnsureFails, DetectJoins,
           CallTail, Respond, BeginCall, startVars, Called, AtSegment
    <2>2. PICK B : Selection(B)
      BY <2>1 DEF SelectionInv
    <2>3. Selection(B)'
      BY <1>1, <2>1, <2>2, SelectionStays
    <2> QED
      BY <2>1, <2>3 DEF SelectionInv
  <1>5. CASE StartScan
    <2>1. /\ paths' = paths /\ Called /\ phase' = "scan" /\ preset' = preset
          /\ todo' = {RootFrame(preset, trail)} /\ preset \in Presets
      BY <1>5 DEF StartScan, startVars, callVars, Called, IndInv, CallInv
    <2>2. PICK B : Selection(B)
      BY <2>1 DEF SelectionInv
    <2>3. Selection(B)'
      BY <1>1, <2>1, <2>2, SelectionStays
    <2>4. RootFrame(preset, <<preset[1]>>) \in B
      BY <2>1, <2>2 DEF Selection, RootFrames
    <2>5. \A fr \in todo' : Shadowed(fr, B)'
      BY <2>1, <2>4 DEF Shadowed, RootFrame
    <2> QED
      BY <2>3, <2>5 DEF SelectionInv
  <1>6. CASE Scan
    <2>1. /\ paths' = paths /\ Called /\ phase = "scan" /\ phase' = "scan" /\ preset' = preset
          /\ todo' = UNION {{ChildFrame(fr, f) : f \in OfKind(fr, {"belongs_to"})} : fr \in todo}
      BY <1>6 DEF Scan, startVars, Called
    <2>2. PICK B : Selection(B) /\ \A fr \in todo : Shadowed(fr, B)
      BY <2>1 DEF SelectionInv
    <2>3. Selection(B)'
      BY <1>1, <2>1, <2>2, SelectionStays
    <2>4. ASSUME NEW fr \in todo, NEW f \in OfKind(fr, {"belongs_to"})
          PROVE  Shadowed(ChildFrame(fr, f), B)
      <3>1. PICK sh \in B : /\ sh.root = preset /\ fr.root = preset
                            /\ sh.path = fr.path /\ sh.preset = fr.preset
        BY <2>2 DEF Shadowed
      <3>2. f \in OfKind(sh, {"belongs_to"})
        BY <3>1 DEF OfKind
      <3>3. ChildFrame(sh, f) \in B
        BY <2>2, <3>2 DEF Selection
      <3> QED
        BY <3>1, <3>3 DEF Shadowed, ChildFrame
    <2>5. \A fr \in todo' : Shadowed(fr, B)
      BY <2>1, <2>4
    <2>6. \A fr \in todo' : Shadowed(fr, B)'
      BY <2>1, <2>5 DEF Shadowed
    <2> QED
      BY <2>3, <2>6 DEF SelectionInv
  <1> QED
    BY <1>2, <1>3, <1>4, <1>5, <1>6 DEF Next

LEMMA JoinsStep ==
    ASSUME IndInv, AddedInv, NothingCutOff, SelectionInv, JoinsInv, Next
    PROVE  JoinsInv'
  <1>1. registry' = registry
    BY RegistryStays
  <1>2. CASE phase' \notin {"alias", "scan"}
    BY <1>2 DEF JoinsInv
  <1>3. CASE Request \/ CallTail
    <2>1. phase' = "alias" /\ joins' = extra'
      BY <1>3 DEF Request, CallTail, BeginCall
    <2> QED
      BY <2>1 DEF JoinsInv
  <1>4. CASE NextExtraPath
    <2>1. /\ phase = "alias" /\ phase' = "alias" /\ cursor.path = <<>>
          /\ UNCHANGED <<preset, aliasMap, joins>>
      BY <1>4 DEF NextExtraPath
    <2>2. PICK p \in extra : extra' = extra \ {p} /\ cursor'.path = p
      BY <1>4 DEF NextExtraPath
    <2>3. Joined(<<>>) \subseteq DOMAIN aliasMap
      BY DEF Joined
    <2>4. \A j \in joins : Joined(j) \subseteq DOMAIN aliasMap \/ j \in extra
      BY <2>1, <2>3 DEF JoinsInv
    <2> QED
      BY <1>1, <2>1, <2>2, <2>4, ModelsAlongSame DEF JoinsInv
  <1>5. CASE EnsureSegment
    <2>1. /\ phase = "alias" /\ phase' = "alias" /\ UNCHANGED <<preset, extra, joins>>
          /\ DOMAIN aliasMap \subseteq DOMAIN aliasMap'
      BY <1>5 DEF EnsureSegment, AtSegment
    <2>2. cursor'.path = cursor.path
      <3>1. cursor \in [path : Seq(Names), done : Nat, stack : Seq(Models)]
        BY <2>1 DEF IndInv, CallInv, Called, CursorOK
      <3> QED
        BY <1>5, <3>1 DEF EnsureSegment
    <2> QED
      BY <1>1, <2>1, <2>2, ModelsAlongSame DEF JoinsInv
  <1>6. CASE EnsureDone
    <2>1. /\ phase = "alias" /\ phase' = "alias" /\ UNCHANGED <<preset, aliasMap, extra, joins>>
          /\ Called /\ CursorOK
      BY <1>6 DEF EnsureDone, Called, IndInv, CallInv
    <2> DEFINE path == cursor.path
               done == cursor.done
               ms == <<preset[1]>> \o cursor.stack
    <2>2. /\ path \in Seq(Names) /\ done \in 0..Len(path) /\ Len(cursor.stack) = done
          /\ cursor.stack \in Seq(Models) /\ done \in Nat
          /\ {SubSeq(path, 1, i) : i \in 1..done} \subseteq DOMAIN aliasMap
      <3>1. /\ path \in Seq(Names) /\ done \in Nat /\ cursor.stack \in Seq(Models)
            /\ done <= Len(path) /\ Len(cursor.stack) = done
        BY <2>1 DEF CursorOK
      <3>2. \A i \in 1..done : SubSeq(path, 1, i) \in DOMAIN aliasMap
        BY <2>1 DEF CursorOK
      <3>3. {SubSeq(path, 1, i) : i \in 1..done} \subseteq DOMAIN aliasMap
        <4> HIDE DEF path, done
        <4> QED
          BY <3>2
      <3> HIDE DEF path, done
      <3> QED
        BY <3>1, <3>3
    <2>3. Reaches(preset[1], path, done, ms)
      BY <2>1 DEF AddedInv
    <2>4. done < Len(path) => ~Joins(ms[done + 1], path[done + 1])
      <3> SUFFICES ASSUME done < Len(path) PROVE ~Joins(ms[done + 1], path[done + 1])
        OBVIOUS
      <3>1. Polymorphic(CursorModel, Segment)
        BY <1>6, <2>2 DEF EnsureDone
      <3>2. ms[done + 1] = CursorModel
        <4>1. CASE done = 0
          BY <2>2, <4>1 DEF CursorModel
        <4>2. CASE done # 0
          BY <2>2, <4>2 DEF CursorModel
        <4> QED
          BY <4>1, <4>2
      <3> QED
        BY <3>1, <3>2 DEF Segment, Joins
    <2>5. Joined(path) \subseteq DOMAIN aliasMap
      <3> HIDE DEF path, done, ms
      <3> QED
        BY <2>2, <2>3, <2>4, JoinedUpTo
    <2>6. \A j \in joins : Joined(j) \subseteq DOMAIN aliasMap \/ j \in extra
      BY <2>1, <2>5 DEF JoinsInv
    <2> QED
      BY <1>1, <2>1, <2>6, ModelsAlongSame DEF JoinsInv
  <1>7. CASE StartScan
    <2>1. /\ phase = "alias" /\ cursor.path = <<>> /\ extra = {}
          /\ UNCHANGED <<preset, aliasMap, joins>>
      BY <1>7 DEF StartScan, callVars
    <2>2. Joined(<<>>) \subseteq DOMAIN aliasMap
      BY DEF Joined
    <2>3. \A j \in joins : Joined(j) \subseteq DOMAIN aliasMap
      BY <2>1, <2>2 DEF JoinsInv
    <2> QED
      BY <1>1, <2>1, <2>3, ModelsAlongSame DEF JoinsInv
  <1>8. CASE Scan
    <2>1. /\ phase = "scan" /\ Called /\ UNCHANGED <<preset, aliasMap>>
          /\ joins' = joins \cup UNION {
                {Append(fr.path, f.source) : f \in OfKind(fr, {"belongs_to", "polymorphic"})}
                   \cup {fr.path \o t : t \in registry.tokens[fr.preset]} : fr \in todo}
      BY <1>8 DEF Scan, Called
    <2>2. PICK B : Selection(B) /\ \A fr \in todo : Shadowed(fr, B)
      BY <2>1 DEF SelectionInv
    <2>3. ASSUME NEW fr \in todo
          PROVE  /\ \A f \in OfKind(fr, {"belongs_to", "polymorphic"}) :
                       Joined(Append(fr.path, f.source)) \subseteq DOMAIN aliasMap
                 /\ \A t \in registry.tokens[fr.preset] :
                       Joined(fr.path \o t) \subseteq DOMAIN aliasMap
      BY <2>1, <2>2, ScannedHaveAliases DEF NothingCutOff
    <2>4. \A j \in joins : Joined(j) \subseteq DOMAIN aliasMap
      BY <2>1 DEF JoinsInv
    <2>5. \A j \in joins' : Joined(j) \subseteq DOMAIN aliasMap
      <3> SUFFICES ASSUME NEW j \in joins', j \notin joins
                   PROVE  Joined(j) \subseteq DOMAIN aliasMap
        BY <2>4
      <3>1. PICK fr \in todo :
               \/ \E f \in OfKind(fr, {"belongs_to", "polymorphic"}) : j = Append(fr.path, f.source)
               \/ \E t \in registry.tokens[fr.preset] : j = fr.path \o t
        BY <2>1
      <3> QED
        BY <2>3, <3>1
    <2> QED
      BY <1>1, <2>1, <2>5, ModelsAlongSame DEF JoinsInv
  <1>9. Next /\ phase' \in {"alias", "scan"} =>
           Request \/ CallTail \/ NextExtraPath \/ EnsureSegment \/ EnsureDone \/ StartScan \/ Scan
    BY DEF Next, Link, Validate, StartCollecting, Collect, FinishStartup, EnsureFails, DetectJoins,
           Respond
  <1> QED
    BY <1>2, <1>3, <1>4, <1>5, <1>6, <1>7, <1>8, <1>9

(* Every relation a call joins has an alias, whatever the filters and sorts *)
(* add, provided max_depth cuts off nothing on the way down the belongs_to  *)
(* fields and templates name only what the preset selects: the walk of the  *)
(* request goes nowhere the walk at startup has not been.                   *)
(* (CreateAliasMap.go, ScanPresetFields.go, DetectJoins.go)                 *)
THEOREM JoinsAlwaysHaveAliases == Spec /\ NothingCutOff => []JoinsHaveAliases
  <1>1. ASSUME Init, NothingCutOff
        PROVE  CallCover
    BY <1>1 DEF Init, CallCover, CoverInv, SelectionInv, JoinsInv, Called
  <1>2. ASSUME IndInv, IndInv', AddedInv, CallCover, [Next]_vars
        PROVE  CallCover'
    <2>1. registry' = registry
      BY <1>2, RegistryStays
    <2>2. NothingCutOff'
      BY <1>2, <2>1, SameSelection DEF CallCover, NothingCutOff
    <2>3. CASE Next
      BY <1>2, <2>2, <2>3, CoverStep, SelectionStep, JoinsStep DEF CallCover
    <2>4. CASE UNCHANGED vars
      <3>1. CoverInv'
        <4>1. \A fr, V : Recorded(fr, V \cup todo)' <=> Recorded(fr, V \cup todo)
          BY <2>1, <2>4, SameSelection, SameRegistry DEF Recorded, Placed, vars
        <4> QED
          BY <1>2, <2>1, <2>4, <4>1, SameRegistry DEF CallCover, CoverInv, vars
      <3>2. SelectionInv'
        <4>1. \A B : Selection(B)' <=> Selection(B)
          BY <2>1, <2>4, SelectionStays DEF vars
        <4> QED
          BY <1>2, <2>4, <4>1 DEF CallCover, SelectionInv, Shadowed, Called, vars
      <3>3. JoinsInv'
        BY <1>2, <2>1, <2>4, ModelsAlongSame DEF CallCover, JoinsInv, vars
      <3> QED
        BY <2>2, <3>1, <3>2, <3>3 DEF CallCover
    <2> QED
      BY <1>2, <2>3, <2>4
  <1>3. ASSUME CallCover
        PROVE  JoinsHaveAliases
    <2> SUFFICES ASSUME phase = "scan" PROVE Unaliased = {}
      BY DEF JoinsHaveAliases
    <2>1. \A j \in joins : Joined(j) \subseteq DOMAIN aliasMap
      BY <1>3 DEF CallCover, JoinsInv
    <2> DEFINE all == UNION {Joined(j) : j \in joins}
    <2>2. all \subseteq DOMAIN aliasMap
      BY <2>1
    <2>3. Unaliased = all \ DOMAIN aliasMap
      BY DEF Unaliased
    <2> HIDE DEF all
    <2> QED
      BY <2>2, <2>3
  <1> QED
    BY <1>1, <1>2, <1>3, Inductive, AddedAlways, PTL DEF Spec
=============================================================================
