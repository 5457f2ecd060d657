---------------------------- MODULE FiltersProofs ----------------------------
(***************************************************************************)
(* Proofs about Filters, for any models, any requests and any nesting.     *)
(*                                                                         *)
(* Filters and expressions are trees.  Nothing is proved by induction over *)
(* them: what holds of a tree is followed down level by level, with the    *)
(* number of the level, from the whole to its parts.                       *)
(*                                                                         *)
(* The rows come last.  ReadingInv follows the cursor through the reading  *)
(* of a path, so that what a path becomes is what it denotes; Worth is the *)
(* truth of an expression in the query, Answers what was asked for at a    *)
(* level.  AllGroupsWorth and ConjunctsWorth relate the two, from the      *)
(* deepest groups up, and AskedLevelByLevel puts the levels together.      *)
(***************************************************************************)
EXTENDS FilterMeaning, CommonLemmas

-----------------------------------------------------------------------------
(* The levels of a group, and the layers of an expression.                 *)

LevelStep(n, g, last) == IF n = 0 THEN {Place(g, TRUE)} ELSE UNION {Below(p) : p \in last}

LEMMA PlacesAre ==
    ASSUME NEW g, Depth \in Nat
    PROVE  /\ Places(g)[0] = {Place(g, TRUE)}
           /\ \A n \in 1..Depth : Places(g)[n] = UNION {Below(p) : p \in Places(g)[n - 1]}
  <1> DEFINE Solves(f, m) == f = [n \in 0..m |-> LevelStep(n, g, f[n - 1])]
             Good == {m \in Nat : \E f : Solves(f, m)}
  <1>1. 0 \in Good
    <2> DEFINE f == [n \in 0..0 |-> {Place(g, TRUE)}]
    <2>1. \A n \in 0..0 : LevelStep(n, g, f[n - 1]) = {Place(g, TRUE)}
      BY DEF LevelStep
    <2>2. Solves(f, 0)
      BY <2>1
    <2> QED
      BY <2>2
  <1>2. ASSUME NEW m \in Nat, m \in Good
        PROVE  m + 1 \in Good
    <2>1. PICK f : Solves(f, m)
      BY <1>2
    <2> DEFINE top == LevelStep(m + 1, g, f[m])
               h == [n \in 0..(m + 1) |-> IF n = m + 1 THEN top ELSE f[n]]
    <2>2. \A n \in 0..m : f[n] = LevelStep(n, g, f[n - 1])
      BY <2>1
    <2> HIDE DEF top
    <2>3. h[m + 1] = top /\ \A n \in 0..m : h[n] = f[n]
      OBVIOUS
    <2>4. h = [n \in 0..(m + 1) |-> h[n]]
      OBVIOUS
    <2> HIDE DEF h
    <2>5. \A n \in 0..(m + 1) : h[n] = LevelStep(n, g, h[n - 1])
      <3> SUFFICES ASSUME NEW n \in 0..(m + 1) PROVE h[n] = LevelStep(n, g, h[n - 1])
        OBVIOUS
      <3>1. CASE n = m + 1
        <4>1. n - 1 = m /\ m \in 0..m
          BY <3>1
        <4> QED
          BY <2>3, <3>1, <4>1 DEF top
      <3>2. CASE n = 0
        <4>1. n \in 0..m
          BY <3>2
        <4> QED
          BY <2>2, <2>3, <3>2, <4>1 DEF LevelStep
      <3>3. CASE n # m + 1 /\ n # 0
        <4>1. n \in 0..m /\ n - 1 \in 0..m
          BY <3>3
        <4> QED
          BY <2>2, <2>3, <4>1
      <3> QED
        BY <3>1, <3>2, <3>3
    <2>6. Solves(h, m + 1)
      BY <2>4, <2>5
    <2> HIDE DEF Solves
    <2> QED
      BY <2>6
  <1> HIDE DEF Good
  <1>3. Depth \in Good
    BY <1>1, <1>2, InductionOnNats
  <1>4. Places(g) = CHOOSE f : Solves(f, Depth)
    BY DEF Places, LevelStep
  <1>5. Solves(Places(g), Depth)
    <2>1. \E f : Solves(f, Depth)
      BY <1>3 DEF Good
    <2> HIDE DEF Solves
    <2> QED
      BY <1>4, <2>1
  <1>6. \A n \in 0..Depth : Places(g)[n] = LevelStep(n, g, Places(g)[n - 1])
    BY <1>5
  <1>7. 0 \in 0..Depth /\ \A n \in 1..Depth : n \in 0..Depth /\ n # 0
    OBVIOUS
  <1> QED
    BY <1>6, <1>7 DEF LevelStep

LayerStep(n, e, last) == IF n = 0 THEN {e} ELSE UNION {x.parts : x \in last}

LEMMA LastLayerIsNat ==
    ASSUME Depth \in Nat
    PROVE  LastLayer \in Nat
  BY DEF LastLayer

LEMMA LayersAre ==
    ASSUME NEW e, Depth \in Nat
    PROVE  /\ Layers(e)[0] = {e}
           /\ \A n \in 1..LastLayer : Layers(e)[n] = UNION {x.parts : x \in Layers(e)[n - 1]}
  <1> DEFINE Solves(f, m) == f = [n \in 0..m |-> LayerStep(n, e, f[n - 1])]
             Good == {m \in Nat : \E f : Solves(f, m)}
  <1>1. 0 \in Good
    <2> DEFINE f == [n \in 0..0 |-> {e}]
    <2>1. \A n \in 0..0 : LayerStep(n, e, f[n - 1]) = {e}
      BY DEF LayerStep
    <2>2. Solves(f, 0)
      BY <2>1
    <2> QED
      BY <2>2
  <1>2. ASSUME NEW m \in Nat, m \in Good
        PROVE  m + 1 \in Good
    <2>1. PICK f : Solves(f, m)
      BY <1>2
    <2> DEFINE top == LayerStep(m + 1, e, f[m])
               h == [n \in 0..(m + 1) |-> IF n = m + 1 THEN top ELSE f[n]]
    <2>2. \A n \in 0..m : f[n] = LayerStep(n, e, f[n - 1])
      BY <2>1
    <2> HIDE DEF top
    <2>3. h[m + 1] = top /\ \A n \in 0..m : h[n] = f[n]
      OBVIOUS
    <2>4. h = [n \in 0..(m + 1) |-> h[n]]
      OBVIOUS
    <2> HIDE DEF h
    <2>5. \A n \in 0..(m + 1) : h[n] = LayerStep(n, e, h[n - 1])
      <3> SUFFICES ASSUME NEW n \in 0..(m + 1) PROVE h[n] = LayerStep(n, e, h[n - 1])
        OBVIOUS
      <3>1. CASE n = m + 1
        <4>1. n - 1 = m /\ m \in 0..m
          BY <3>1
        <4> QED
          BY <2>3, <3>1, <4>1 DEF top
      <3>2. CASE n = 0
        <4>1. n \in 0..m
          BY <3>2
        <4> QED
          BY <2>2, <2>3, <3>2, <4>1 DEF LayerStep
      <3>3. CASE n # m + 1 /\ n # 0
        <4>1. n \in 0..m /\ n - 1 \in 0..m
          BY <3>3
        <4> QED
          BY <2>2, <2>3, <4>1
      <3> QED
        BY <3>1, <3>2, <3>3
    <2>6. Solves(h, m + 1)
      BY <2>4, <2>5
    <2> HIDE DEF Solves
    <2> QED
      BY <2>6
  <1> HIDE DEF Good
  <1>3. LastLayer \in Good
    BY <1>1, <1>2, LastLayerIsNat, InductionOnNats
  <1>4. Layers(e) = CHOOSE f : Solves(f, LastLayer)
    BY DEF Layers, LayerStep
  <1>5. Solves(Layers(e), LastLayer)
    <2>1. \E f : Solves(f, LastLayer)
      BY <1>3 DEF Good
    <2> HIDE DEF Solves
    <2> QED
      BY <1>4, <2>1
  <1>6. \A n \in 0..LastLayer : Layers(e)[n] = LayerStep(n, e, Layers(e)[n - 1])
    BY <1>5
  <1>7. 0 \in 0..LastLayer /\ \A n \in 1..LastLayer : n \in 0..LastLayer /\ n # 0
    BY LastLayerIsNat
  <1> QED
    BY <1>6, <1>7 DEF LayerStep

(* The expressions, or what becomes, of the groups with n levels below.    *)

ExprStep(n, g, last) ==
    [q \in GroupsAt(g, Depth - n) \X {"and", "or"} |->
        Combine(q[2], {buildCond(c) : c \in q[1].conds}
            \cup (IF n = 0 THEN {} ELSE {Sub("or", q[1].or, last), Sub("and", q[1].and, last)}))]

LEMMA ExpressionsAre ==
    ASSUME NEW g, Depth \in Nat
    PROVE  \A n \in 0..Depth : buildGroupExpr(g)[n] = ExprStep(n, g, buildGroupExpr(g)[n - 1])
  <1> DEFINE Solves(f, m) == f = [n \in 0..m |-> ExprStep(n, g, f[n - 1])]
             Good == {m \in Nat : \E f : Solves(f, m)}
  <1>1. 0 \in Good
    <2> DEFINE f == [n \in 0..0 |-> ExprStep(0, g, <<>>)]
    <2>1. \A n \in 0..0 : ExprStep(n, g, f[n - 1]) = ExprStep(0, g, <<>>)
      <3>1. \A n \in 0..0 : n = 0
        OBVIOUS
      <3> HIDE DEF f
      <3> QED
        BY <3>1 DEF ExprStep
    <2>2. Solves(f, 0)
      BY <2>1
    <2> QED
      BY <2>2
  <1>2. ASSUME NEW m \in Nat, m \in Good
        PROVE  m + 1 \in Good
    <2>1. PICK f : Solves(f, m)
      BY <1>2
    <2> DEFINE top == ExprStep(m + 1, g, f[m])
               h == [n \in 0..(m + 1) |-> IF n = m + 1 THEN top ELSE f[n]]
    <2>2. \A n \in 0..m : f[n] = ExprStep(n, g, f[n - 1])
      BY <2>1
    <2> HIDE DEF top
    <2>3. h[m + 1] = top /\ \A n \in 0..m : h[n] = f[n]
      OBVIOUS
    <2>4. h = [n \in 0..(m + 1) |-> h[n]]
      OBVIOUS
    <2> HIDE DEF h
    <2>5. \A n \in 0..(m + 1) : h[n] = ExprStep(n, g, h[n - 1])
      <3> SUFFICES ASSUME NEW n \in 0..(m + 1) PROVE h[n] = ExprStep(n, g, h[n - 1])
        OBVIOUS
      <3>1. CASE n = m + 1
        <4>1. n - 1 = m /\ m \in 0..m
          BY <3>1
        <4> QED
          BY <2>3, <3>1, <4>1 DEF top
      <3>2. CASE n = 0
        <4>1. n \in 0..m
          BY <3>2
        <4> QED
          BY <2>2, <2>3, <3>2, <4>1 DEF ExprStep
      <3>3. CASE n # m + 1 /\ n # 0
        <4>1. n \in 0..m /\ n - 1 \in 0..m
          BY <3>3
        <4> QED
          BY <2>2, <2>3, <4>1
      <3> QED
        BY <3>1, <3>2, <3>3
    <2>6. Solves(h, m + 1)
      BY <2>4, <2>5
    <2> HIDE DEF Solves
    <2> QED
      BY <2>6
  <1> HIDE DEF Good
  <1>3. Depth \in Good
    BY <1>1, <1>2, InductionOnNats
  <1>4. buildGroupExpr(g) = CHOOSE f : Solves(f, Depth)
    BY DEF buildGroupExpr, ExprStep
  <1>5. Solves(buildGroupExpr(g), Depth)
    <2>1. \E f : Solves(f, Depth)
      BY <1>3 DEF Good
    <2> HIDE DEF Solves
    <2> QED
      BY <1>4, <2>1
  <1> QED
    BY <1>5

RekeyStep(n, g, last) ==
    [h \in GroupsAt(g, Depth - n) |-> RekeyedGroup(h, IF n = 0 THEN <<>> ELSE last)]

LEMMA RekeyedIs ==
    ASSUME NEW g, Depth \in Nat
    PROVE  \E new : /\ Rekeyed(g) = new[Depth][g]
                    /\ \A n \in 0..Depth : new[n] = RekeyStep(n, g, new[n - 1])
  <1> DEFINE Solves(f, m) == f = [n \in 0..m |-> RekeyStep(n, g, f[n - 1])]
             Good == {m \in Nat : \E f : Solves(f, m)}
  <1>1. 0 \in Good
    <2> DEFINE f == [n \in 0..0 |-> RekeyStep(0, g, <<>>)]
    <2>1. \A n \in 0..0 : RekeyStep(n, g, f[n - 1]) = RekeyStep(0, g, <<>>)
      <3>1. \A n \in 0..0 : n = 0
        OBVIOUS
      <3> HIDE DEF f
      <3> QED
        BY <3>1 DEF RekeyStep
    <2>2. Solves(f, 0)
      BY <2>1
    <2> QED
      BY <2>2
  <1>2. ASSUME NEW m \in Nat, m \in Good
        PROVE  m + 1 \in Good
    <2>1. PICK f : Solves(f, m)
      BY <1>2
    <2> DEFINE top == RekeyStep(m + 1, g, f[m])
               h == [n \in 0..(m + 1) |-> IF n = m + 1 THEN top ELSE f[n]]
    <2>2. \A n \in 0..m : f[n] = RekeyStep(n, g, f[n - 1])
      BY <2>1
    <2> HIDE DEF top
    <2>3. h[m + 1] = top /\ \A n \in 0..m : h[n] = f[n]
      OBVIOUS
    <2>4. h = [n \in 0..(m + 1) |-> h[n]]
      OBVIOUS
    <2> HIDE DEF h
    <2>5. \A n \in 0..(m + 1) : h[n] = RekeyStep(n, g, h[n - 1])
      <3> SUFFICES ASSUME NEW n \in 0..(m + 1) PROVE h[n] = RekeyStep(n, g, h[n - 1])
        OBVIOUS
      <3>1. CASE n = m + 1
        <4>1. n - 1 = m /\ m \in 0..m
          BY <3>1
        <4> QED
          BY <2>3, <3>1, <4>1 DEF top
      <3>2. CASE n = 0
        <4>1. n \in 0..m
          BY <3>2
        <4> QED
          BY <2>2, <2>3, <3>2, <4>1 DEF RekeyStep
      <3>3. CASE n # m + 1 /\ n # 0
        <4>1. n \in 0..m /\ n - 1 \in 0..m
          BY <3>3
        <4> QED
          BY <2>2, <2>3, <4>1
      <3> QED
        BY <3>1, <3>2, <3>3
    <2>6. Solves(h, m + 1)
      BY <2>4, <2>5
    <2> HIDE DEF Solves
    <2> QED
      BY <2>6
  <1> HIDE DEF Good
  <1>3. Depth \in Good
    BY <1>1, <1>2, InductionOnNats
  <1> DEFINE new == CHOOSE f : Solves(f, Depth)
  <1>4. Rekeyed(g) = new[Depth][g]
    BY DEF Rekeyed, RekeyStep
  <1>5. Solves(new, Depth)
    <2>1. \E f : Solves(f, Depth)
      BY <1>3 DEF Good
    <2> HIDE DEF Solves
    <2> QED
      BY <2>1
  <1> HIDE DEF new
  <1>6. \A n \in 0..Depth : new[n] = RekeyStep(n, g, new[n - 1])
    BY <1>5
  <1> QED
    BY <1>4, <1>6

-----------------------------------------------------------------------------
(* What an expression is made of: the conditions of the group g it was made *)
(* for, and the expressions of the groups in it.                            *)

Modes == {"and", "or"}

IsAtomOf(g, x) ==
    /\ x.kind = "atom" /\ x.parts = {}
    /\ x.agg = isAggregate(x.field)
    /\ x.field \in FieldsOf(CondsOf(g))

BuiltConds(g) == {buildCond(c) : c \in CondsOf(g)}
BuiltGroups(g, k) == {buildGroupExpr(g)[k][q] : q \in GroupsAt(g, Depth - k) \X Modes}

(* What may be under "or" or "and" of a group with k + 1 levels below it.   *)
SubsOver(g, k) ==
    UNION {{h.or, h.and} :
        h \in {i \in GroupsAt(g, Depth - k - 1) :
                  ToSet(i.or.groups) \cup ToSet(i.and.groups) \subseteq GroupsAt(g, Depth - k)}}
BuiltSubs(g, k) == {Sub(how, sub, buildGroupExpr(g)[k]) : how \in Modes, sub \in SubsOver(g, k)}

(* x was made for g, and has at most r layers below its own. *)
Fits(g, x, r) ==
    \/ x = None \/ IsAtomOf(g, x)
    \/ r >= 1 /\ x \in BuiltConds(g)
    \/ \E k \in 0..Depth : 2 * k + 2 <= r /\ x \in BuiltGroups(g, k)
    \/ \E k \in 0..Depth : k < Depth /\ 2 * k + 3 <= r /\ x \in BuiltSubs(g, k)

(* What may be below x. *)
PartsFit(g, x, r) == \A p \in x.parts : r >= 1 /\ Fits(g, p, r - 1) /\ (p.agg => x.agg)

LEMMA Combined ==
    ASSUME NEW mode, NEW S
    PROVE  /\ Combine(mode, S).parts \subseteq S
           /\ \A p \in Combine(mode, S).parts : p.agg => Combine(mode, S).agg
           /\ Combine(mode, S).agg => \E p \in S : p.agg
           /\ Combine(mode, S) = None \/ Combine(mode, S).kind = mode
  BY DEF Combine, None, HasAggregate

LEMMA CombinedFits ==
    ASSUME NEW g, NEW mode, NEW S, NEW r \in Nat, r >= 1, \A p \in S : Fits(g, p, r - 1)
    PROVE  PartsFit(g, Combine(mode, S), r)
  BY Combined DEF PartsFit

LEMMA GroupsBelow ==
    ASSUME NEW g, Depth \in Nat, NEW n \in 0..Depth, n # Depth, NEW h \in GroupsAt(g, n)
    PROVE  ToSet(h.or.groups) \cup ToSet(h.and.groups) \subseteq GroupsAt(g, n + 1)
  <1>1. PICK p \in Places(g)[n] : h = p.group
    BY DEF GroupsAt
  <1>2. n + 1 \in 1..Depth /\ (n + 1) - 1 = n
    OBVIOUS
  <1>3. Places(g)[n + 1] = UNION {Below(q) : q \in Places(g)[n]}
    BY <1>2, PlacesAre
  <1>4. Below(p) \subseteq Places(g)[n + 1]
    BY <1>3
  <1>5. \A i \in ToSet(h.or.groups) : Place(i, FALSE) \in Below(p)
    BY <1>1 DEF Below
  <1>6. \A i \in ToSet(h.and.groups) : Place(i, p.top) \in Below(p)
    BY <1>1 DEF Below
  <1>7. \A i : \A t : Place(i, t).group = i
    BY DEF Place
  <1> QED
    BY <1>4, <1>5, <1>6, <1>7 DEF GroupsAt

LEMMA CondsOfGroup ==
    ASSUME NEW g, NEW n \in 0..Depth, NEW h \in GroupsAt(g, n), NEW c \in h.conds
    PROVE  c \in CondsOf(g)
  BY DEF CondsOf

LEMMA CondFits ==
    ASSUME NEW g, NEW c \in CondsOf(g), NEW r \in Nat, r >= 1
    PROVE  PartsFit(g, buildCond(c), r)
  <1> DEFINE made(f) == IF Applies(c.key.op, c.value) THEN Atom(f, c.key.op, c.key.cs, c.value) ELSE None
             S == {made(f) : f \in ToSet(c.key.fields)}
  <1>1. buildCond(c) = Combine(c.key.comb, S)
    BY DEF buildCond, Composite
  <1>2. ASSUME NEW f \in ToSet(c.key.fields)
        PROVE  Fits(g, made(f), r - 1)
    <2>1. f \in FieldsOf(CondsOf(g))
      BY DEF FieldsOf
    <2>2. made(f) = None \/ IsAtomOf(g, made(f))
      <3>1. CASE Applies(c.key.op, c.value)
        BY <2>1, <3>1 DEF IsAtomOf, Atom
      <3>2. CASE ~Applies(c.key.op, c.value)
        BY <3>2
      <3> QED
        BY <3>1, <3>2
    <2> QED
      BY <2>2 DEF Fits
  <1>3. \A p \in S : Fits(g, p, r - 1)
    BY <1>2
  <1> HIDE DEF S
  <1> QED
    BY <1>1, <1>3, CombinedFits

(* The expression of a group: its conditions, and what is under its "or"    *)
(* and "and".                                                               *)
LEMMA GroupExpr ==
    ASSUME NEW g, Depth \in Nat, NEW k \in 0..Depth, NEW q \in GroupsAt(g, Depth - k) \X Modes
    PROVE  buildGroupExpr(g)[k][q] =
              Combine(q[2], {buildCond(c) : c \in q[1].conds}
                  \cup (IF k = 0 THEN {} ELSE {Sub("or", q[1].or, buildGroupExpr(g)[k - 1]),
                                              Sub("and", q[1].and, buildGroupExpr(g)[k - 1])}))
  <1>1. buildGroupExpr(g)[k] = ExprStep(k, g, buildGroupExpr(g)[k - 1])
    BY ExpressionsAre
  <1>2. q \in GroupsAt(g, Depth - k) \X {"and", "or"}
    BY DEF Modes
  <1> QED
    BY <1>1, <1>2 DEF ExprStep

LEMMA GroupFits ==
    ASSUME NEW g, Depth \in Nat, NEW k \in 0..Depth, NEW x \in BuiltGroups(g, k),
           NEW r \in Nat, 2 * k + 2 <= r
    PROVE  PartsFit(g, x, r) /\ (x = None \/ x.kind \in Modes)
  <1>1. PICK q \in GroupsAt(g, Depth - k) \X Modes : x = buildGroupExpr(g)[k][q]
    BY DEF BuiltGroups
  <1> DEFINE h == q[1]
             Subs == IF k = 0 THEN {} ELSE {Sub("or", h.or, buildGroupExpr(g)[k - 1]),
                                            Sub("and", h.and, buildGroupExpr(g)[k - 1])}
             S == {buildCond(c) : c \in h.conds} \cup Subs
  <1>2. x = Combine(q[2], S)
    BY <1>1, GroupExpr
  <1>3. r >= 1 /\ r - 1 \in Nat /\ r - 1 >= 1 /\ Depth - k \in 0..Depth
    OBVIOUS
  <1>4. h \in GroupsAt(g, Depth - k) /\ q[2] \in Modes
    OBVIOUS
  <1> HIDE DEF h
  <1>5. \A c \in h.conds : Fits(g, buildCond(c), r - 1)
    <2>1. \A c \in h.conds : c \in CondsOf(g)
      BY <1>3, <1>4, CondsOfGroup
    <2> QED
      BY <1>3, <2>1 DEF Fits, BuiltConds
  <1>6. ASSUME k # 0
        PROVE  \A p \in Subs : Fits(g, p, r - 1)
    <2>1. /\ k - 1 \in 0..Depth /\ k - 1 < Depth /\ 2 * (k - 1) + 3 <= r - 1
          /\ Depth - (k - 1) - 1 = Depth - k /\ Depth - (k - 1) = (Depth - k) + 1 /\ Depth - k # Depth
      BY <1>6
    <2>2. ToSet(h.or.groups) \cup ToSet(h.and.groups) \subseteq GroupsAt(g, (Depth - k) + 1)
      BY <1>3, <1>4, <2>1, GroupsBelow
    <2>3. h.or \in SubsOver(g, k - 1) /\ h.and \in SubsOver(g, k - 1)
      BY <1>4, <2>1, <2>2 DEF SubsOver
    <2>4. \A p \in Subs : p \in BuiltSubs(g, k - 1)
      BY <1>6, <2>3 DEF BuiltSubs, Modes
    <2> HIDE DEF Subs
    <2> QED
      BY <2>1, <2>4 DEF Fits
  <1>7. \A p \in S : Fits(g, p, r - 1)
    BY <1>5, <1>6
  <1> HIDE DEF S
  <1> QED
    BY <1>2, <1>3, <1>4, <1>7, CombinedFits, Combined

LEMMA SubFits ==
    ASSUME NEW g, Depth \in Nat, WellFormed(g), NEW k \in 0..Depth, k < Depth, NEW x \in BuiltSubs(g, k),
           NEW r \in Nat, 2 * k + 3 <= r
    PROVE  PartsFit(g, x, r) /\ (x = None \/ x.kind \in Modes)
  <1>1. PICK how \in Modes, sub \in SubsOver(g, k) : x = Sub(how, sub, buildGroupExpr(g)[k])
    BY DEF BuiltSubs
  <1>2. PICK h \in GroupsAt(g, Depth - k - 1) :
            /\ sub \in {h.or, h.and}
            /\ ToSet(h.or.groups) \cup ToSet(h.and.groups) \subseteq GroupsAt(g, Depth - k)
    BY DEF SubsOver
  <1>3. ToSet(sub.groups) \subseteq GroupsAt(g, Depth - k)
    BY <1>2
  <1>4. Depth - k - 1 \in 0..Depth /\ r >= 1 /\ r - 1 \in Nat /\ 2 * k + 2 <= r - 1 /\ 2 * k + 2 <= r
    OBVIOUS
  <1>5. CASE sub.kind = "map"
    <2>1. 1 \in DOMAIN sub.groups
      BY <1>2, <1>4, <1>5 DEF WellFormed
    <2>2. sub.groups[1] \in GroupsAt(g, Depth - k)
      BY <1>3, <2>1 DEF ToSet
    <2>3. x = buildGroupExpr(g)[k][<<sub.groups[1], how>>]
      BY <1>1, <1>5 DEF Sub
    <2>4. x \in BuiltGroups(g, k)
      BY <2>2, <2>3 DEF BuiltGroups
    <2> QED
      BY <1>4, <2>4, GroupFits
  <1>6. CASE sub.kind # "map"
    <2> DEFINE S == {buildGroupExpr(g)[k][h2, "and"] : h2 \in ToSet(sub.groups)}
    <2>1. x = Combine(how, S)
      BY <1>1, <1>6 DEF Sub
    <2>2. \A p \in S : p \in BuiltGroups(g, k)
      BY <1>3 DEF BuiltGroups, Modes
    <2> HIDE DEF S
    <2>3. \A p \in S : Fits(g, p, r - 1)
      BY <1>4, <2>2 DEF Fits
    <2> QED
      BY <1>4, <2>1, <2>3, CombinedFits, Combined
  <1> QED
    BY <1>5, <1>6

(* What fits is made of what fits, down to conditions on fields.            *)
LEMMA FittingParts ==
    ASSUME NEW g, Depth \in Nat, WellFormed(g), NEW r \in Nat, NEW x, Fits(g, x, r)
    PROVE  PartsFit(g, x, r) /\ (x = None \/ IsAtomOf(g, x) \/ x.kind \in Modes)
  <1>1. CASE x = None \/ IsAtomOf(g, x)
    BY <1>1 DEF None, IsAtomOf, PartsFit
  <1>2. CASE r >= 1 /\ x \in BuiltConds(g)
    <2>1. PICK c \in CondsOf(g) : x = buildCond(c)
      BY <1>2 DEF BuiltConds
    <2>2. c.key.comb \in Modes
      BY DEF WellFormed, Modes
    <2>3. x = None \/ x.kind \in Modes
      BY <2>1, <2>2, Combined DEF buildCond, Composite
    <2> QED
      BY <1>2, <2>1, <2>3, CondFits
  <1>3. ASSUME NEW k \in 0..Depth, 2 * k + 2 <= r, x \in BuiltGroups(g, k)
        PROVE  PartsFit(g, x, r) /\ (x = None \/ x.kind \in Modes)
    BY <1>3, GroupFits
  <1>4. ASSUME NEW k \in 0..Depth, k < Depth, 2 * k + 3 <= r, x \in BuiltSubs(g, k)
        PROVE  PartsFit(g, x, r) /\ (x = None \/ x.kind \in Modes)
    BY <1>4, SubFits
  <1> QED
    BY <1>1, <1>2, <1>3, <1>4 DEF Fits

LEMMA ConjunctFits ==
    ASSUME NEW g, Depth \in Nat, NEW x \in Conjuncts(g)
    PROVE  Fits(g, x, LastLayer - 1)
  <1>1. PICK n \in 0..Depth : x \in ConjunctsAt(g, n)
    BY DEF Conjuncts
  <1> DEFINE groups == {p.group : p \in {q \in Places(g)[n] : q.top}}
             k == Depth - n - 1
  <1>2. groups \subseteq GroupsAt(g, n)
    BY DEF GroupsAt
  <1>3. \/ x \in {buildCond(c) : c \in UNION {h.conds : h \in groups}}
        \/ n # Depth /\ x \in {Sub("or", h.or, buildGroupExpr(g)[k]) : h \in groups}
    BY <1>1 DEF ConjunctsAt
  <1> HIDE DEF groups
  <1>4. CASE x \in {buildCond(c) : c \in UNION {h.conds : h \in groups}}
    <2>1. PICK h \in groups : \E c \in h.conds : x = buildCond(c)
      BY <1>4
    <2>2. x \in BuiltConds(g)
      BY <1>2, <2>1, CondsOfGroup DEF BuiltConds
    <2>3. LastLayer - 1 >= 1
      BY DEF LastLayer
    <2> QED
      BY <2>2, <2>3 DEF Fits
  <1>5. ASSUME n # Depth, x \in {Sub("or", h.or, buildGroupExpr(g)[k]) : h \in groups}
        PROVE  Fits(g, x, LastLayer - 1)
    <2>1. PICK h \in groups : x = Sub("or", h.or, buildGroupExpr(g)[k])
      BY <1>5
    <2>2. k \in 0..Depth /\ k < Depth /\ 2 * k + 3 <= LastLayer - 1 /\ n = Depth - k - 1 /\ n + 1 = Depth - k
      BY <1>5 DEF LastLayer
    <2> HIDE DEF k
    <2>3. ToSet(h.or.groups) \cup ToSet(h.and.groups) \subseteq GroupsAt(g, Depth - k)
      BY <1>2, <1>5, <2>2, GroupsBelow
    <2>4. h.or \in SubsOver(g, k)
      BY <1>2, <2>2, <2>3 DEF SubsOver
    <2>5. x \in BuiltSubs(g, k)
      BY <2>1, <2>4 DEF BuiltSubs, Modes
    <2> QED
      BY <2>2, <2>5 DEF Fits
  <1> QED
    BY <1>3, <1>4, <1>5

(* WHERE and HAVING, down to the last layer: all in them was made for g,    *)
(* and nothing in them is an aggregate if the whole is not said to be.      *)
LEMMA WholeFits ==
    ASSUME NEW g, Depth \in Nat, WellFormed(g), NEW S, S \subseteq Conjuncts(g), NEW e, e = Combine("and", S)
    PROVE  \A n \in 1..LastLayer : \A x \in Layers(e)[n] : Fits(g, x, LastLayer - n) /\ (x.agg => e.agg)
  <1> DEFINE fine(n) == \A x \in Layers(e)[n] : Fits(g, x, LastLayer - n) /\ (x.agg => e.agg)
             Good == {m \in Nat : m + 1 <= LastLayer => fine(m + 1)}
  <1>1. LastLayer \in Nat /\ LastLayer >= 1
    BY DEF LastLayer
  <1>2. 0 \in Good
    <2>1. Layers(e)[0] = {e} /\ Layers(e)[1] = UNION {x.parts : x \in Layers(e)[0]}
      <3>1. 1 \in 1..LastLayer /\ 1 - 1 = 0
        BY <1>1
      <3>2. /\ Layers(e)[0] = {e}
            /\ \A n \in 1..LastLayer : Layers(e)[n] = UNION {x.parts : x \in Layers(e)[n - 1]}
        BY LayersAre
      <3> QED
        BY <3>1, <3>2
    <2>2. Layers(e)[1] = e.parts
      <3>1. {x.parts : x \in Layers(e)[0]} = {e.parts}
        BY <2>1
      <3> QED
        BY <2>1, <3>1
    <2>3. \A x \in e.parts : x \in S /\ (x.agg => e.agg)
      BY Combined
    <2>4. fine(1)
      BY <2>2, <2>3, ConjunctFits
    <2> HIDE DEF fine
    <2> QED
      BY <2>4
  <1>3. ASSUME NEW m \in Nat, m \in Good
        PROVE  m + 1 \in Good
    <2> SUFFICES ASSUME m + 2 <= LastLayer PROVE fine(m + 2)
      <3> HIDE DEF fine
      <3>1. m + 1 \in Nat /\ (m + 1) + 1 = m + 2
        OBVIOUS
      <3> QED
        BY <3>1
    <2> DEFINE n == m + 1
    <2>1. n \in Nat /\ n + 1 = m + 2 /\ n + 1 \in 1..LastLayer /\ (n + 1) - 1 = n /\ n <= LastLayer
      BY <1>1
    <2>2. fine(n)
      <3> HIDE DEF fine
      <3> QED
        BY <1>3, <2>1
    <2> DEFINE r == LastLayer - n
    <2>3. r \in Nat /\ LastLayer - (n + 1) = r - 1
      BY <1>1, <2>1
    <2>4. Layers(e)[n + 1] = UNION {x.parts : x \in Layers(e)[n]}
      BY <2>1, LayersAre
    <2> HIDE DEF n, r
    <2>5. ASSUME NEW y \in Layers(e)[n + 1]
          PROVE  Fits(g, y, r - 1) /\ (y.agg => e.agg)
      <3>1. PICK x \in Layers(e)[n] : y \in x.parts
        BY <2>4
      <3>2. Fits(g, x, r) /\ (x.agg => e.agg)
        BY <2>2 DEF r
      <3>3. PartsFit(g, x, r)
        BY <2>3, <3>2, FittingParts
      <3> QED
        BY <3>1, <3>2, <3>3 DEF PartsFit
    <2> QED
      BY <2>1, <2>3, <2>5
  <1> HIDE DEF Good
  <1>4. \A m \in Nat : m \in Good
    BY <1>2, <1>3, InductionOnNats
  <1>5. ASSUME NEW n \in 1..LastLayer
        PROVE  fine(n)
    <2>1. n - 1 \in Nat /\ (n - 1) + 1 = n /\ n <= LastLayer
      BY <1>1
    <2>2. n - 1 \in Good
      BY <1>4, <2>1
    <2> HIDE DEF fine
    <2> QED
      BY <2>1, <2>2 DEF Good
  <1> QED
    BY <1>5

LEMMA AtomsFit ==
    ASSUME NEW g, Depth \in Nat, WellFormed(g), NEW S, S \subseteq Conjuncts(g), NEW e, e = Combine("and", S)
    PROVE  \A a \in AtomsOf(e) : IsAtomOf(g, a) /\ (a.agg => e.agg)
  <1> SUFFICES ASSUME NEW a \in AtomsOf(e) PROVE IsAtomOf(g, a) /\ (a.agg => e.agg)
    OBVIOUS
  <1>1. PICK n \in 0..LastLayer : a \in Layers(e)[n]
    BY DEF AtomsOf
  <1>2. a.kind = "atom"
    BY DEF AtomsOf
  <1>3. n # 0
    <2>1. Layers(e)[0] = {e}
      BY LayersAre
    <2>2. e.kind # "atom"
      BY Combined DEF None
    <2> QED
      BY <1>1, <1>2, <2>1, <2>2
  <1>4. n \in 1..LastLayer /\ LastLayer - n \in Nat
    BY <1>3, LastLayerIsNat
  <1>5. Fits(g, a, LastLayer - n) /\ (a.agg => e.agg)
    BY <1>1, <1>4, WholeFits
  <1>6. a = None \/ IsAtomOf(g, a) \/ a.kind \in Modes
    BY <1>4, <1>5, FittingParts
  <1> QED
    BY <1>2, <1>5, <1>6 DEF None, Modes

(* The last layer is the last: it has no parts. *)
LEMMA NothingBelowLastLayer ==
    ASSUME NEW g, Depth \in Nat, WellFormed(g), NEW S, S \subseteq Conjuncts(g), NEW e, e = Combine("and", S)
    PROVE  \A x \in Layers(e)[LastLayer] : x.parts = {}
  <1>1. LastLayer \in 1..LastLayer /\ LastLayer - LastLayer = 0
    BY DEF LastLayer
  <1>2. \A x \in Layers(e)[LastLayer] : Fits(g, x, 0)
    BY <1>1, WholeFits
  <1>3. \A x \in Layers(e)[LastLayer] : PartsFit(g, x, 0)
    BY <1>2, FittingParts
  <1> QED
    BY <1>3 DEF PartsFit

-----------------------------------------------------------------------------
(* Normalization: the groups stay where they are, and the fields of their   *)
(* conditions become what their paths have been expanded to.                *)

(* A group becomes a group at the same level, with what its subgroups       *)
(* become.                                                                  *)
LEMMA SubRekeyed ==
    ASSUME NEW sub, NEW below, NEW new \in RekeyedSub(sub, below)
    PROVE  /\ new.kind = sub.kind /\ DOMAIN new.groups = DOMAIN sub.groups
           /\ \A h \in ToSet(new.groups) : \E i \in ToSet(sub.groups) : h \in below[i]
  <1>1. PICK gs \in [DOMAIN sub.groups -> UNION {below[h] : h \in ToSet(sub.groups)}] :
            /\ new = [kind |-> sub.kind, groups |-> gs]
            /\ \A i \in DOMAIN gs : gs[i] \in below[sub.groups[i]]
    BY DEF RekeyedSub
  <1>2. new.kind = sub.kind /\ new.groups = gs /\ DOMAIN gs = DOMAIN sub.groups
    BY <1>1
  <1>3. ASSUME NEW h \in ToSet(gs)
        PROVE  \E i \in ToSet(sub.groups) : h \in below[i]
    <2>1. PICK x \in DOMAIN gs : h = gs[x]
      BY DEF ToSet
    <2>2. sub.groups[x] \in ToSet(sub.groups)
      BY <1>2 DEF ToSet
    <2> QED
      BY <1>1, <2>1, <2>2
  <1> QED
    BY <1>2, <1>3

LEMMA GroupRekeyed ==
    ASSUME NEW i, NEW below, NEW h \in RekeyedGroup(i, below)
    PROVE  /\ h.conds \in Survivors(i.conds)
           /\ h.or \in RekeyedSub(i.or, below)
           /\ h.and \in RekeyedSub(i.and, below)
  BY DEF RekeyedGroup, Group

LEMMA GroupAbove ==
    ASSUME Depth \in Nat, NEW g, NEW n \in 0..Depth, n # Depth, NEW h \in GroupsAt(g, n + 1)
    PROVE  \E i \in GroupsAt(g, n) : h \in ToSet(i.or.groups) \cup ToSet(i.and.groups)
  <1>1. PICK p \in Places(g)[n + 1] : h = p.group
    BY DEF GroupsAt
  <1>2. n + 1 \in 1..Depth /\ (n + 1) - 1 = n
    OBVIOUS
  <1>3. Places(g)[n + 1] = UNION {Below(q) : q \in Places(g)[n]}
    BY <1>2, PlacesAre
  <1>4. PICK q \in Places(g)[n] : p \in Below(q)
    BY <1>3
  <1>5. h \in ToSet(q.group.or.groups) \cup ToSet(q.group.and.groups)
    BY <1>1, <1>4 DEF Below, Place
  <1> QED
    BY <1>5 DEF GroupsAt

LEMMA RekeyedGroups ==
    ASSUME Depth \in Nat, NEW g, NEW f \in Rekeyed(g)
    PROVE  \A n \in 0..Depth : \A h \in GroupsAt(f, n) :
              \E i \in GroupsAt(g, n) :
                 /\ h.conds \in Survivors(i.conds)
                 /\ h.or.kind = i.or.kind /\ DOMAIN h.or.groups = DOMAIN i.or.groups
                 /\ h.and.kind = i.and.kind /\ DOMAIN h.and.groups = DOMAIN i.and.groups
  <1>1. PICK new : /\ Rekeyed(g) = new[Depth][g]
                   /\ \A n \in 0..Depth : new[n] = RekeyStep(n, g, new[n - 1])
    BY RekeyedIs
  <1> DEFINE last(n) == IF n = Depth THEN <<>> ELSE new[Depth - (n + 1)]
             From(h, n, i) == h \in RekeyedGroup(i, last(n))
             good(n) == \A h \in GroupsAt(f, n) : \E i \in GroupsAt(g, n) : From(h, n, i)
             Good == {n \in Nat : n <= Depth => good(n)}
  <1>2. ASSUME NEW n \in 0..Depth, NEW i \in GroupsAt(g, n)
        PROVE  new[Depth - n][i] = RekeyedGroup(i, last(n))
    <2>1. Depth - n \in 0..Depth /\ Depth - (Depth - n) = n /\ (Depth - n) - 1 = Depth - (n + 1)
          /\ (Depth - n = 0 <=> n = Depth)
      OBVIOUS
    <2>2. new[Depth - n] = RekeyStep(Depth - n, g, new[Depth - (n + 1)])
      BY <1>1, <2>1
    <2> QED
      BY <2>1, <2>2 DEF RekeyStep
  <1>3. \A e : GroupsAt(e, 0) = {e}
    <2> SUFFICES ASSUME NEW e PROVE GroupsAt(e, 0) = {e}
      OBVIOUS
    <2>1. Places(e)[0] = {Place(e, TRUE)}
      BY PlacesAre
    <2>2. Place(e, TRUE).group = e
      BY DEF Place
    <2> QED
      BY <2>1, <2>2 DEF GroupsAt
  <1>4. 0 \in Good
    <2>1. 0 \in 0..Depth /\ Depth - 0 = Depth /\ g \in GroupsAt(g, 0)
      BY <1>3
    <2>2. f \in RekeyedGroup(g, last(0))
      BY <1>1, <1>2, <2>1
    <2> HIDE DEF last
    <2>3. good(0)
      BY <1>3, <2>2
    <2> HIDE DEF good
    <2> QED
      BY <2>3
  <1>5. ASSUME NEW n \in Nat, n \in Good
        PROVE  n + 1 \in Good
    <2> SUFFICES ASSUME n + 1 <= Depth PROVE good(n + 1)
      <3> HIDE DEF good
      <3> QED
        OBVIOUS
    <2>1. good(n)
      <3> HIDE DEF good
      <3> QED
        BY <1>5
    <2>2. n \in 0..Depth /\ n # Depth /\ n + 1 \in 0..Depth
      OBVIOUS
    <2>3. last(n) = new[Depth - (n + 1)]
      BY <2>2
    <2> SUFFICES ASSUME NEW h \in GroupsAt(f, n + 1)
                 PROVE  \E i \in GroupsAt(g, n + 1) : From(h, n + 1, i)
      OBVIOUS
    <2>4. PICK h0 \in GroupsAt(f, n) : h \in ToSet(h0.or.groups) \cup ToSet(h0.and.groups)
      BY <2>2, GroupAbove
    <2>5. PICK i0 \in GroupsAt(g, n) : h0 \in RekeyedGroup(i0, last(n))
      BY <2>1
    <2> HIDE DEF last
    <2>6. PICK i \in ToSet(i0.or.groups) \cup ToSet(i0.and.groups) : h \in last(n)[i]
      BY <2>4, <2>5, GroupRekeyed, SubRekeyed
    <2>7. i \in GroupsAt(g, n + 1)
      BY <2>2, GroupsBelow
    <2>8. new[Depth - (n + 1)][i] = RekeyedGroup(i, last(n + 1))
      BY <1>2, <2>2, <2>7
    <2> QED
      BY <2>3, <2>6, <2>7, <2>8
  <1> HIDE DEF Good
  <1>6. \A n \in Nat : n \in Good
    BY <1>4, <1>5, InductionOnNats
  <1>7. ASSUME NEW n \in 0..Depth, NEW h \in GroupsAt(f, n)
        PROVE  \E i \in GroupsAt(g, n) : h \in RekeyedGroup(i, last(n))
    BY <1>6 DEF Good
  <1> HIDE DEF last
  <1> QED
    BY <1>7, GroupRekeyed, SubRekeyed

LEMMA NormalizedIsWellFormed ==
    ASSUME Depth \in Nat, NEW g, WellFormed(g), NEW f \in Rekeyed(g),
           expanded \in [FieldsOf(CondsOf(g)) -> Path]
    PROVE  WellFormed(f)
  <1>1. ASSUME NEW c \in CondsOf(f)
        PROVE  \E d \in CondsOf(g) : c.key = Expand(d.key)
    <2>1. PICK n \in 0..Depth : \E h \in GroupsAt(f, n) : c \in h.conds
      BY DEF CondsOf
    <2>2. PICK h \in GroupsAt(f, n) : c \in h.conds
      BY <2>1
    <2>3. PICK i \in GroupsAt(g, n) : h.conds \in Survivors(i.conds)
      BY RekeyedGroups
    <2>4. PICK d \in i.conds : c = Cond(Expand(d.key), d.value)
      BY <2>2, <2>3 DEF Survivors
    <2>5. d \in CondsOf(g)
      BY <2>4, CondsOfGroup
    <2> QED
      BY <2>4, <2>5 DEF Cond
  <1>2. ASSUME NEW c \in CondsOf(f)
        PROVE  c.key.comb \in {"and", "or"} /\ ToSet(c.key.fields) \subseteq Path
    <2>1. PICK d \in CondsOf(g) : c.key = Expand(d.key)
      BY <1>1
    <2>2. /\ c.key.comb = d.key.comb
          /\ c.key.fields = [j \in DOMAIN d.key.fields |-> expanded[d.key.fields[j]]]
      BY <2>1 DEF Expand, Key
    <2>3. \A j \in DOMAIN d.key.fields : d.key.fields[j] \in FieldsOf(CondsOf(g))
      BY DEF FieldsOf, ToSet
    <2>4. \A j \in DOMAIN c.key.fields : c.key.fields[j] \in Path
      BY <2>2, <2>3
    <2> QED
      BY <2>2, <2>4 DEF WellFormed, ToSet
  <1>3. FieldsOf(CondsOf(f)) \subseteq Path
    BY <1>2 DEF FieldsOf
  <1>4. ASSUME NEW n \in 0..Depth, NEW h \in GroupsAt(f, n), NEW sub \in {h.or, h.and}, sub.kind = "map"
        PROVE  DOMAIN sub.groups = {1}
    <2>1. PICK i \in GroupsAt(g, n) :
              /\ h.or.kind = i.or.kind /\ DOMAIN h.or.groups = DOMAIN i.or.groups
              /\ h.and.kind = i.and.kind /\ DOMAIN h.and.groups = DOMAIN i.and.groups
      BY RekeyedGroups
    <2>2. \A s \in {i.or, i.and} : s.kind = "map" => DOMAIN s.groups = {1}
      BY DEF WellFormed
    <2> QED
      BY <1>4, <2>1, <2>2
  <1> QED
    BY <1>2, <1>3, <1>4 DEF WellFormed

-----------------------------------------------------------------------------
(* The inductive invariant: types while paths are expanded, and then how    *)
(* each result comes from the filters.                                      *)

Cursor == [key : Path, path : Path, pos : Nat \ {0}, model : DOMAIN Models]

ExpandInv ==
    /\ request \in Requests
    /\ todo \subseteq Path
    /\ cursor \in Cursor
    /\ expanded \in [FieldsOf(CondsOf(request)) -> Path]

ResultInv ==
    /\ phase \in {"expand", "join", "where", "done"}
    /\ phase # "expand" => WellFormed(filters)
    /\ phase \in {"where", "done"} =>
          /\ joined = Leading(PathsFromFilters(filters) \cup ComputablePaths(filters)) \ DOMAIN ctes
          /\ \A p \in DOMAIN ctes : ComputedOver(p, filters) # {}
    /\ IF phase = "done"
       THEN /\ where = Combine("and", {e \in Conjuncts(filters) : ~e.agg})
            /\ having = Combine("and", {e \in Conjuncts(filters) : e.agg})
       ELSE where = None /\ having = None

LEMMA ExpandInit ==
    ASSUME Init
    PROVE  ExpandInv
  <1>1. request \in Requests /\ WellFormed(request)
    BY RequestsAssumption DEF Init
  <1>2. FieldsOf(CondsOf(request)) \subseteq Path
    BY <1>1 DEF WellFormed
  <1>3. Idle \in Cursor
    <2>1. <<>> \in Path
      BY EmptySeq DEF Path
    <2> QED
      BY <2>1, ModelsAssumption DEF Idle, Cursor
  <1> QED
    BY <1>1, <1>2, <1>3 DEF Init, ExpandInv

LEMMA Substituted ==
    ASSUME NEW path \in Path, NEW n \in 1..Len(path), NEW alias \in Path
    PROVE  SubSeq(path, 1, n - 1) \o alias \o SubSeq(path, n + 1, Len(path)) \in Path
  <1>1. path \in Seq(STRING) /\ Len(path) \in Nat
    BY DEF Path
  <1>2. /\ 1 \in 1..(Len(path) + 1) /\ n - 1 \in 0..Len(path)
        /\ n + 1 \in 1..(Len(path) + 1) /\ Len(path) \in n..Len(path)
    BY <1>1
  <1>3. SubSeq(path, 1, n - 1) \in Seq(STRING)
    BY <1>1, <1>2, SubSeqProperties
  <1>4. SubSeq(path, n + 1, Len(path)) \in Seq(STRING)
    BY <1>1, <1>2, SubSeqProperties
  <1> QED
    BY <1>3, <1>4, ConcatProperties DEF Path

LEMMA ExpandStep ==
    ASSUME ExpandInv, [Next]_vars
    PROVE  ExpandInv'
  <1> USE DEF ExpandInv
  <1>1. CASE Take
    <2>1. PICK path \in todo : cursor' = [Idle EXCEPT !.key = path, !.path = path]
      BY <1>1 DEF Take
    <2>2. cursor' = [key |-> path, path |-> path, pos |-> 1, model |-> Root]
      BY <2>1 DEF Idle
    <2>3. cursor' \in Cursor
      BY <2>2, ModelsAssumption DEF Cursor
    <2> QED
      BY <1>1, <2>3 DEF Take
  <1>2. CASE Substitute
    <2> DEFINE alias == Models[cursor.model].aliases[Segment]
               path == SubSeq(cursor.path, 1, cursor.pos - 1) \o alias
                          \o SubSeq(cursor.path, cursor.pos + 1, Len(cursor.path))
    <2>1. cursor' = [cursor EXCEPT !.path = path]
      BY <1>2 DEF Substitute
    <2>2. alias \in Path
      BY <1>2, ModelsAssumption DEF Substitute, Shortcut, Cursor
    <2>3. cursor.path \in Path /\ cursor.pos \in 1..Len(cursor.path)
      <3>1. cursor.path \in Path /\ cursor.pos \in Nat \ {0} /\ ~(cursor.pos > Len(cursor.path))
        BY <1>2 DEF Substitute, AtEnd, Cursor
      <3>2. Len(cursor.path) \in Nat
        BY <3>1 DEF Path
      <3> QED
        BY <3>1, <3>2
    <2>4. path \in Path
      <3> HIDE DEF alias
      <3> QED
        BY <2>2, <2>3, Substituted
    <2> HIDE DEF path
    <2>5. cursor' \in Cursor
      BY <2>1, <2>4 DEF Cursor
    <2> QED
      BY <1>2, <2>5 DEF Substitute
  <1>3. CASE Follow
    <2>1. cursor' = [cursor EXCEPT !.pos = @ + 1, !.model = Models[@].relations[Segment]]
      BY <1>3 DEF Follow
    <2>2. Models[cursor.model].relations[Segment] \in DOMAIN Models
      BY <1>3, ModelsAssumption DEF Follow, Resolves, Cursor
    <2>3. cursor.pos + 1 \in Nat \ {0}
      BY DEF Cursor
    <2>4. cursor' \in Cursor
      BY <2>1, <2>2, <2>3 DEF Cursor
    <2> QED
      BY <1>3, <2>4 DEF Follow
  <1>4. CASE Stop
    <2>1. cursor' = Idle /\ expanded' = [expanded EXCEPT ![cursor.key] = cursor.path]
      BY <1>4 DEF Stop
    <2>2. Idle \in Cursor
      <3>1. <<>> \in Path
        BY EmptySeq DEF Path
      <3> QED
        BY <3>1, ModelsAssumption DEF Idle, Cursor
    <2>3. cursor.path \in Path
      BY DEF Cursor
    <2>4. expanded' \in [FieldsOf(CondsOf(request)) -> Path]
      BY <2>1, <2>3
    <2> QED
      BY <1>4, <2>1, <2>2, <2>4 DEF Stop
  <1>5. CASE Normalize \/ Join \/ BuildWhere \/ UNCHANGED vars
    BY <1>5 DEF Normalize, Join, BuildWhere, vars
  <1> QED
    BY <1>1, <1>2, <1>3, <1>4, <1>5 DEF Next

(* Conjuncts read which computable fields have a CTE, and the filters.       *)
LEMMA SameConjuncts ==
    ASSUME UNCHANGED <<filters, ctes>>
    PROVE  Conjuncts(filters)' = Conjuncts(filters)
  BY DEF Conjuncts, ConjunctsAt, buildCond, Composite, Atom, isAggregate, Overridden, Sub, buildGroupExpr

LEMMA ResultStep ==
    ASSUME ExpandInv, ResultInv, [Next]_vars
    PROVE  ResultInv'
  <1> USE DEF ResultInv
  <1>1. CASE Take \/ Substitute \/ Follow \/ Stop \/ UNCHANGED vars
    <2>1. UNCHANGED <<phase, filters, joined, ctes, where, having>>
      BY <1>1 DEF Take, Substitute, Follow, Stop, vars
    <2>2. Conjuncts(filters)' = Conjuncts(filters)
      BY <2>1, SameConjuncts
    <2> QED
      BY <2>1, <2>2
  <1>2. CASE Normalize
    <2>1. /\ phase = "expand" /\ phase' = "join" /\ filters' \in Rekeyed(request)
          /\ UNCHANGED <<where, having>>
      BY <1>2 DEF Normalize
    <2>2. WellFormed(request) /\ Depth \in Nat
      BY RequestsAssumption DEF ExpandInv
    <2>3. WellFormed(filters')
      BY <2>1, <2>2, NormalizedIsWellFormed DEF ExpandInv
    <2> QED
      BY <2>1, <2>3
  <1>3. CASE Join
    <2> DEFINE paths == Leading(PathsFromFilters(filters) \cup ComputablePaths(filters))
               moved == {p \in paths : ComputedOver(p, filters) # {}}
    <2>1. /\ joined' = paths \ moved /\ ctes' = [p \in moved |-> ComputedOver(p, filters)]
          /\ phase = "join" /\ phase' = "where" /\ UNCHANGED <<filters, where, having>>
      BY <1>3 DEF Join
    <2>2. DOMAIN ctes' = moved
      BY <2>1
    <2>3. joined' = paths \ DOMAIN ctes' /\ \A p \in DOMAIN ctes' : ComputedOver(p, filters) # {}
      BY <2>1, <2>2
    <2>4. WellFormed(filters) /\ where = None /\ having = None
      BY <2>1
    <2> HIDE DEF moved
    <2> QED
      BY <2>1, <2>3, <2>4
  <1>4. CASE BuildWhere
    <2>1. /\ phase = "where" /\ phase' = "done" /\ UNCHANGED <<filters, joined, ctes>>
          /\ where' = Combine("and", {e \in Conjuncts(filters) : ~e.agg})
          /\ having' = Combine("and", {e \in Conjuncts(filters) : e.agg})
      BY <1>4 DEF BuildWhere
    <2>2. Conjuncts(filters)' = Conjuncts(filters)
      BY <2>1, SameConjuncts
    <2> QED
      BY <2>1, <2>2
  <1> QED
    BY <1>1, <1>2, <1>3, <1>4 DEF Next

LEMMA InvAlways == Spec => [](ExpandInv /\ ResultInv)
  <1>1. Init => ExpandInv /\ ResultInv
    <2>1. Init => ResultInv
      BY DEF Init, ResultInv
    <2> QED
      BY <2>1, ExpandInit
  <1>2. ExpandInv /\ ResultInv /\ [Next]_vars => (ExpandInv /\ ResultInv)'
    BY ExpandStep, ResultStep
  <1> QED
    BY <1>1, <1>2, PTL DEF Spec

-----------------------------------------------------------------------------
(* What the runs check.                                                     *)

LEMMA WhereAndHaving ==
    ASSUME ExpandInv, ResultInv, phase = "done"
    PROVE  /\ Depth \in Nat /\ WellFormed(filters)
           /\ \E S : S \subseteq Conjuncts(filters) /\ where = Combine("and", S) /\ ~where.agg
           /\ \E S : S \subseteq Conjuncts(filters) /\ having = Combine("and", S)
  <1> DEFINE S == {e \in Conjuncts(filters) : ~e.agg}
             T == {e \in Conjuncts(filters) : e.agg}
  <1>1. Depth \in Nat
    BY RequestsAssumption
  <1>2. WellFormed(filters) /\ where = Combine("and", S) /\ having = Combine("and", T)
    BY DEF ResultInv
  <1>3. S \subseteq Conjuncts(filters) /\ T \subseteq Conjuncts(filters) /\ \A p \in S : ~p.agg
    OBVIOUS
  <1> HIDE DEF S, T
  <1>4. ~where.agg
    BY <1>2, <1>3, Combined
  <1> QED
    BY <1>1, <1>2, <1>3, <1>4

LEMMA AtomsOfResult ==
    ASSUME ExpandInv, ResultInv, phase = "done"
    PROVE  /\ \A a \in AtomsOf(where) : IsAtomOf(filters, a) /\ ~a.agg
           /\ \A a \in AtomsOf(having) : IsAtomOf(filters, a)
  <1>1. \A a \in AtomsOf(where) : IsAtomOf(filters, a) /\ (a.agg => where.agg)
    BY WhereAndHaving, AtomsFit
  <1>2. \A a \in AtomsOf(having) : IsAtomOf(filters, a)
    BY WhereAndHaving, AtomsFit
  <1> QED
    BY <1>1, <1>2, WhereAndHaving

LEMMA FrontOfPath ==
    ASSUME NEW f \in Path, Front(f) # <<>>
    PROVE  Len(f) > 1 /\ Front(f) \in Path
  <1>1. f \in Seq(STRING) /\ Len(f) \in Nat
    BY DEF Path
  <1>2. Len(f) > 1
    <2> SUFFICES ASSUME ~(Len(f) > 1) PROVE Front(f) = <<>>
      OBVIOUS
    <2>1. 1..(Len(f) - 1) = {}
      BY <1>1
    <2> QED
      BY <1>1, <2>1 DEF Front
  <1>3. 1 \in 1..(Len(f) + 1) /\ Len(f) - 1 \in 0..Len(f)
    BY <1>1, <1>2
  <1>4. SubSeq(f, 1, Len(f) - 1) \in Seq(STRING)
    BY <1>1, <1>3, SubSeqProperties
  <1> QED
    BY <1>2, <1>4 DEF Front, Path

-----------------------------------------------------------------------------
(* Nothing is lost: a group with conditions is somewhere in the query.      *)

(* x is nothing, or in WHERE or HAVING, at most m layers down. *)
Present(x, m) ==
    x = None \/ \E e \in {where, having} : \E n \in 0..m : n <= LastLayer /\ x \in Layers(e)[n]

LEMMA CombinedKeeps ==
    ASSUME NEW mode, NEW S, NEW p \in S, p # None
    PROVE  p \in Combine(mode, S).parts /\ Combine(mode, S) # None
  BY DEF Combine, None

LEMMA PartPresent ==
    ASSUME Depth \in Nat, NEW m \in Nat, m < LastLayer, NEW mode, NEW S, NEW p \in S,
           Present(Combine(mode, S), m)
    PROVE  Present(p, m + 1)
  <1> SUFFICES ASSUME p # None PROVE Present(p, m + 1)
    BY DEF Present
  <1> DEFINE x == Combine(mode, S)
  <1>1. p \in x.parts /\ x # None
    BY CombinedKeeps
  <1> HIDE DEF x
  <1>2. PICK e \in {where, having}, n \in 0..m : n <= LastLayer /\ x \in Layers(e)[n]
    BY <1>1 DEF Present, x
  <1>3. n + 1 \in 1..LastLayer /\ n + 1 \in 0..(m + 1) /\ (n + 1) - 1 = n /\ n + 1 <= LastLayer
    BY LastLayerIsNat
  <1>4. Layers(e)[n + 1] = UNION {y.parts : y \in Layers(e)[n]}
    BY <1>3, LayersAre
  <1>5. p \in Layers(e)[n + 1]
    BY <1>1, <1>2, <1>4
  <1> QED
    BY <1>3, <1>5 DEF Present

LEMMA ConjunctPresent ==
    ASSUME ResultInv, phase = "done", Depth \in Nat, NEW x \in Conjuncts(filters)
    PROVE  Present(x, 1)
  <1> SUFFICES ASSUME x # None PROVE Present(x, 1)
    BY DEF Present
  <1>1. PICK e \in {where, having} : x \in e.parts
    <2> DEFINE S == {y \in Conjuncts(filters) : ~y.agg}
               T == {y \in Conjuncts(filters) : y.agg}
    <2>1. where = Combine("and", S) /\ having = Combine("and", T)
      BY DEF ResultInv
    <2>2. x \in S \/ x \in T
      OBVIOUS
    <2> HIDE DEF S, T
    <2> QED
      BY <2>1, <2>2, CombinedKeeps
  <1>2. 1 \in 1..LastLayer /\ 1 \in 0..1 /\ 1 - 1 = 0 /\ 1 <= LastLayer
    BY DEF LastLayer
  <1>3. Layers(e)[0] = {e} /\ Layers(e)[1] = UNION {y.parts : y \in Layers(e)[0]}
    BY <1>2, LayersAre
  <1>4. x \in Layers(e)[1]
    BY <1>1, <1>3
  <1> QED
    BY <1>2, <1>4 DEF Present

(* What is made of what is under "or" or "and" has the group's expression.  *)
LEMMA SubKeeps ==
    ASSUME Depth \in Nat, NEW k \in 0..Depth, NEW sub, sub.kind = "map" => DOMAIN sub.groups = {1},
           NEW how \in Modes, NEW h \in ToSet(sub.groups), NEW m \in Nat, m < LastLayer,
           Present(Sub(how, sub, buildGroupExpr(filters)[k]), m)
    PROVE  \E mode \in Modes : Present(buildGroupExpr(filters)[k][h, mode], m + 1)
  <1>1. CASE sub.kind = "map"
    <2>1. h = sub.groups[1]
      BY <1>1 DEF ToSet
    <2>2. Present(buildGroupExpr(filters)[k][h, how], m)
      BY <1>1, <2>1 DEF Sub
    <2>3. \A n \in 0..m : n \in 0..(m + 1)
      OBVIOUS
    <2> QED
      BY <2>2, <2>3 DEF Present
  <1>2. CASE sub.kind # "map"
    <2> DEFINE S == {buildGroupExpr(filters)[k][i, "and"] : i \in ToSet(sub.groups)}
    <2>1. Sub(how, sub, buildGroupExpr(filters)[k]) = Combine(how, S)
      BY <1>2 DEF Sub
    <2>2. buildGroupExpr(filters)[k][h, "and"] \in S
      OBVIOUS
    <2> HIDE DEF S
    <2>3. Present(buildGroupExpr(filters)[k][h, "and"], m + 1)
      BY <2>1, <2>2, PartPresent
    <2> QED
      BY <2>3 DEF Modes
  <1> QED
    BY <1>1, <1>2

(* The expression of a group that is not split is in the query. *)
Kept(p, n) ==
    p.top \/ \E mode \in Modes : Present(buildGroupExpr(filters)[Depth - n][p.group, mode], 2 * n)

LEMMA PresentLater ==
    ASSUME NEW x, NEW m \in Nat, NEW n \in Nat, m <= n, Present(x, m)
    PROVE  Present(x, n)
  <1>1. \A i \in 0..m : i \in 0..n
    OBVIOUS
  <1> QED
    BY <1>1 DEF Present

LEMMA KeptBelow ==
    ASSUME ResultInv, phase = "done", WellFormed(filters), Depth \in Nat, NEW n \in 0..Depth, n # Depth,
           NEW p \in Places(filters)[n], Kept(p, n), NEW q \in Below(p)
    PROVE  Kept(q, n + 1)
  <1> DEFINE k == Depth - n - 1
             g == p.group
             below == buildGroupExpr(filters)[k]
  <1>1. /\ k \in 0..Depth /\ k < Depth /\ Depth - (n + 1) = k /\ Depth - n \in 0..Depth
        /\ Depth - n # 0 /\ (Depth - n) - 1 = k /\ Depth - (Depth - n) = n
        /\ 2 * n \in Nat /\ 2 * n + 1 \in Nat /\ 2 * n + 1 < LastLayer /\ 2 * n < LastLayer
        /\ 1 < LastLayer /\ 2 <= 2 * (n + 1) /\ (2 * n + 1) + 1 = 2 * (n + 1) /\ 2 * (n + 1) \in Nat
    BY DEF LastLayer
  <1>2. g \in GroupsAt(filters, n)
    BY DEF GroupsAt
  <1>3. \A sub \in {g.or, g.and} : sub.kind = "map" => DOMAIN sub.groups = {1}
    BY <1>2 DEF WellFormed
  <1>4. \/ q.group \in ToSet(g.or.groups) /\ ~q.top
        \/ q.group \in ToSet(g.and.groups) /\ q.top = p.top
    BY DEF Below, Place
  <1> SUFFICES ASSUME ~q.top
               PROVE  \E mode \in Modes : Present(below[q.group, mode], 2 * (n + 1))
    BY <1>1 DEF Kept
  <1> HIDE DEF k, g
  <1>5. CASE p.top
    <2>1. q.group \in ToSet(g.or.groups)
      BY <1>4, <1>5
    <2>2. Sub("or", g.or, below) \in Conjuncts(filters)
      <3>1. g \in {r.group : r \in {r2 \in Places(filters)[n] : r2.top}}
        BY <1>5 DEF g
      <3>2. Sub("or", g.or, below) \in ConjunctsAt(filters, n)
        BY <3>1 DEF ConjunctsAt, k
      <3> QED
        BY <3>2 DEF Conjuncts
    <2>3. Present(Sub("or", g.or, below), 1)
      BY <2>2, ConjunctPresent
    <2>4. \E mode \in Modes : Present(below[q.group, mode], 1 + 1)
      <3>1. "or" \in Modes /\ 1 \in Nat
        BY DEF Modes
      <3> QED
        BY <1>1, <1>3, <2>1, <2>3, <3>1, SubKeeps
    <2>5. 1 + 1 \in Nat /\ 1 + 1 <= 2 * (n + 1)
      BY <1>1
    <2> HIDE DEF below
    <2> QED
      BY <1>1, <2>4, <2>5, PresentLater
  <1>6. CASE ~p.top
    <2>1. PICK mode \in Modes : Present(buildGroupExpr(filters)[Depth - n][g, mode], 2 * n)
      BY <1>6 DEF Kept, g
    <2>2. PICK how \in Modes, sub \in {g.or, g.and} :
              /\ q.group \in ToSet(sub.groups)
              /\ (how = "or" /\ sub = g.or) \/ (how = "and" /\ sub = g.and)
      BY <1>4 DEF Modes
    <2> DEFINE S == {buildCond(c) : c \in g.conds} \cup {Sub("or", g.or, below), Sub("and", g.and, below)}
    <2>3. buildGroupExpr(filters)[Depth - n][g, mode] = Combine(mode, S)
      <3> DEFINE pair == <<g, mode>>
      <3>1. pair \in GroupsAt(filters, Depth - (Depth - n)) \X Modes /\ pair[1] = g /\ pair[2] = mode
        BY <1>1, <1>2
      <3> HIDE DEF pair
      <3> DEFINE m == Depth - n
      <3>2. m \in 0..Depth /\ m # 0 /\ m - 1 = k /\ pair \in GroupsAt(filters, Depth - m) \X Modes
        BY <1>1, <3>1
      <3> HIDE DEF m, S
      <3>3. buildGroupExpr(filters)[m][pair] =
                Combine(pair[2], {buildCond(c) : c \in pair[1].conds}
                    \cup {Sub("or", pair[1].or, buildGroupExpr(filters)[m - 1]),
                          Sub("and", pair[1].and, buildGroupExpr(filters)[m - 1])})
        BY <3>2, GroupExpr
      <3>4. buildGroupExpr(filters)[m][pair] = Combine(mode, S)
        BY <3>1, <3>2, <3>3 DEF S
      <3> QED
        BY <3>4 DEF pair, m
    <2>4. Sub(how, sub, below) \in S
      BY <2>2
    <2> HIDE DEF S
    <2>5. Present(Sub(how, sub, below), 2 * n + 1)
      BY <1>1, <2>1, <2>3, <2>4, PartPresent
    <2>6. \E m2 \in Modes : Present(below[q.group, m2], (2 * n + 1) + 1)
      BY <1>1, <1>3, <2>2, <2>5, SubKeeps
    <2> QED
      BY <1>1, <2>6
  <1> QED
    BY <1>5, <1>6

LEMMA AllKept ==
    ASSUME ResultInv, phase = "done", WellFormed(filters), Depth \in Nat
    PROVE  \A n \in 0..Depth : \A p \in Places(filters)[n] : Kept(p, n)
  <1> DEFINE fine(n) == \A p \in Places(filters)[n] : Kept(p, n)
             Good == {n \in Nat : n <= Depth => fine(n)}
  <1>1. 0 \in Good
    <2>1. Places(filters)[0] = {Place(filters, TRUE)}
      BY PlacesAre
    <2>2. Place(filters, TRUE).top
      BY DEF Place
    <2>3. fine(0)
      BY <2>1, <2>2 DEF Kept
    <2> HIDE DEF fine
    <2> QED
      BY <2>3
  <1>2. ASSUME NEW n \in Nat, n \in Good
        PROVE  n + 1 \in Good
    <2> SUFFICES ASSUME n + 1 <= Depth PROVE fine(n + 1)
      <3> HIDE DEF fine
      <3> QED
        OBVIOUS
    <2>1. fine(n)
      <3> HIDE DEF fine
      <3> QED
        BY <1>2
    <2>2. n \in 0..Depth /\ n # Depth /\ n + 1 \in 1..Depth /\ (n + 1) - 1 = n
      OBVIOUS
    <2>3. Places(filters)[n + 1] = UNION {Below(p) : p \in Places(filters)[n]}
      BY <2>2, PlacesAre
    <2>4. ASSUME NEW q \in Places(filters)[n + 1]
          PROVE  Kept(q, n + 1)
      <3>1. PICK p \in Places(filters)[n] : q \in Below(p)
        BY <2>3
      <3>2. Kept(p, n)
        BY <2>1
      <3> QED
        BY <2>2, <3>1, <3>2, KeptBelow
    <2> QED
      BY <2>4
  <1> HIDE DEF Good
  <1>3. \A n \in Nat : n \in Good
    BY <1>1, <1>2, InductionOnNats
  <1> QED
    BY <1>3 DEF Good

LEMMA CondPresent ==
    ASSUME ResultInv, phase = "done", WellFormed(filters), Depth \in Nat, NEW c \in CondsOf(filters)
    PROVE  Present(buildCond(c), 2 * Depth + 1)
  <1>1. PICK n \in 0..Depth : \E h \in GroupsAt(filters, n) : c \in h.conds
    BY DEF CondsOf
  <1>2. PICK p \in Places(filters)[n] : c \in p.group.conds
    BY <1>1 DEF GroupsAt
  <1> DEFINE h == p.group
             pair(mode) == <<h, mode>>
  <1>3. h \in GroupsAt(filters, n)
    BY DEF GroupsAt
  <1>4. /\ Depth - n \in 0..Depth /\ Depth - (Depth - n) = n /\ 2 * n \in Nat /\ 2 * n < LastLayer
        /\ 2 * n + 1 <= 2 * Depth + 1 /\ 2 * n + 1 \in Nat
        /\ 2 * Depth + 1 \in Nat /\ 1 <= 2 * Depth + 1 /\ 1 \in Nat
    BY DEF LastLayer
  <1>5. CASE p.top
    <2>1. buildCond(c) \in Conjuncts(filters)
      BY <1>2, <1>5 DEF Conjuncts, ConjunctsAt
    <2> QED
      BY <1>4, <2>1, ConjunctPresent, PresentLater
  <1>6. CASE ~p.top
    <2>1. PICK mode \in Modes : Present(buildGroupExpr(filters)[Depth - n][pair(mode)], 2 * n)
      BY <1>6, AllKept DEF Kept
    <2> DEFINE m == Depth - n
               S == {buildCond(d) : d \in h.conds}
                        \cup (IF m = 0 THEN {} ELSE {Sub("or", h.or, buildGroupExpr(filters)[m - 1]),
                                                    Sub("and", h.and, buildGroupExpr(filters)[m - 1])})
    <2>2. /\ pair(mode) \in GroupsAt(filters, n) \X Modes
          /\ pair(mode)[1] = h /\ pair(mode)[2] = mode
      BY <1>3
    <2>3. buildCond(c) \in S
      BY <1>2
    <2> HIDE DEF h, pair
    <2>4. buildGroupExpr(filters)[m][pair(mode)] = Combine(mode, S)
      <3>1. m \in 0..Depth /\ pair(mode) \in GroupsAt(filters, Depth - m) \X Modes
        BY <1>4, <2>2
      <3> HIDE DEF m
      <3>2. buildGroupExpr(filters)[m][pair(mode)] =
                Combine(pair(mode)[2], {buildCond(d) : d \in pair(mode)[1].conds}
                    \cup (IF m = 0 THEN {}
                          ELSE {Sub("or", pair(mode)[1].or, buildGroupExpr(filters)[m - 1]),
                                Sub("and", pair(mode)[1].and, buildGroupExpr(filters)[m - 1])}))
        BY <3>1, GroupExpr
      <3> QED
        BY <2>2, <3>2
    <2> HIDE DEF S
    <2>5. Present(Combine(mode, S), 2 * n)
      BY <2>1, <2>4
    <2>6. Present(buildCond(c), 2 * n + 1)
      BY <1>4, <2>3, <2>5, PartPresent
    <2> QED
      BY <1>4, <2>6, PresentLater
  <1> QED
    BY <1>5, <1>6

LEMMA AtomPresent ==
    ASSUME ResultInv, phase = "done", WellFormed(filters), Depth \in Nat,
           NEW c \in CondsOf(filters), Applies(c.key.op, c.value), NEW f \in ToSet(c.key.fields)
    PROVE  Atom(f, c.key.op, c.key.cs, c.value) \in AtomsOf(where) \cup AtomsOf(having)
  <1> DEFINE a == Atom(f, c.key.op, c.key.cs, c.value)
             m == 2 * Depth + 1
             made(i) == IF Applies(c.key.op, c.value) THEN Atom(i, c.key.op, c.key.cs, c.value) ELSE None
             S == {made(i) : i \in ToSet(c.key.fields)}
  <1>1. a.kind = "atom" /\ a # None
    BY DEF Atom, None
  <1>2. a \in S
    OBVIOUS
  <1>3. buildCond(c) = Combine(c.key.comb, S)
    BY DEF buildCond, Composite
  <1>4. m \in Nat /\ m < LastLayer /\ m + 1 = LastLayer
    BY DEF LastLayer
  <1> HIDE DEF a, S, m
  <1>5. Present(Combine(c.key.comb, S), m)
    BY <1>3, CondPresent DEF m
  <1>6. Present(a, m + 1)
    BY <1>2, <1>4, <1>5, PartPresent
  <1>7. PICK e \in {where, having}, n \in 0..LastLayer : a \in Layers(e)[n]
    BY <1>1, <1>4, <1>6 DEF Present
  <1>8. a \in AtomsOf(e)
    BY <1>1, <1>7 DEF AtomsOf
  <1> QED
    BY <1>7, <1>8 DEF a

(* WHERE has no aggregates, however the groups of the filters are nested:   *)
(* the flags that buildCond and buildGroupExpr return tell of all in them.  *)
(* (BuildWhereClause.go)                                                    *)
THEOREM AggregatesNeverInWhere == Spec => []NoAggregateInWhere
  <1>1. ExpandInv /\ ResultInv => NoAggregateInWhere
    BY AtomsOfResult DEF NoAggregateInWhere, IsAtomOf
  <1> QED
    BY <1>1, InvAlways, PTL

(* Every relation that a path of a condition goes through is joined, in     *)
(* whatever group it is and whatever it was expanded to; so are those of a  *)
(* computable field that is used.  The only ones that are not are has_many  *)
(* paths that a CTE has taken.                                              *)
(* (PathsFromFilters, collectComputablePathsForRequest, filterJoinSpecs)    *)
THEOREM PathsAlwaysJoined == Spec => []EveryPathJoined
  <1>1. ASSUME ExpandInv, ResultInv
        PROVE  EveryPathJoined
    <2> SUFFICES ASSUME phase = "done", NEW a \in Conditions, NEW p \in Reads(a.field) \ joined
                 PROVE  isHasManyPath(p) /\ p \in DOMAIN ctes
      BY DEF EveryPathJoined
    <2> DEFINE f == a.field
               paths == PathsFromFilters(filters) \cup ComputablePaths(filters)
               own == {path \in {Front(f)} : path # <<>>}
               computed == IF Len(f) = 1 /\ f[1] \in Used(filters) /\ ~Overridden(f)
                           THEN Computables(Root)[f[1]].paths ELSE {}
    <2>1. /\ joined = Leading(paths) \ DOMAIN ctes /\ WellFormed(filters)
          /\ \A q \in DOMAIN ctes : ComputedOver(q, filters) # {}
      BY <1>1 DEF ResultInv
    <2>2. f \in FieldsOf(CondsOf(filters))
      BY <1>1, AtomsOfResult DEF IsAtomOf, Conditions
    <2>3. f \in Path
      BY <2>1, <2>2 DEF WellFormed
    <2>4. own \subseteq paths
      BY <2>2, <2>3, FrontOfPath DEF PathsFromFilters
    <2>5. computed \subseteq paths
      BY DEF ComputablePaths
    <2>6. p \in Leading(own \cup computed)
      BY DEF Reads
    <2> HIDE DEF own, computed, paths
    <2>7. p \in Leading(paths)
      BY <2>4, <2>5, <2>6 DEF Leading
    <2>8. p \in DOMAIN ctes
      BY <2>1, <2>7
    <2>9. isHasManyPath(p)
      BY <2>1, <2>8 DEF ComputedOver
    <2> QED
      BY <2>8, <2>9
  <1> QED
    BY <1>1, InvAlways, PTL

(* The layers that AtomsOf looks at are all there are.                      *)
(* (buildWhereClause)                                                       *)
LayersSuffice ==
    phase = "done" => \A e \in {where, having} : \A x \in Layers(e)[LastLayer] : x.parts = {}

THEOREM LayersAlwaysSuffice == Spec => []LayersSuffice
  <1>1. ExpandInv /\ ResultInv => LayersSuffice
    BY WhereAndHaving, NothingBelowLastLayer DEF LayersSuffice
  <1> QED
    BY <1>1, InvAlways, PTL

(* No condition is lost: each whose operator applies is in the query, on    *)
(* each of its fields, in however deep a group it is.                       *)
(* (buildGroupAnd, buildGroupExpr)                                          *)
ConditionsKept ==
    phase = "done" =>
        \A c \in CondsOf(filters) : Applies(c.key.op, c.value) =>
            \A f \in ToSet(c.key.fields) :
                Atom(f, c.key.op, c.key.cs, c.value) \in AtomsOf(where) \cup AtomsOf(having)

THEOREM ConditionsNeverLost == Spec => []ConditionsKept
  <1>1. ExpandInv /\ ResultInv => ConditionsKept
    BY AtomPresent, WhereAndHaving DEF ConditionsKept
  <1> QED
    BY <1>1, InvAlways, PTL

-----------------------------------------------------------------------------
(* The rows of the query.  The truth of expressions, the reading of a path, *)
(* and what the filters ask for, round by round.                            *)

TruthStep(n, e, row, last) ==
    [x \in WithinOf(e) |->
        TruthOf(x, row, IF n = 0 THEN [p \in x.parts |-> "U"] ELSE last)]

LEMMA TruthsAre ==
    ASSUME NEW e, NEW row, Depth \in Nat
    PROVE  \A n \in 0..LastLayer : Truths(e, row)[n] = TruthStep(n, e, row, Truths(e, row)[n - 1])
  <1> DEFINE Solves(f, m) == f = [n \in 0..m |-> TruthStep(n, e, row, f[n - 1])]
             Good == {m \in Nat : \E f : Solves(f, m)}
  <1>1. 0 \in Good
    <2> DEFINE f == [n \in 0..0 |-> TruthStep(0, e, row, <<>>)]
    <2>1. \A n \in 0..0 : TruthStep(n, e, row, f[n - 1]) = TruthStep(0, e, row, <<>>)
      <3>1. \A n \in 0..0 : n = 0
        OBVIOUS
      <3> HIDE DEF f
      <3> QED
        BY <3>1 DEF TruthStep
    <2>2. Solves(f, 0)
      BY <2>1
    <2> QED
      BY <2>2
  <1>2. ASSUME NEW m \in Nat, m \in Good
        PROVE  m + 1 \in Good
    <2>1. PICK f : Solves(f, m)
      BY <1>2
    <2> DEFINE top == TruthStep(m + 1, e, row, f[m])
               h == [n \in 0..(m + 1) |-> IF n = m + 1 THEN top ELSE f[n]]
    <2>2. \A n \in 0..m : f[n] = TruthStep(n, e, row, f[n - 1])
      BY <2>1
    <2> HIDE DEF top
    <2>3. h[m + 1] = top /\ \A n \in 0..m : h[n] = f[n]
      OBVIOUS
    <2>4. h = [n \in 0..(m + 1) |-> h[n]]
      OBVIOUS
    <2> HIDE DEF h
    <2>5. \A n \in 0..(m + 1) : h[n] = TruthStep(n, e, row, h[n - 1])
      <3> SUFFICES ASSUME NEW n \in 0..(m + 1) PROVE h[n] = TruthStep(n, e, row, h[n - 1])
        OBVIOUS
      <3>1. CASE n = m + 1
        <4>1. n - 1 = m /\ m \in 0..m
          BY <3>1
        <4> QED
          BY <2>3, <3>1, <4>1 DEF top
      <3>2. CASE n = 0
        <4>1. n \in 0..m
          BY <3>2
        <4> QED
          BY <2>2, <2>3, <3>2, <4>1 DEF TruthStep
      <3>3. CASE n # m + 1 /\ n # 0
        <4>1. n \in 0..m /\ n - 1 \in 0..m
          BY <3>3
        <4> QED
          BY <2>2, <2>3, <4>1
      <3> QED
        BY <3>1, <3>2, <3>3
    <2>6. Solves(h, m + 1)
      BY <2>4, <2>5
    <2> HIDE DEF Solves
    <2> QED
      BY <2>6
  <1> HIDE DEF Good
  <1>3. LastLayer \in Good
    BY <1>1, <1>2, LastLayerIsNat, InductionOnNats
  <1>4. Truths(e, row) = CHOOSE f : Solves(f, LastLayer)
    BY DEF Truths, TruthStep
  <1>5. Solves(Truths(e, row), LastLayer)
    <2>1. \E f : Solves(f, LastLayer)
      BY <1>3 DEF Good
    <2> HIDE DEF Solves
    <2> QED
      BY <1>4, <2>1
  <1> QED
    BY <1>5

ReadingStep(n, path, last) == IF n = 0 THEN Reading(Root, <<>>, path) ELSE ReadOn(last)

LEMMA ReadingsAre ==
    ASSUME NEW path
    PROVE  \A n \in 0..Turns : Readings(path)[n] = ReadingStep(n, path, Readings(path)[n - 1])
  <1> DEFINE Solves(f, m) == f = [n \in 0..m |-> ReadingStep(n, path, f[n - 1])]
             Good == {m \in Nat : \E f : Solves(f, m)}
  <1>1. 0 \in Good
    <2> DEFINE f == [n \in 0..0 |-> ReadingStep(0, path, <<>>)]
    <2>1. \A n \in 0..0 : ReadingStep(n, path, f[n - 1]) = ReadingStep(0, path, <<>>)
      <3>1. \A n \in 0..0 : n = 0
        OBVIOUS
      <3> HIDE DEF f
      <3> QED
        BY <3>1 DEF ReadingStep
    <2>2. Solves(f, 0)
      BY <2>1
    <2> QED
      BY <2>2
  <1>2. ASSUME NEW m \in Nat, m \in Good
        PROVE  m + 1 \in Good
    <2>1. PICK f : Solves(f, m)
      BY <1>2
    <2> DEFINE top == ReadingStep(m + 1, path, f[m])
               h == [n \in 0..(m + 1) |-> IF n = m + 1 THEN top ELSE f[n]]
    <2>2. \A n \in 0..m : f[n] = ReadingStep(n, path, f[n - 1])
      BY <2>1
    <2> HIDE DEF top
    <2>3. h[m + 1] = top /\ \A n \in 0..m : h[n] = f[n]
      OBVIOUS
    <2>4. h = [n \in 0..(m + 1) |-> h[n]]
      OBVIOUS
    <2> HIDE DEF h
    <2>5. \A n \in 0..(m + 1) : h[n] = ReadingStep(n, path, h[n - 1])
      <3> SUFFICES ASSUME NEW n \in 0..(m + 1) PROVE h[n] = ReadingStep(n, path, h[n - 1])
        OBVIOUS
      <3>1. CASE n = m + 1
        <4>1. n - 1 = m /\ m \in 0..m
          BY <3>1
        <4> QED
          BY <2>3, <3>1, <4>1 DEF top
      <3>2. CASE n = 0
        <4>1. n \in 0..m
          BY <3>2
        <4> QED
          BY <2>2, <2>3, <3>2, <4>1 DEF ReadingStep
      <3>3. CASE n # m + 1 /\ n # 0
        <4>1. n \in 0..m /\ n - 1 \in 0..m
          BY <3>3
        <4> QED
          BY <2>2, <2>3, <4>1
      <3> QED
        BY <3>1, <3>2, <3>3
    <2>6. Solves(h, m + 1)
      BY <2>4, <2>5
    <2> HIDE DEF Solves
    <2> QED
      BY <2>6
  <1> HIDE DEF Good
  <1>3. Turns \in Good
    BY <1>1, <1>2, TurnsAssumption, InductionOnNats
  <1>4. Readings(path) = CHOOSE f : Solves(f, Turns)
    BY DEF Readings, ReadingStep
  <1>5. Solves(Readings(path), Turns)
    <2>1. \E f : Solves(f, Turns)
      BY <1>3 DEF Good
    <2> HIDE DEF Solves
    <2> QED
      BY <1>4, <2>1
  <1> QED
    BY <1>5

AsksStep(n, g, row, last) ==
    [q \in GroupsAt(g, Depth - n) \X {"and", "or"} |->
        Together(q[2], {AsksCond(c, row) : c \in q[1].conds}
            \cup (IF n = 0 THEN {}
                  ELSE {AsksSub("or", q[1].or, last), AsksSub("and", q[1].and, last)}))]

LEMMA AsksAre ==
    ASSUME NEW g, NEW row, Depth \in Nat
    PROVE  \A n \in 0..Depth : Asks(g, row)[n] = AsksStep(n, g, row, Asks(g, row)[n - 1])
  <1> DEFINE Solves(f, m) == f = [n \in 0..m |-> AsksStep(n, g, row, f[n - 1])]
             Good == {m \in Nat : \E f : Solves(f, m)}
  <1>1. 0 \in Good
    <2> DEFINE f == [n \in 0..0 |-> AsksStep(0, g, row, <<>>)]
    <2>1. \A n \in 0..0 : AsksStep(n, g, row, f[n - 1]) = AsksStep(0, g, row, <<>>)
      <3>1. \A n \in 0..0 : n = 0
        OBVIOUS
      <3> HIDE DEF f
      <3> QED
        BY <3>1 DEF AsksStep
    <2>2. Solves(f, 0)
      BY <2>1
    <2> QED
      BY <2>2
  <1>2. ASSUME NEW m \in Nat, m \in Good
        PROVE  m + 1 \in Good
    <2>1. PICK f : Solves(f, m)
      BY <1>2
    <2> DEFINE top == AsksStep(m + 1, g, row, f[m])
               h == [n \in 0..(m + 1) |-> IF n = m + 1 THEN top ELSE f[n]]
    <2>2. \A n \in 0..m : f[n] = AsksStep(n, g, row, f[n - 1])
      BY <2>1
    <2> HIDE DEF top
    <2>3. h[m + 1] = top /\ \A n \in 0..m : h[n] = f[n]
      OBVIOUS
    <2>4. h = [n \in 0..(m + 1) |-> h[n]]
      OBVIOUS
    <2> HIDE DEF h
    <2>5. \A n \in 0..(m + 1) : h[n] = AsksStep(n, g, row, h[n - 1])
      <3> SUFFICES ASSUME NEW n \in 0..(m + 1) PROVE h[n] = AsksStep(n, g, row, h[n - 1])
        OBVIOUS
      <3>1. CASE n = m + 1
        <4>1. n - 1 = m /\ m \in 0..m
          BY <3>1
        <4> QED
          BY <2>3, <3>1, <4>1 DEF top
      <3>2. CASE n = 0
        <4>1. n \in 0..m
          BY <3>2
        <4> QED
          BY <2>2, <2>3, <3>2, <4>1 DEF AsksStep
      <3>3. CASE n # m + 1 /\ n # 0
        <4>1. n \in 0..m /\ n - 1 \in 0..m
          BY <3>3
        <4> QED
          BY <2>2, <2>3, <4>1
      <3> QED
        BY <3>1, <3>2, <3>3
    <2>6. Solves(h, m + 1)
      BY <2>4, <2>5
    <2> HIDE DEF Solves
    <2> QED
      BY <2>6
  <1> HIDE DEF Good
  <1>3. Depth \in Good
    BY <1>1, <1>2, InductionOnNats
  <1>4. Asks(g, row) = CHOOSE f : Solves(f, Depth)
    BY DEF Asks, AsksStep
  <1>5. Solves(Asks(g, row), Depth)
    <2>1. \E f : Solves(f, Depth)
      BY <1>3 DEF Good
    <2> HIDE DEF Solves
    <2> QED
      BY <1>4, <2>1
  <1> QED
    BY <1>5

-----------------------------------------------------------------------------
(* What an expression is worth, for a row: "-" if it is none, and otherwise *)
(* the truth that is found for it after r rounds, whichever of E it is in.  *)

UpTo(e, x, m) == \E n \in 0..m : x \in Layers(e)[n]
Settled(e, row, x, r, t) == \A n \in r..LastLayer : Truths(e, row)[n][x] = t
Known(t) == t \in {"T", "F", "U"}

Worth(E, row, x, r, t) ==
    IF x = None THEN t = "-"
    ELSE Known(t) /\ \A e \in E : UpTo(e, x, LastLayer - r) => Settled(e, row, x, r, t)

LEMMA HoldsIsKnown ==
    ASSUME NEW a, NEW row
    PROVE  Known(Holds(a, row))
  <1>1. \A b : Known(Truth(b))
    BY DEF Known, Truth
  <1>2. Known("U") /\ Known("F")
    BY DEF Known
  <1> HIDE DEF Known
  <1> QED
    BY <1>1, <1>2 DEF Holds

LEMMA WorthLater ==
    ASSUME NEW E, NEW row, NEW x, NEW t, NEW r \in Nat, NEW q \in Nat, r <= q, Worth(E, row, x, r, t),
           Depth \in Nat
    PROVE  Worth(E, row, x, q, t)
  <1>1. LastLayer \in Nat
    BY LastLayerIsNat
  <1>2. 0..(LastLayer - q) \subseteq 0..(LastLayer - r) /\ q..LastLayer \subseteq r..LastLayer
    BY <1>1
  <1> QED
    BY <1>2 DEF Worth, UpTo, Settled

TruthFrom(e, row, x, n) ==
    /\ x.kind = "none" => Truths(e, row)[n][x] = "T"
    /\ x.kind = "atom" => Truths(e, row)[n][x] = Holds(x, row)
    /\ x.kind = "and" /\ n # 0 => Truths(e, row)[n][x] = AllOf({Truths(e, row)[n - 1][p] : p \in x.parts})
    /\ x.kind = "or" /\ n # 0 => Truths(e, row)[n][x] = AnyOf({Truths(e, row)[n - 1][p] : p \in x.parts})

LEMMA TruthOfParts ==
    ASSUME NEW e, NEW row, Depth \in Nat, NEW m \in 0..LastLayer, NEW x \in Layers(e)[m],
           NEW n \in 0..LastLayer
    PROVE  TruthFrom(e, row, x, n)
  <1> DEFINE last == Truths(e, row)[n - 1]
             known == IF n = 0 THEN [p \in x.parts |-> "U"] ELSE last
  <1>1. Truths(e, row)[n] = TruthStep(n, e, row, last)
    BY TruthsAre
  <1>2. x \in WithinOf(e)
    BY DEF WithinOf
  <1> HIDE DEF last
  <1>3. Truths(e, row)[n][x] = TruthOf(x, row, known)
    BY <1>1, <1>2 DEF TruthStep
  <1>4. n # 0 => known = last
    OBVIOUS
  <1> HIDE DEF known
  <1>5. /\ x.kind = "none" => TruthOf(x, row, known) = "T"
        /\ x.kind = "atom" => TruthOf(x, row, known) = Holds(x, row)
        /\ x.kind = "and" => TruthOf(x, row, known) = AllOf({known[p] : p \in x.parts})
        /\ x.kind = "or" => TruthOf(x, row, known) = AnyOf({known[p] : p \in x.parts})
    BY DEF TruthOf
  <1> QED
    BY <1>3, <1>4, <1>5 DEF last, TruthFrom

LEMMA TogetherIs ==
    ASSUME NEW mode \in Modes, NEW T, ~(T \subseteq {"-"})
    PROVE  /\ mode = "and" => Together(mode, T) = AllOf(T \ {"-"})
           /\ mode = "or" => Together(mode, T) = AnyOf(T \ {"-"})
           /\ Known(Together(mode, T))
  BY DEF Together, Modes, Known, AllOf, AnyOf

(* What S is worth, T, makes what its combination is worth.                 *)
AllWorth(E, row, S, r, T) ==
    /\ \A p \in S : \E t \in T : Worth(E, row, p, r, t)
    /\ \A t \in T : \E p \in S : Worth(E, row, p, r, t)

LEMMA CombineWorth ==
    ASSUME Depth \in Nat, NEW E, NEW row, NEW mode \in Modes, NEW S, NEW T, NEW r \in Nat,
           AllWorth(E, row, S, r, T)
    PROVE  Worth(E, row, Combine(mode, S), r + 1, Together(mode, T))
  <1> DEFINE x == Combine(mode, S)
  <1>1. CASE S \subseteq {None}
    <2>1. x = None
      BY <1>1 DEF Combine
    <2>2. T \subseteq {"-"}
      BY <1>1 DEF AllWorth, Worth
    <2> QED
      BY <2>1, <2>2 DEF Worth, Together
  <1>2. CASE ~(S \subseteq {None})
    <2>1. x.kind = mode /\ x.parts = S \ {None} /\ x # None
      BY <1>2 DEF Combine, None, Modes
    <2>2. ~(T \subseteq {"-"})
      <3>1. PICK p \in S : p # None
        BY <1>2
      <3>2. PICK t \in T : Worth(E, row, p, r, t)
        BY DEF AllWorth
      <3> QED
        BY <3>1, <3>2 DEF Worth, Known
    <2>3. ASSUME NEW e \in E, UpTo(e, x, LastLayer - (r + 1)), NEW n \in (r + 1)..LastLayer
          PROVE  Truths(e, row)[n][x] = Together(mode, T)
      <3>0. LastLayer \in Nat
        BY LastLayerIsNat
      <3>1. PICK m \in 0..(LastLayer - (r + 1)) : x \in Layers(e)[m]
        BY <2>3 DEF UpTo
      <3>2. /\ m \in 0..LastLayer /\ m + 1 \in 0..(LastLayer - r) /\ m + 1 \in 1..LastLayer
            /\ (m + 1) - 1 = m /\ n \in 0..LastLayer /\ n # 0 /\ n - 1 \in r..LastLayer
        BY <3>0, <3>1
      <3> DEFINE tr == Truths(e, row)[n - 1]
      <3>3. Layers(e)[m + 1] = UNION {y.parts : y \in Layers(e)[m]}
        BY <3>2, LayersAre
      <3>4. \A p \in x.parts : UpTo(e, p, LastLayer - r)
        BY <3>1, <3>2, <3>3 DEF UpTo
      <3>5. \A p \in x.parts : \A t \in T : Worth(E, row, p, r, t) => tr[p] = t /\ t # "-"
        BY <2>1, <3>2, <3>4 DEF Worth, Settled, Known
      <3>6. \A p \in x.parts : \E t \in T : Worth(E, row, p, r, t)
        BY <2>1 DEF AllWorth
      <3>7. \A t \in T \ {"-"} : \E p \in x.parts : Worth(E, row, p, r, t)
        BY <2>1 DEF AllWorth, Worth
      <3> HIDE DEF tr, x
      <3>8. {tr[p] : p \in x.parts} = T \ {"-"}
        BY <3>5, <3>6, <3>7
      <3>9. /\ mode = "and" => Truths(e, row)[n][x] = AllOf({tr[p] : p \in x.parts})
            /\ mode = "or" => Truths(e, row)[n][x] = AnyOf({tr[p] : p \in x.parts})
        <4>1. TruthFrom(e, row, x, n)
          BY <3>1, <3>2, TruthOfParts
        <4>2. n # 0 /\ x.kind = mode
          BY <2>1, <3>2
        <4> QED
          BY <4>1, <4>2 DEF tr, TruthFrom
      <3> QED
        BY <2>2, <3>8, <3>9, TogetherIs DEF Modes
    <2>4. Known(Together(mode, T))
      BY <2>2, TogetherIs
    <2> QED
      BY <2>1, <2>3, <2>4 DEF Worth, Settled
  <1> QED
    BY <1>1, <1>2

LEMMA EvalIs ==
    ASSUME Depth \in Nat, NEW E, NEW e \in E, NEW row, NEW S, NEW T, e = Combine("and", S),
           AllWorth(E, row, S, LastLayer - 1, T)
    PROVE  Eval(e, row) = "T" <=> T \subseteq {"T", "-"}
  <1>1. LastLayer \in Nat /\ LastLayer - 1 \in Nat /\ (LastLayer - 1) + 1 = LastLayer
    BY DEF LastLayer
  <1>2. Worth(E, row, e, LastLayer, Together("and", T))
    BY <1>1, CombineWorth DEF Modes
  <1>3. Layers(e)[0] = {e}
    BY LayersAre
  <1>4. \A t \in T : Known(t) \/ t = "-"
    BY DEF AllWorth, Worth
  <1>5. CASE e = None
    <2>1. Together("and", T) = "-"
      BY <1>2, <1>5 DEF Worth
    <2>2. T \subseteq {"-"}
      BY <2>1, TogetherIs DEF Modes, Known
    <2>3. TruthFrom(e, row, e, LastLayer)
      BY <1>1, <1>3, TruthOfParts
    <2>4. Eval(e, row) = "T"
      BY <1>5, <2>3 DEF Eval, TruthFrom, None
    <2> QED
      BY <2>2, <2>4
  <1>6. CASE e # None
    <2>1. UpTo(e, e, LastLayer - LastLayer)
      BY <1>1, <1>3 DEF UpTo
    <2>2. Eval(e, row) = Together("and", T)
      BY <1>1, <1>2, <1>6, <2>1 DEF Eval, Worth, Settled
    <2>3. ~(T \subseteq {"-"})
      BY <1>2, <1>6 DEF Worth, Together, Known
    <2>4. Together("and", T) = AllOf(T \ {"-"})
      BY <2>3, TogetherIs DEF Modes
    <2>5. AllOf(T \ {"-"}) = "T" <=> T \subseteq {"T", "-"}
      BY <1>4 DEF AllOf, Known
    <2> QED
      BY <2>2, <2>4, <2>5
  <1> QED
    BY <1>5, <1>6

-----------------------------------------------------------------------------
(* Groups and what they become.                                             *)

Rekeying(g, new) == \A n \in 0..Depth : new[n] = RekeyStep(n, g, new[n - 1])

SubBecomes(below, sub, new) ==
    /\ new.kind = sub.kind /\ DOMAIN new.groups = DOMAIN sub.groups
    /\ \A i \in DOMAIN sub.groups : new.groups[i] \in below[sub.groups[i]]

LEMMA SubBecame ==
    ASSUME NEW sub, NEW below, NEW new \in RekeyedSub(sub, below)
    PROVE  SubBecomes(below, sub, new)
  <1>1. PICK gs \in [DOMAIN sub.groups -> UNION {below[h] : h \in ToSet(sub.groups)}] :
            /\ new = [kind |-> sub.kind, groups |-> gs]
            /\ \A i \in DOMAIN gs : gs[i] \in below[sub.groups[i]]
    BY DEF RekeyedSub
  <1>2. new.kind = sub.kind /\ new.groups = gs /\ DOMAIN gs = DOMAIN sub.groups
    BY <1>1
  <1> QED
    BY <1>1, <1>2 DEF SubBecomes

LEMMA GroupBecame ==
    ASSUME Depth \in Nat, NEW g, NEW new, Rekeying(g, new), NEW k \in 0..Depth,
           NEW i \in GroupsAt(g, Depth - k), NEW h \in new[k][i]
    PROVE  /\ h.conds \in Survivors(i.conds)
           /\ k # 0 => SubBecomes(new[k - 1], i.or, h.or) /\ SubBecomes(new[k - 1], i.and, h.and)
           /\ k = 0 => SubBecomes(<<>>, i.or, h.or) /\ SubBecomes(<<>>, i.and, h.and)
  <1> DEFINE below == IF k = 0 THEN <<>> ELSE new[k - 1]
  <1>1. new[k] = RekeyStep(k, g, new[k - 1])
    BY DEF Rekeying
  <1>2. new[k][i] = RekeyedGroup(i, below)
    BY <1>1 DEF RekeyStep
  <1> HIDE DEF below
  <1>3. h.conds \in Survivors(i.conds) /\ SubBecomes(below, i.or, h.or) /\ SubBecomes(below, i.and, h.and)
    BY <1>2, GroupRekeyed, SubBecame
  <1> QED
    BY <1>3 DEF below

(* If no two keys are the same, all conditions are left.                    *)
LEMMA AllSurvive ==
    ASSUME NEW conds, \A c, d \in conds : Expand(c.key) = Expand(d.key) => c = d,
           NEW some \in Survivors(conds)
    PROVE  some = {Cond(Expand(c.key), c.value) : c \in conds}
  <1> DEFINE new == {Cond(Expand(c.key), c.value) : c \in conds}
  <1>1. some \subseteq new /\ {c.key : c \in some} = {c.key : c \in new}
    BY DEF Survivors
  <1>2. ASSUME NEW x \in new
        PROVE  x \in some
    <2>1. PICK c \in conds : x = Cond(Expand(c.key), c.value)
      OBVIOUS
    <2>2. PICK y \in some : y.key = x.key
      BY <1>1
    <2>3. PICK d \in conds : y = Cond(Expand(d.key), d.value)
      BY <1>1, <2>2
    <2>4. Expand(c.key) = Expand(d.key)
      BY <2>1, <2>2, <2>3 DEF Cond
    <2>5. c = d
      BY <2>4
    <2> QED
      BY <2>1, <2>2, <2>3, <2>5
  <1> QED
    BY <1>1, <1>2

-----------------------------------------------------------------------------
(* Conditions, groups and what is under "or" and "and", worth what was      *)
(* asked for.                                                               *)

(* The paths of g have been expanded. *)
PathsRead(g) == \A f \in FieldsOf(CondsOf(g)) : f \in DOMAIN expanded /\ expanded[f] = Denotes(f)

LEMMA ExpandMeans ==
    ASSUME NEW g, PathsRead(g), NEW c \in CondsOf(g)
    PROVE  /\ Expand(c.key) = Means(c.key)
           /\ ToSet(Expand(c.key).fields) = {Denotes(f) : f \in ToSet(c.key.fields)}
  <1> DEFINE fields == c.key.fields
  <1>1. \A i \in DOMAIN fields : fields[i] \in FieldsOf(CondsOf(g))
    BY DEF FieldsOf, ToSet
  <1>2. [i \in DOMAIN fields |-> expanded[fields[i]]] = [i \in DOMAIN fields |-> Denotes(fields[i])]
    BY <1>1 DEF PathsRead
  <1>3. Expand(c.key) = Means(c.key)
    BY <1>2 DEF Expand, Means
  <1>4. Expand(c.key).fields = [i \in DOMAIN fields |-> Denotes(fields[i])]
    BY <1>2 DEF Expand, Key
  <1> QED
    BY <1>3, <1>4 DEF ToSet

LEMMA AtomWorth ==
    ASSUME Depth \in Nat, NEW E, NEW row, NEW field, NEW op, NEW cs, NEW value
    PROVE  Worth(E, row, Atom(field, op, cs, value), 0, Holds(Atom(field, op, cs, value), row))
  <1> DEFINE x == Atom(field, op, cs, value)
  <1>1. x.kind = "atom" /\ x # None
    BY DEF Atom, None
  <1>2. LastLayer \in Nat
    BY LastLayerIsNat
  <1> HIDE DEF x
  <1>3. ASSUME NEW e \in E, UpTo(e, x, LastLayer - 0), NEW n \in 0..LastLayer
        PROVE  Truths(e, row)[n][x] = Holds(x, row)
    <2>1. PICK m \in 0..LastLayer : x \in Layers(e)[m]
      BY <1>2, <1>3 DEF UpTo
    <2>2. TruthFrom(e, row, x, n)
      BY <2>1, TruthOfParts
    <2> QED
      BY <1>1, <2>2 DEF TruthFrom
  <1>4. Worth(E, row, x, 0, Holds(x, row))
    BY <1>1, <1>3, HoldsIsKnown DEF Worth, Settled
  <1> QED
    BY <1>4 DEF x

LEMMA CondWorth ==
    ASSUME Depth \in Nat, NEW E, NEW row, NEW g, WellFormed(g), PathsRead(g), NEW c \in CondsOf(g)
    PROVE  Worth(E, row, buildCond(Cond(Expand(c.key), c.value)), 1, AsksCond(c, row))
  <1> DEFINE op == c.key.op
             made(f) == IF Applies(op, c.value) THEN Atom(f, op, c.key.cs, c.value) ELSE None
             S == {made(f) : f \in ToSet(Expand(c.key).fields)}
             T == {AsksField(c, f, row) : f \in ToSet(c.key.fields)}
  <1>1. ToSet(Expand(c.key).fields) = {Denotes(f) : f \in ToSet(c.key.fields)}
    BY ExpandMeans
  <1>2. ASSUME NEW f
        PROVE  Worth(E, row, made(Denotes(f)), 0, AsksField(c, f, row))
    <2>1. CASE Applies(op, c.value)
      BY <2>1, AtomWorth DEF AsksField
    <2>2. CASE ~Applies(op, c.value)
      BY <2>2 DEF AsksField, Worth
    <2> QED
      BY <2>1, <2>2
  <1>3. c.key.comb \in Modes
    BY DEF WellFormed, Modes
  <1>4. /\ Expand(c.key).comb = c.key.comb /\ Expand(c.key).op = op /\ Expand(c.key).cs = c.key.cs
        /\ Cond(Expand(c.key), c.value).key = Expand(c.key) /\ Cond(Expand(c.key), c.value).value = c.value
    BY DEF Expand, Key, Cond
  <1>5. buildCond(Cond(Expand(c.key), c.value)) = Combine(c.key.comb, S)
    BY <1>4 DEF buildCond, Composite
  <1> HIDE DEF made
  <1>6. AllWorth(E, row, S, 0, T)
    BY <1>1, <1>2 DEF AllWorth
  <1> HIDE DEF S, T
  <1>7. Worth(E, row, Combine(c.key.comb, S), 0 + 1, Together(c.key.comb, T))
    BY <1>3, <1>6, CombineWorth
  <1> QED
    BY <1>5, <1>7 DEF AsksCond, T

BuiltOf(conds) == {buildCond(c) : c \in conds}
AskedOf(conds, row) == {AsksCond(c, row) : c \in conds}

LEMMA CondsWorth ==
    ASSUME Depth \in Nat, NEW E, NEW row, NEW g, WellFormed(g), PathsRead(g), Unambiguous(g),
           NEW n \in 0..Depth, NEW i \in GroupsAt(g, n), NEW some \in Survivors(i.conds)
    PROVE  AllWorth(E, row, BuiltOf(some), 1, AskedOf(i.conds, row))
  <1>1. \A c \in i.conds : c \in CondsOf(g)
    BY CondsOfGroup
  <1>2. \A c, d \in i.conds : Expand(c.key) = Expand(d.key) => c = d
    <2>1. \A c \in i.conds : Expand(c.key) = Means(c.key)
      BY <1>1, ExpandMeans
    <2> QED
      BY <2>1 DEF Unambiguous
  <1>3. some = {Cond(Expand(c.key), c.value) : c \in i.conds}
    BY <1>2, AllSurvive
  <1>4. \A c \in i.conds : Worth(E, row, buildCond(Cond(Expand(c.key), c.value)), 1, AsksCond(c, row))
    BY <1>1, CondWorth
  <1>5. BuiltOf(some) = {buildCond(Cond(Expand(c.key), c.value)) : c \in i.conds}
    BY <1>3 DEF BuiltOf
  <1> QED
    BY <1>4, <1>5 DEF AllWorth, AskedOf

AskedUnder(g, row, k, i) ==
    IF k = 0 THEN {} ELSE {AsksSub("or", i.or, Asks(g, row)[k - 1]), AsksSub("and", i.and, Asks(g, row)[k - 1])}
BuiltUnder(g, k, h) ==
    IF k = 0 THEN {}
    ELSE {Sub("or", h.or, buildGroupExpr(g)[k - 1]), Sub("and", h.and, buildGroupExpr(g)[k - 1])}

LEMMA AsksGroup ==
    ASSUME Depth \in Nat, NEW g, NEW row, NEW k \in 0..Depth, NEW i \in GroupsAt(g, Depth - k), NEW mode \in Modes
    PROVE  Asks(g, row)[k][i, mode] = Together(mode, AskedOf(i.conds, row) \cup AskedUnder(g, row, k, i))
  <1>1. Asks(g, row)[k] = AsksStep(k, g, row, Asks(g, row)[k - 1])
    BY AsksAre
  <1>2. <<i, mode>> \in GroupsAt(g, Depth - k) \X {"and", "or"}
    BY DEF Modes
  <1> QED
    BY <1>1, <1>2 DEF AsksStep, AskedOf, AskedUnder

LEMMA BuiltGroup ==
    ASSUME Depth \in Nat, NEW g, NEW k \in 0..Depth, NEW h \in GroupsAt(g, Depth - k), NEW mode \in Modes
    PROVE  buildGroupExpr(g)[k][h, mode] = Combine(mode, BuiltOf(h.conds) \cup BuiltUnder(g, k, h))
  <1>1. buildGroupExpr(g)[k] = ExprStep(k, g, buildGroupExpr(g)[k - 1])
    BY ExpressionsAre
  <1>2. <<h, mode>> \in GroupsAt(g, Depth - k) \X {"and", "or"}
    BY DEF Modes
  <1> QED
    BY <1>1, <1>2 DEF ExprStep, BuiltOf, BuiltUnder

(* The groups of f, which came of those of g, with k levels below them.     *)
GroupsWorth(E, row, g, f, new, k) ==
    \A i \in GroupsAt(g, Depth - k) : \A h \in GroupsAt(f, Depth - k) : \A mode \in Modes :
        h \in new[k][i] =>
            Worth(E, row, buildGroupExpr(f)[k][h, mode], 2 * k + 2, Asks(g, row)[k][i, mode])

LEMMA SubWorth ==
    ASSUME Depth \in Nat, NEW E, NEW row, NEW g, NEW f, NEW new, NEW k \in Nat, NEW how \in Modes,
           NEW sub, NEW next, SubBecomes(new[k], sub, next), GroupsWorth(E, row, g, f, new, k),
           sub.kind = "map" => DOMAIN sub.groups = {1},
           ToSet(sub.groups) \subseteq GroupsAt(g, Depth - k),
           ToSet(next.groups) \subseteq GroupsAt(f, Depth - k)
    PROVE  Worth(E, row, Sub(how, next, buildGroupExpr(f)[k]), 2 * k + 3, AsksSub(how, sub, Asks(g, row)[k]))
  <1> DEFINE built == buildGroupExpr(f)[k]
             asks == Asks(g, row)[k]
  <1>1. \A i \in DOMAIN sub.groups : \A mode \in Modes :
            Worth(E, row, built[next.groups[i], mode], 2 * k + 2, asks[sub.groups[i], mode])
    BY DEF SubBecomes, GroupsWorth, ToSet
  <1>2. 2 * k + 2 \in Nat /\ 2 * k + 3 \in Nat /\ 2 * k + 2 <= 2 * k + 3 /\ (2 * k + 2) + 1 = 2 * k + 3
    OBVIOUS
  <1>3. next.kind = sub.kind /\ DOMAIN next.groups = DOMAIN sub.groups
    BY DEF SubBecomes
  <1> HIDE DEF built, asks
  <1>4. CASE sub.kind = "map"
    <2>1. Worth(E, row, built[next.groups[1], how], 2 * k + 2, asks[sub.groups[1], how])
      BY <1>1, <1>4
    <2>2. Worth(E, row, built[next.groups[1], how], 2 * k + 3, asks[sub.groups[1], how])
      BY <1>2, <2>1, WorthLater
    <2>3. Sub(how, next, built) = built[next.groups[1], how] /\ AsksSub(how, sub, asks) = asks[sub.groups[1], how]
      BY <1>3, <1>4 DEF Sub, AsksSub
    <2> QED
      BY <2>2, <2>3 DEF built, asks
  <1>5. CASE sub.kind # "map"
    <2> DEFINE S == {built[h, "and"] : h \in ToSet(next.groups)}
               T == {asks[h, "and"] : h \in ToSet(sub.groups)}
    <2>1. Sub(how, next, built) = Combine(how, S) /\ AsksSub(how, sub, asks) = Together(how, T)
      BY <1>3, <1>5 DEF Sub, AsksSub
    <2> DEFINE B == [i \in DOMAIN sub.groups |-> built[next.groups[i], "and"]]
               A == [i \in DOMAIN sub.groups |-> asks[sub.groups[i], "and"]]
    <2>2. S = {B[i] : i \in DOMAIN sub.groups} /\ T = {A[i] : i \in DOMAIN sub.groups}
      BY <1>3 DEF ToSet
    <2>3. "and" \in Modes
      BY DEF Modes
    <2>4. \A i \in DOMAIN sub.groups : Worth(E, row, B[i], 2 * k + 2, A[i])
      BY <1>1, <2>3
    <2> HIDE DEF S, T, A, B
    <2>5. AllWorth(E, row, S, 2 * k + 2, T)
      BY <2>2, <2>4 DEF AllWorth
    <2>6. Worth(E, row, Combine(how, S), (2 * k + 2) + 1, Together(how, T))
      BY <1>2, <2>5, CombineWorth
    <2> QED
      BY <1>2, <2>1, <2>6 DEF built, asks
  <1> QED
    BY <1>4, <1>5

LEMMA AllWorthTogether ==
    ASSUME Depth \in Nat, NEW E, NEW row, NEW S1, NEW T1, NEW r1 \in Nat, AllWorth(E, row, S1, r1, T1),
           NEW S2, NEW T2, NEW r2 \in Nat, AllWorth(E, row, S2, r2, T2), NEW r \in Nat, r1 <= r, r2 <= r
    PROVE  AllWorth(E, row, S1 \cup S2, r, T1 \cup T2)
  <1>1. \A p, t : Worth(E, row, p, r1, t) \/ Worth(E, row, p, r2, t) => Worth(E, row, p, r, t)
    BY WorthLater
  <1> QED
    BY <1>1 DEF AllWorth

LEMMA GroupStep ==
    ASSUME Depth \in Nat, NEW E, NEW row, NEW g, WellFormed(g), PathsRead(g), Unambiguous(g),
           NEW f, NEW new, Rekeying(g, new), NEW k \in 0..Depth,
           k # 0 => GroupsWorth(E, row, g, f, new, k - 1)
    PROVE  GroupsWorth(E, row, g, f, new, k)
  <1> SUFFICES ASSUME NEW i \in GroupsAt(g, Depth - k), NEW h \in GroupsAt(f, Depth - k), NEW mode \in Modes,
                      h \in new[k][i]
               PROVE  Worth(E, row, buildGroupExpr(f)[k][h, mode], 2 * k + 2, Asks(g, row)[k][i, mode])
    BY DEF GroupsWorth
  <1> DEFINE n == Depth - k
             S == BuiltOf(h.conds) \cup BuiltUnder(f, k, h)
             T == AskedOf(i.conds, row) \cup AskedUnder(g, row, k, i)
             r == 2 * k + 1
  <1>1. n \in 0..Depth /\ r \in Nat /\ 1 <= r /\ r + 1 = 2 * k + 2
    OBVIOUS
  <1>2. h.conds \in Survivors(i.conds)
    BY GroupBecame
  <1>3. AllWorth(E, row, BuiltOf(h.conds), 1, AskedOf(i.conds, row))
    BY <1>1, <1>2, CondsWorth
  <1>4. AllWorth(E, row, BuiltUnder(f, k, h), r, AskedUnder(g, row, k, i))
    <2>1. CASE k = 0
      BY <2>1 DEF AllWorth, BuiltUnder, AskedUnder
    <2>2. CASE k # 0
      <3> DEFINE l == k - 1
      <3>1. l \in Nat /\ 2 * l + 3 = r /\ n # Depth /\ n + 1 = Depth - l
        BY <2>2
      <3>2. SubBecomes(new[l], i.or, h.or) /\ SubBecomes(new[l], i.and, h.and)
        BY <2>2, GroupBecame
      <3>3. /\ ToSet(i.or.groups) \cup ToSet(i.and.groups) \subseteq GroupsAt(g, n + 1)
            /\ ToSet(h.or.groups) \cup ToSet(h.and.groups) \subseteq GroupsAt(f, n + 1)
        BY <1>1, <3>1, GroupsBelow
      <3>4. \A sub \in {i.or, i.and} : sub.kind = "map" => DOMAIN sub.groups = {1}
        BY <1>1 DEF WellFormed
      <3>5. GroupsWorth(E, row, g, f, new, l)
        BY <2>2
      <3> HIDE DEF l, n, r
      <3>6. /\ ToSet(i.or.groups) \subseteq GroupsAt(g, Depth - l)
            /\ ToSet(i.and.groups) \subseteq GroupsAt(g, Depth - l)
            /\ ToSet(h.or.groups) \subseteq GroupsAt(f, Depth - l)
            /\ ToSet(h.and.groups) \subseteq GroupsAt(f, Depth - l)
        BY <3>1, <3>3
      <3>7. "or" \in Modes /\ "and" \in Modes
        BY DEF Modes
      <3>8. Worth(E, row, Sub("or", h.or, buildGroupExpr(f)[l]), 2 * l + 3, AsksSub("or", i.or, Asks(g, row)[l]))
        BY <3>1, <3>2, <3>4, <3>5, <3>6, <3>7, SubWorth
      <3>9. Worth(E, row, Sub("and", h.and, buildGroupExpr(f)[l]), 2 * l + 3, AsksSub("and", i.and, Asks(g, row)[l]))
        BY <3>1, <3>2, <3>4, <3>5, <3>6, <3>7, SubWorth
      <3>10. /\ BuiltUnder(f, k, h) = {Sub("or", h.or, buildGroupExpr(f)[l]), Sub("and", h.and, buildGroupExpr(f)[l])}
             /\ AskedUnder(g, row, k, i) = {AsksSub("or", i.or, Asks(g, row)[l]), AsksSub("and", i.and, Asks(g, row)[l])}
        BY <2>2 DEF BuiltUnder, AskedUnder, l
      <3> QED
        BY <3>1, <3>8, <3>9, <3>10 DEF AllWorth
    <2> QED
      BY <2>1, <2>2
  <1>5. AllWorth(E, row, S, r, T)
    <2>1. 1 \in Nat /\ r \in Nat /\ 1 <= r /\ r <= r
      BY <1>1
    <2> HIDE DEF r
    <2> QED
      BY <2>1, <1>3, <1>4, AllWorthTogether
  <1>6. Worth(E, row, Combine(mode, S), r + 1, Together(mode, T))
    <2> HIDE DEF S, T, r
    <2> QED
      BY <1>1, <1>5, CombineWorth
  <1>7. buildGroupExpr(f)[k][h, mode] = Combine(mode, S)
    BY BuiltGroup
  <1>8. Asks(g, row)[k][i, mode] = Together(mode, T)
    BY AsksGroup
  <1> HIDE DEF S, T, r
  <1> QED
    BY <1>1, <1>6, <1>7, <1>8

LEMMA AllGroupsWorth ==
    ASSUME Depth \in Nat, NEW E, NEW row, NEW g, WellFormed(g), PathsRead(g), Unambiguous(g),
           NEW f, NEW new, Rekeying(g, new)
    PROVE  \A k \in 0..Depth : GroupsWorth(E, row, g, f, new, k)
  <1> DEFINE Good == {k \in Nat : k <= Depth => GroupsWorth(E, row, g, f, new, k)}
  <1>1. 0 \in Good
    <2>1. 0 \in 0..Depth
      OBVIOUS
    <2>2. GroupsWorth(E, row, g, f, new, 0)
      BY <2>1, GroupStep
    <2> QED
      BY <2>2
  <1>2. ASSUME NEW k \in Nat, k \in Good
        PROVE  k + 1 \in Good
    <2> SUFFICES ASSUME k + 1 <= Depth PROVE GroupsWorth(E, row, g, f, new, k + 1)
      OBVIOUS
    <2>1. k + 1 \in 0..Depth /\ (k + 1) - 1 = k /\ k <= Depth
      OBVIOUS
    <2>2. GroupsWorth(E, row, g, f, new, k)
      BY <1>2, <2>1
    <2> QED
      BY <2>1, <2>2, GroupStep
  <1> HIDE DEF Good
  <1>3. \A k \in Nat : k \in Good
    BY <1>1, <1>2, InductionOnNats
  <1> QED
    BY <1>3 DEF Good

-----------------------------------------------------------------------------
(* The groups of f and those of g they came of, level by level.             *)

Match(p, q, new) == p.top = q.top /\ p.group \in new[q.group]
Matched(P, Q, new) == (\A p \in P : \E q \in Q : Match(p, q, new)) /\ (\A q \in Q : \E p \in P : Match(p, q, new))

LEMMA PlacesMatch ==
    ASSUME NEW new, NEW i, NEW h \in new[i], NEW top
    PROVE  Match(Place(h, top), Place(i, top), new)
  <1>1. Place(h, top).top = top /\ Place(i, top).top = top
    BY Zenon DEF Place
  <1>2. Place(h, top).group = h /\ Place(i, top).group = i
    BY Zenon DEF Place
  <1> QED
    BY <1>1, <1>2 DEF Match

LEMMA AlikeBelow ==
    ASSUME NEW p, NEW q, NEW new, p.top = q.top,
           SubBecomes(new, q.group.or, p.group.or), SubBecomes(new, q.group.and, p.group.and)
    PROVE  Matched(Below(p), Below(q), new)
  <1>1. ASSUME NEW x \in Below(p)
        PROVE  \E y \in Below(q) : Match(x, y, new)
    <2>1. CASE \E h \in ToSet(p.group.and.groups) : x = Place(h, p.top)
      <3>1. PICK i \in DOMAIN p.group.and.groups : x = Place(p.group.and.groups[i], p.top)
        BY <2>1 DEF ToSet
      <3>2. Place(q.group.and.groups[i], q.top) \in Below(q)
        BY <3>1 DEF Below, ToSet, SubBecomes
      <3>3. p.group.and.groups[i] \in new[q.group.and.groups[i]]
        BY <3>1 DEF SubBecomes
      <3> QED
        BY <3>1, <3>2, <3>3, PlacesMatch
    <2>2. CASE \E h \in ToSet(p.group.or.groups) : x = Place(h, FALSE)
      <3>1. PICK i \in DOMAIN p.group.or.groups : x = Place(p.group.or.groups[i], FALSE)
        BY <2>2 DEF ToSet
      <3>2. Place(q.group.or.groups[i], FALSE) \in Below(q)
        BY <3>1 DEF Below, ToSet, SubBecomes
      <3>3. p.group.or.groups[i] \in new[q.group.or.groups[i]]
        BY <3>1 DEF SubBecomes
      <3> QED
        BY <3>1, <3>2, <3>3, PlacesMatch
    <2> QED
      BY <2>1, <2>2 DEF Below
  <1>2. ASSUME NEW y \in Below(q)
        PROVE  \E x \in Below(p) : Match(x, y, new)
    <2>1. CASE \E h \in ToSet(q.group.and.groups) : y = Place(h, q.top)
      <3>1. PICK i \in DOMAIN q.group.and.groups : y = Place(q.group.and.groups[i], q.top)
        BY <2>1 DEF ToSet
      <3>2. Place(p.group.and.groups[i], p.top) \in Below(p)
        BY <3>1 DEF Below, ToSet, SubBecomes
      <3>3. p.group.and.groups[i] \in new[q.group.and.groups[i]]
        BY <3>1 DEF SubBecomes
      <3> QED
        BY <3>1, <3>2, <3>3, PlacesMatch
    <2>2. CASE \E h \in ToSet(q.group.or.groups) : y = Place(h, FALSE)
      <3>1. PICK i \in DOMAIN q.group.or.groups : y = Place(q.group.or.groups[i], FALSE)
        BY <2>2 DEF ToSet
      <3>2. Place(p.group.or.groups[i], FALSE) \in Below(p)
        BY <3>1 DEF Below, ToSet, SubBecomes
      <3>3. p.group.or.groups[i] \in new[q.group.or.groups[i]]
        BY <3>1 DEF SubBecomes
      <3> QED
        BY <3>1, <3>2, <3>3, PlacesMatch
    <2> QED
      BY <2>1, <2>2 DEF Below
  <1> QED
    BY <1>1, <1>2 DEF Matched

LEMMA LevelsAlike ==
    ASSUME Depth \in Nat, NEW g, NEW f, NEW new, Rekeying(g, new), f \in new[Depth][g]
    PROVE  \A n \in 0..Depth : Matched(Places(f)[n], Places(g)[n], new[Depth - n])
  <1> DEFINE alike(n) == Matched(Places(f)[n], Places(g)[n], new[Depth - n])
             Good == {n \in Nat : n <= Depth => alike(n)}
  <1>1. 0 \in Good
    <2>1. Places(f)[0] = {Place(f, TRUE)} /\ Places(g)[0] = {Place(g, TRUE)} /\ Depth - 0 = Depth
      <3>1. Depth - 0 = Depth
        OBVIOUS
      <3> QED
        BY <3>1, PlacesAre
    <2>2. Match(Place(f, TRUE), Place(g, TRUE), new[Depth])
      BY DEF Match, Place
    <2>3. alike(0)
      BY <2>1, <2>2 DEF Matched
    <2> HIDE DEF alike
    <2> QED
      BY <2>3
  <1>2. ASSUME NEW n \in Nat, n \in Good
        PROVE  n + 1 \in Good
    <2> SUFFICES ASSUME n + 1 <= Depth PROVE alike(n + 1)
      <3> HIDE DEF alike
      <3> QED
        OBVIOUS
    <2> DEFINE k == Depth - n
               P == Places(f)[n]
               Q == Places(g)[n]
    <2>1. /\ n \in 0..Depth /\ n + 1 \in 1..Depth /\ (n + 1) - 1 = n
          /\ k \in 0..Depth /\ k # 0 /\ Depth - k = n /\ Depth - (n + 1) = k - 1
      OBVIOUS
    <2>2. Matched(P, Q, new[k])
      BY <1>2, <2>1
    <2>3. Places(f)[n + 1] = UNION {Below(p) : p \in P} /\ Places(g)[n + 1] = UNION {Below(q) : q \in Q}
      BY <2>1, PlacesAre
    <2> HIDE DEF k
    <2>4. ASSUME NEW p \in P, NEW q \in Q, Match(p, q, new[k])
          PROVE  Matched(Below(p), Below(q), new[k - 1])
      <3>1. q.group \in GroupsAt(g, Depth - k)
        BY <2>1 DEF GroupsAt
      <3>2. SubBecomes(new[k - 1], q.group.or, p.group.or) /\ SubBecomes(new[k - 1], q.group.and, p.group.and)
        BY <2>1, <2>4, <3>1, GroupBecame DEF Match
      <3> QED
        BY <2>4, <3>2, AlikeBelow DEF Match
    <2> HIDE DEF P, Q
    <2>5. Matched(UNION {Below(p) : p \in P}, UNION {Below(q) : q \in Q}, new[k - 1])
      BY <2>2, <2>4 DEF Matched
    <2> QED
      BY <2>1, <2>3, <2>5
  <1> HIDE DEF Good
  <1>3. \A n \in Nat : n \in Good
    BY <1>1, <1>2, InductionOnNats
  <1> QED
    BY <1>3 DEF Good

TopsOf(g, n) == {p.group : p \in {q \in Places(g)[n] : q.top}}

LEMMA TopsAlike ==
    ASSUME Depth \in Nat, NEW g, NEW f, NEW new, Rekeying(g, new), f \in new[Depth][g], NEW n \in 0..Depth
    PROVE  /\ \A h \in TopsOf(f, n) : \E i \in TopsOf(g, n) : h \in new[Depth - n][i]
           /\ \A i \in TopsOf(g, n) : \E h \in TopsOf(f, n) : h \in new[Depth - n][i]
  <1>1. Matched(Places(f)[n], Places(g)[n], new[Depth - n])
    BY LevelsAlike
  <1> QED
    BY <1>1 DEF Matched, Match, TopsOf

LEMMA TopsBelow ==
    ASSUME Depth \in Nat, NEW g
    PROVE  /\ TopsOf(g, 0) = {g}
           /\ \A n \in 0..Depth : TopsOf(g, n) \subseteq GroupsAt(g, n)
           /\ \A n \in 0..Depth : n # Depth =>
                TopsOf(g, n + 1) = UNION {ToSet(h.and.groups) : h \in TopsOf(g, n)}
  <1>1. TopsOf(g, 0) = {g}
    <2>1. Places(g)[0] = {Place(g, TRUE)}
      BY PlacesAre
    <2>2. Place(g, TRUE).group = g /\ Place(g, TRUE).top = TRUE
      BY DEF Place
    <2> QED
      BY <2>1, <2>2 DEF TopsOf
  <1>2. ASSUME NEW n \in 0..Depth, n # Depth
        PROVE  TopsOf(g, n + 1) = UNION {ToSet(h.and.groups) : h \in TopsOf(g, n)}
    <2>1. n + 1 \in 1..Depth /\ (n + 1) - 1 = n
      BY <1>2
    <2>2. Places(g)[n + 1] = UNION {Below(p) : p \in Places(g)[n]}
      BY <2>1, PlacesAre
    <2>3. \A h, top : Place(h, top).group = h /\ Place(h, top).top = top
      BY DEF Place
    <2>4. \A p : \A x \in Below(p) : x.top => p.top /\ x.group \in ToSet(p.group.and.groups)
      <3> SUFFICES ASSUME NEW p, NEW x \in Below(p), x.top
                   PROVE  p.top /\ x.group \in ToSet(p.group.and.groups)
        OBVIOUS
      <3>1. CASE \E h \in ToSet(p.group.or.groups) : x = Place(h, FALSE)
        <4>1. PICK h \in ToSet(p.group.or.groups) : x = Place(h, FALSE)
          BY <3>1
        <4>2. x.top = FALSE
          BY <4>1, Zenon DEF Place
        <4> QED
          BY <4>2, Zenon
      <3>2. CASE \E h \in ToSet(p.group.and.groups) : x = Place(h, p.top)
        <4>1. PICK h \in ToSet(p.group.and.groups) : x = Place(h, p.top)
          BY <3>2
        <4>2. x.group = h /\ x.top = p.top
          BY <4>1, Zenon DEF Place
        <4> QED
          BY <4>2, Zenon
      <3> QED
        BY <3>1, <3>2 DEF Below
    <2>5. \A p : p.top => \A h \in ToSet(p.group.and.groups) : \E x \in Below(p) : x.top /\ x.group = h
      <3> SUFFICES ASSUME NEW p, p.top, NEW h \in ToSet(p.group.and.groups)
                   PROVE  \E x \in Below(p) : x.top /\ x.group = h
        OBVIOUS
      <3>1. Place(h, p.top) \in Below(p)
        BY DEF Below
      <3>2. Place(h, p.top).top = p.top /\ Place(h, p.top).group = h
        BY Zenon DEF Place
      <3> QED
        BY <3>1, <3>2, Zenon
    <2> QED
      BY <2>2, <2>4, <2>5 DEF TopsOf
  <1> QED
    BY <1>1, <1>2 DEF TopsOf, GroupsAt

-----------------------------------------------------------------------------
(* The conjuncts of the query, and what was asked for at each level.        *)

SubsAsked(g, row, n) ==
    IF n = Depth THEN {} ELSE {AsksSub("or", i.or, Asks(g, row)[Depth - n - 1]) : i \in TopsOf(g, n)}
Answers(g, row, n) == AskedOf(UNION {i.conds : i \in TopsOf(g, n)}, row) \cup SubsAsked(g, row, n)

SubsBuilt(g, n) ==
    IF n = Depth THEN {} ELSE {Sub("or", h.or, buildGroupExpr(g)[Depth - n - 1]) : h \in TopsOf(g, n)}

LEMMA ConjunctsAre ==
    ASSUME NEW g, NEW n
    PROVE  ConjunctsAt(g, n) = BuiltOf(UNION {h.conds : h \in TopsOf(g, n)}) \cup SubsBuilt(g, n)
  BY DEF ConjunctsAt, TopsOf, BuiltOf, SubsBuilt

LEMMA ConjunctsWorth ==
    ASSUME Depth \in Nat, NEW E, NEW row, NEW g, WellFormed(g), PathsRead(g), Unambiguous(g),
           NEW f, NEW new, Rekeying(g, new), f \in new[Depth][g], NEW n \in 0..Depth
    PROVE  AllWorth(E, row, ConjunctsAt(f, n), LastLayer - 1, Answers(g, row, n))
  <1> DEFINE last == LastLayer - 1
             F == TopsOf(f, n)
             G == TopsOf(g, n)
             CS == BuiltOf(UNION {h.conds : h \in F})
             CT == AskedOf(UNION {i.conds : i \in G}, row)
  <1>1. last \in Nat /\ 1 <= last /\ last = 2 * Depth + 1 /\ Depth - n \in 0..Depth /\ Depth - (Depth - n) = n
    BY DEF LastLayer
  <1>2. F \subseteq GroupsAt(f, n) /\ G \subseteq GroupsAt(g, n)
    BY TopsBelow
  <1>3. /\ \A h \in F : \E i \in G : h \in new[Depth - n][i]
        /\ \A i \in G : \E h \in F : h \in new[Depth - n][i]
    BY TopsAlike
  <1> HIDE DEF last, F, G
  <1>4. ASSUME NEW i \in G, NEW h \in F, h \in new[Depth - n][i]
        PROVE  AllWorth(E, row, BuiltOf(h.conds), 1, AskedOf(i.conds, row))
    <2>1. h.conds \in Survivors(i.conds)
      BY <1>1, <1>2, <1>4, GroupBecame
    <2> QED
      BY <1>2, <2>1, CondsWorth
  <1>5. AllWorth(E, row, CS, 1, CT)
    <2>1. \A h \in F : BuiltOf(h.conds) \subseteq CS
      BY DEF BuiltOf
    <2>2. \A i \in G : AskedOf(i.conds, row) \subseteq CT
      BY DEF AskedOf
    <2>3. \A x \in CS : \E h \in F : x \in BuiltOf(h.conds)
      BY DEF BuiltOf
    <2>4. \A t \in CT : \E i \in G : t \in AskedOf(i.conds, row)
      BY DEF AskedOf
    <2> HIDE DEF CS, CT
    <2>5. \A x \in CS : \E t \in CT : Worth(E, row, x, 1, t)
      BY <1>3, <1>4, <2>2, <2>3 DEF AllWorth
    <2>6. \A t \in CT : \E x \in CS : Worth(E, row, x, 1, t)
      BY <1>3, <1>4, <2>1, <2>4 DEF AllWorth
    <2> QED
      BY <2>5, <2>6 DEF AllWorth
  <1>6. AllWorth(E, row, SubsBuilt(f, n), last, SubsAsked(g, row, n))
    <2>1. CASE n = Depth
      BY <2>1 DEF AllWorth, SubsBuilt, SubsAsked
    <2>2. CASE n # Depth
      <3> DEFINE k == Depth - n - 1
                 built(h) == Sub("or", h.or, buildGroupExpr(f)[k])
                 asked(i) == AsksSub("or", i.or, Asks(g, row)[k])
      <3>1. /\ k \in 0..Depth /\ k \in Nat /\ Depth - k = n + 1 /\ Depth - n # 0 /\ (Depth - n) - 1 = k
            /\ 2 * k + 3 \in Nat /\ 2 * k + 3 <= last
        BY <1>1, <2>2
      <3>2. SubsBuilt(f, n) = {built(h) : h \in F} /\ SubsAsked(g, row, n) = {asked(i) : i \in G}
        BY <2>2 DEF SubsBuilt, SubsAsked, F, G
      <3> HIDE DEF k
      <3>3. ASSUME NEW i \in G, NEW h \in F, h \in new[Depth - n][i]
            PROVE  Worth(E, row, built(h), last, asked(i))
        <4>1. SubBecomes(new[k], i.or, h.or)
          BY <1>1, <1>2, <3>1, <3>3, GroupBecame
        <4>2. GroupsWorth(E, row, g, f, new, k)
          BY <3>1, AllGroupsWorth
        <4>3. i.or.kind = "map" => DOMAIN i.or.groups = {1}
          BY <1>2 DEF WellFormed
        <4>4. ToSet(i.or.groups) \subseteq GroupsAt(g, Depth - k) /\ ToSet(h.or.groups) \subseteq GroupsAt(f, Depth - k)
          BY <1>2, <2>2, <3>1, GroupsBelow
        <4>5. "or" \in Modes
          BY DEF Modes
        <4>6. Worth(E, row, built(h), 2 * k + 3, asked(i))
          BY <3>1, <4>1, <4>2, <4>3, <4>4, <4>5, SubWorth
        <4> HIDE DEF built, asked
        <4> QED
          BY <1>1, <3>1, <4>6, WorthLater
      <3> HIDE DEF built, asked
      <3> QED
        BY <1>3, <3>2, <3>3 DEF AllWorth
    <2> QED
      BY <2>1, <2>2
  <1> HIDE DEF CS, CT
  <1>7. AllWorth(E, row, CS \cup SubsBuilt(f, n), last, CT \cup SubsAsked(g, row, n))
    <2>1. 1 \in Nat /\ last <= last
      BY <1>1
    <2> QED
      BY <1>1, <1>5, <1>6, <2>1, AllWorthTogether
  <1> QED
    BY <1>7, ConjunctsAre DEF CS, CT, F, G, last, Answers

-----------------------------------------------------------------------------
(* What is asked for is all that is asked for at any level where only "and" *)
(* leads.                                                                   *)

Fine == {"T", "-"}
Answer == {"T", "F", "U", "-"}

LEMMA TogetherAnswers ==
    ASSUME NEW T
    PROVE  /\ \A mode : Together(mode, T) \in Answer
           /\ T \subseteq Answer => (Together("and", T) \in Fine <=> T \subseteq Fine)
  BY DEF Together, AllOf, AnyOf, Answer, Fine

LEMMA CondsAnswer ==
    ASSUME NEW conds, NEW row
    PROVE  AskedOf(conds, row) \subseteq Answer
  BY TogetherAnswers DEF AskedOf, AsksCond

LEMMA GroupsAnswer ==
    ASSUME Depth \in Nat, NEW g, NEW row, NEW k \in 0..Depth, NEW i \in GroupsAt(g, Depth - k), NEW mode \in Modes
    PROVE  Asks(g, row)[k][i, mode] \in Answer
  <1>1. Asks(g, row)[k][i, mode] = Together(mode, AskedOf(i.conds, row) \cup AskedUnder(g, row, k, i))
    BY AsksGroup
  <1> QED
    BY <1>1, TogetherAnswers

LEMMA SubAnswers ==
    ASSUME Depth \in Nat, NEW g, NEW row, NEW k \in 0..Depth, NEW sub, NEW how \in Modes,
           sub.kind = "map" => DOMAIN sub.groups = {1}, ToSet(sub.groups) \subseteq GroupsAt(g, Depth - k)
    PROVE  /\ AsksSub(how, sub, Asks(g, row)[k]) \in Answer
           /\ how = "and" => (AsksSub(how, sub, Asks(g, row)[k]) \in Fine
                                <=> \A h \in ToSet(sub.groups) : Asks(g, row)[k][h, "and"] \in Fine)
  <1> DEFINE asks == Asks(g, row)[k]
             T == {asks[h, "and"] : h \in ToSet(sub.groups)}
  <1>1. "and" \in Modes
    BY DEF Modes
  <1>2. \A h \in ToSet(sub.groups) : \A mode \in Modes : asks[h, mode] \in Answer
    BY GroupsAnswer
  <1> HIDE DEF asks
  <1>3. CASE sub.kind = "map"
    <2>1. ToSet(sub.groups) = {sub.groups[1]}
      BY <1>3 DEF ToSet
    <2>2. AsksSub(how, sub, asks) = asks[sub.groups[1], how]
      BY <1>3 DEF AsksSub
    <2> QED
      BY <1>2, <2>1, <2>2 DEF asks
  <1>4. CASE sub.kind # "map"
    <2>1. AsksSub(how, sub, asks) = Together(how, T)
      BY <1>4 DEF AsksSub
    <2>2. T \subseteq Answer
      BY <1>1, <1>2
    <2>3. T \subseteq Fine <=> \A h \in ToSet(sub.groups) : asks[h, "and"] \in Fine
      OBVIOUS
    <2> HIDE DEF T
    <2> QED
      BY <2>1, <2>2, <2>3, TogetherAnswers DEF asks
  <1> QED
    BY <1>3, <1>4

TopsFine(g, row, n) == \A i \in TopsOf(g, n) : Asks(g, row)[Depth - n][i, "and"] \in Fine

LEMMA TopFine ==
    ASSUME Depth \in Nat, NEW g, NEW row, WellFormed(g), NEW n \in 0..Depth, NEW i \in GroupsAt(g, n)
    PROVE  Asks(g, row)[Depth - n][i, "and"] \in Fine <=>
              /\ AskedOf(i.conds, row) \subseteq Fine
              /\ n # Depth => /\ AsksSub("or", i.or, Asks(g, row)[Depth - n - 1]) \in Fine
                             /\ \A h \in ToSet(i.and.groups) : Asks(g, row)[Depth - n - 1][h, "and"] \in Fine
  <1> DEFINE k == Depth - n
             T == AskedOf(i.conds, row) \cup AskedUnder(g, row, k, i)
  <1>1. k \in 0..Depth /\ Depth - k = n /\ (n = Depth <=> k = 0)
    OBVIOUS
  <1>2. "and" \in Modes /\ "or" \in Modes
    BY DEF Modes
  <1>3. AskedOf(i.conds, row) \subseteq Answer
    BY CondsAnswer
  <1> HIDE DEF k
  <1>4. Asks(g, row)[k][i, "and"] = Together("and", T)
    <2>1. i \in GroupsAt(g, Depth - k) /\ k \in 0..Depth
      BY <1>1
    <2>2. Asks(g, row)[k][i, "and"] = Together("and", AskedOf(i.conds, row) \cup AskedUnder(g, row, k, i))
      BY <1>2, <2>1, AsksGroup
    <2> QED
      BY <2>2
  <1>5. CASE n = Depth
    <2>1. AskedUnder(g, row, k, i) = {}
      BY <1>1, <1>5 DEF AskedUnder
    <2>2. T = AskedOf(i.conds, row)
      BY <2>1
    <2>3. Together("and", T) \in Fine <=> T \subseteq Fine
      BY <1>3, <2>2, TogetherAnswers
    <2> HIDE DEF T
    <2>4. Asks(g, row)[k][i, "and"] \in Fine <=> AskedOf(i.conds, row) \subseteq Fine
      BY <1>4, <2>2, <2>3
    <2> QED
      BY <1>5, <2>4 DEF k
  <1>6. CASE n # Depth
    <2> DEFINE l == k - 1
               or == AsksSub("or", i.or, Asks(g, row)[l])
               and == AsksSub("and", i.and, Asks(g, row)[l])
    <2>1. l \in 0..Depth /\ Depth - l = n + 1 /\ l = Depth - n - 1
      BY <1>1, <1>6 DEF k
    <2> HIDE DEF l
    <2>2. AskedUnder(g, row, k, i) = {or, and}
      BY <1>1, <1>6 DEF AskedUnder, l
    <2>3. /\ i.or.kind = "map" => DOMAIN i.or.groups = {1}
          /\ i.and.kind = "map" => DOMAIN i.and.groups = {1}
      BY DEF WellFormed
    <2>4. ToSet(i.or.groups) \subseteq GroupsAt(g, Depth - l) /\ ToSet(i.and.groups) \subseteq GroupsAt(g, Depth - l)
      BY <1>6, <2>1, GroupsBelow
    <2>5. or \in Answer
      BY <1>2, <2>1, <2>3, <2>4, SubAnswers
    <2>6. /\ and \in Answer
          /\ and \in Fine <=> \A h \in ToSet(i.and.groups) : Asks(g, row)[l][h, "and"] \in Fine
      BY <1>2, <2>1, <2>3, <2>4, SubAnswers
    <2> HIDE DEF or, and
    <2>7. T \subseteq Answer
      BY <1>3, <2>2, <2>5, <2>6
    <2>8. T \subseteq Fine <=> AskedOf(i.conds, row) \subseteq Fine /\ or \in Fine /\ and \in Fine
      BY <2>2
    <2>9. Asks(g, row)[k][i, "and"] \in Fine <=> T \subseteq Fine
      <3> HIDE DEF T
      <3> QED
        BY <1>4, <2>7, TogetherAnswers
    <2> QED
      BY <1>6, <2>1, <2>6, <2>8, <2>9 DEF k, or
  <1> QED
    BY <1>5, <1>6

LEMMA LevelFine ==
    ASSUME Depth \in Nat, NEW g, NEW row, WellFormed(g), NEW n \in 0..Depth
    PROVE  TopsFine(g, row, n) <=>
              Answers(g, row, n) \subseteq Fine /\ (n # Depth => TopsFine(g, row, n + 1))
  <1> DEFINE G == TopsOf(g, n)
             conds(i) == AskedOf(i.conds, row) \subseteq Fine
             or(i) == AsksSub("or", i.or, Asks(g, row)[Depth - n - 1]) \in Fine
             ands(i) == \A h \in ToSet(i.and.groups) : Asks(g, row)[Depth - n - 1][h, "and"] \in Fine
  <1>1. G \subseteq GroupsAt(g, n)
    BY TopsBelow
  <1>2. \A i \in G : Asks(g, row)[Depth - n][i, "and"] \in Fine <=> conds(i) /\ (n # Depth => or(i) /\ ands(i))
    BY <1>1, TopFine
  <1>3. TopsFine(g, row, n) <=> \A i \in G : conds(i) /\ (n # Depth => or(i) /\ ands(i))
    <2> HIDE DEF conds, or, ands
    <2> QED
      BY <1>2 DEF TopsFine
  <1>4. AskedOf(UNION {i.conds : i \in G}, row) \subseteq Fine <=> \A i \in G : conds(i)
    BY DEF AskedOf
  <1>5. SubsAsked(g, row, n) \subseteq Fine <=> (n # Depth => \A i \in G : or(i))
    BY DEF SubsAsked
  <1>6. Answers(g, row, n) \subseteq Fine <=> (\A i \in G : conds(i)) /\ (n # Depth => \A i \in G : or(i))
    <2> HIDE DEF conds, or
    <2> QED
      BY <1>4, <1>5 DEF Answers
  <1>7. n # Depth => (TopsFine(g, row, n + 1) <=> \A i \in G : ands(i))
    <2> SUFFICES ASSUME n # Depth PROVE TopsFine(g, row, n + 1) <=> \A i \in G : ands(i)
      OBVIOUS
    <2>1. TopsOf(g, n + 1) = UNION {ToSet(i.and.groups) : i \in G}
      BY TopsBelow
    <2>2. Depth - (n + 1) = Depth - n - 1
      OBVIOUS
    <2> QED
      BY <2>1, <2>2 DEF TopsFine
  <1> HIDE DEF conds, or, ands, G
  <1> QED
    BY <1>3, <1>6, <1>7

LEMMA AskedLevelByLevel ==
    ASSUME Depth \in Nat, NEW g, NEW row, WellFormed(g)
    PROVE  Asked(g, row) \in Fine <=> \A n \in 0..Depth : Answers(g, row, n) \subseteq Fine
  <1> DEFINE above(n) == \A m \in 0..Depth : m < n => Answers(g, row, m) \subseteq Fine
             same(n) == Asked(g, row) \in Fine <=> above(n) /\ TopsFine(g, row, n)
             Good == {n \in Nat : n <= Depth => same(n)}
  <1>1. 0 \in Good
    <2>1. TopsOf(g, 0) = {g} /\ Depth - 0 = Depth
      <3>1. Depth - 0 = Depth
        OBVIOUS
      <3> QED
        BY <3>1, TopsBelow
    <2>2. TopsFine(g, row, 0) <=> Asked(g, row) \in Fine
      BY <2>1 DEF TopsFine, Asked
    <2>3. above(0)
      OBVIOUS
    <2> HIDE DEF above
    <2> QED
      BY <2>2, <2>3
  <1>2. ASSUME NEW n \in Nat, n \in Good
        PROVE  n + 1 \in Good
    <2> SUFFICES ASSUME n + 1 <= Depth PROVE same(n + 1)
      <3> HIDE DEF same
      <3> QED
        OBVIOUS
    <2>1. n \in 0..Depth /\ n # Depth /\ n <= Depth
      OBVIOUS
    <2>2. same(n)
      <3> HIDE DEF same
      <3> QED
        BY <1>2, <2>1
    <2>3. TopsFine(g, row, n) <=> Answers(g, row, n) \subseteq Fine /\ TopsFine(g, row, n + 1)
      BY <2>1, LevelFine
    <2>4. above(n + 1) <=> above(n) /\ Answers(g, row, n) \subseteq Fine
      <3>1. \A m \in 0..Depth : m < n + 1 <=> m < n \/ m = n
        OBVIOUS
      <3> QED
        BY <2>1, <3>1
    <2> HIDE DEF above
    <2> QED
      BY <2>2, <2>3, <2>4
  <1> HIDE DEF Good
  <1>3. same(Depth)
    <2>1. Depth \in Good
      BY <1>1, <1>2, InductionOnNats
    <2> HIDE DEF same
    <2> QED
      BY <2>1 DEF Good
  <1>4. TopsFine(g, row, Depth) <=> Answers(g, row, Depth) \subseteq Fine
    BY LevelFine
  <1>5. above(Depth) /\ Answers(g, row, Depth) \subseteq Fine <=> \A n \in 0..Depth : Answers(g, row, n) \subseteq Fine
    <2>1. \A m \in 0..Depth : m < Depth \/ m = Depth
      OBVIOUS
    <2> QED
      BY <2>1
  <1> HIDE DEF above
  <1> QED
    BY <1>3, <1>4, <1>5

-----------------------------------------------------------------------------
(* The cursor reads a path as Denotes does.                                 *)

IsPart(s, path, m, n) ==
    /\ s \in Seq(STRING) /\ Len(s) = (IF m <= n THEN n - m + 1 ELSE 0)
    /\ \A i \in 1..(n - m + 1) : s[i] = path[m + i - 1]

LEMMA PartOfPath ==
    ASSUME NEW path, NEW m \in Int, NEW n \in Int, \A i \in m..n : path[i] \in STRING
    PROVE  IsPart(SubSeq(path, m, n), path, m, n)
  <1> DEFINE s == SubSeq(path, m, n)
  <1>1. s \in Seq(STRING)
    BY SubSeqProperties
  <1>2. Len(s) = (IF m <= n THEN n - m + 1 ELSE 0)
    BY SubSeqProperties
  <1>3. \A i \in 1..(n - m + 1) : s[i] = path[m + i - 1]
    BY SubSeqProperties
  <1> HIDE DEF s
  <1>4. IsPart(s, path, m, n)
    BY <1>1, <1>2, <1>3 DEF IsPart
  <1> QED
    BY <1>4 DEF s

Splits(done, rest, path, pos) ==
    /\ pos > Len(path) <=> rest = <<>>
    /\ rest # <<>> => /\ path[pos] = Head(rest)
                     /\ SubSeq(path, 1, pos - 1) = done
                     /\ SubSeq(path, pos + 1, Len(path)) = Tail(rest)
                     /\ Append(done, Head(rest)) \in Path /\ Tail(rest) \in Path
                     /\ Append(done, Head(rest)) \o Tail(rest) = path
                     /\ Len(Append(done, Head(rest))) = pos

LEMMA DoneAndRest ==
    ASSUME NEW done \in Path, NEW rest \in Path, NEW path, path = done \o rest, NEW pos, pos = Len(done) + 1
    PROVE  Splits(done, rest, path, pos)
  <1>1. /\ done \in Seq(STRING) /\ rest \in Seq(STRING) /\ path \in Seq(STRING)
        /\ Len(done) \in Nat /\ Len(rest) \in Nat /\ Len(path) = Len(done) + Len(rest)
        /\ \A i \in 1..(Len(done) + Len(rest)) : path[i] = IF i <= Len(done) THEN done[i] ELSE rest[i - Len(done)]
    BY ConcatProperties, LenProperties DEF Path
  <1>2. Len(rest) = 0 <=> rest = <<>>
    BY <1>1, EmptySeq
  <1>3. CASE rest = <<>>
    BY <1>1, <1>2, <1>3 DEF Splits
  <1>4. CASE rest # <<>>
    <2> DEFINE d == Len(done)
               l == Len(path)
               tail == Tail(rest)
               more == Append(done, Head(rest))
    <2>1. d \in Nat /\ Len(rest) \in Nat /\ l = d + Len(rest) /\ Len(rest) >= 1 /\ pos = d + 1 /\ l \in Nat
      BY <1>1, <1>2, <1>4
    <2>2. /\ Head(rest) \in STRING /\ tail \in Seq(STRING) /\ Len(tail) = Len(rest) - 1
          /\ \A i \in 1..Len(tail) : tail[i] = rest[i + 1]
      BY <1>1, <1>4, HeadTailProperties
    <2>3. Head(rest) = rest[1]
      BY <1>1, <1>4
    <2>4. more \in Seq(STRING) /\ Len(more) = d + 1 /\ \A i \in 1..(d + 1) : more[i] = IF i = d + 1 THEN Head(rest) ELSE done[i]
      BY <1>1, <2>2, AppendProperties
    <2> HIDE DEF d, l, tail, more
    <2>5. path[pos] = Head(rest)
      <3>1. pos \in 1..(d + Len(rest)) /\ ~(pos <= d) /\ pos - d = 1
        BY <2>1
      <3> QED
        BY <1>1, <2>3, <3>1 DEF d
    <2>6. SubSeq(path, 1, pos - 1) = done
      <3> DEFINE s == SubSeq(path, 1, d)
      <3>1. \A i \in 1..d : i \in 1..(d + Len(rest)) /\ i <= d /\ 1 + i - 1 = i
        BY <2>1
      <3>2. \A i \in 1..d : path[i] = done[i] /\ path[i] \in STRING
        BY <1>1, <3>1, ElementOfSeq DEF d
      <3>3. 1 \in Int /\ d \in Int /\ (IF 1 <= d THEN d - 1 + 1 ELSE 0) = d /\ d - 1 + 1 = d
        BY <2>1
      <3>4. s \in Seq(STRING) /\ Len(s) = d /\ \A i \in 1..d : s[i] = path[1 + i - 1]
        <4>1. IsPart(s, path, 1, d)
          BY <3>2, <3>3, PartOfPath
        <4> HIDE DEF s
        <4> QED
          BY <3>3, <4>1 DEF IsPart
      <3> HIDE DEF s
      <3>5. \A i \in 1..Len(s) : s[i] = done[i]
        BY <3>1, <3>2, <3>4
      <3>6. s = done
        BY <1>1, <3>4, <3>5, SeqEqual DEF d
      <3>7. pos - 1 = d
        BY <2>1
      <3> QED
        BY <3>6, <3>7 DEF s
    <2>7. SubSeq(path, pos + 1, l) = tail
      <3> DEFINE m == pos + 1
                 s == SubSeq(path, m, l)
      <3>1. m \in Int /\ l \in Int /\ m = d + 2 /\ Len(tail) = l - d - 1
        <4>1. m = d + 2 /\ m \in Int /\ l \in Int
          BY <2>1
        <4>2. Len(tail) = l - d - 1
          BY <2>1, <2>2
        <4> QED
          BY <4>1, <4>2
      <3>2. \A i \in m..l : path[i] \in STRING
        <4>1. \A i \in m..l : i \in 1..l
          BY <2>1, <3>1
        <4> HIDE DEF m
        <4> QED
          BY <1>1, <4>1, ElementOfSeq DEF l
      <3> HIDE DEF m
      <3>3. s \in Seq(STRING) /\ Len(s) = (IF m <= l THEN l - m + 1 ELSE 0)
            /\ \A i \in 1..(l - m + 1) : s[i] = path[m + i - 1]
        <4>1. IsPart(s, path, m, l)
          BY <3>1, <3>2, PartOfPath
        <4> HIDE DEF s
        <4> QED
          BY <4>1 DEF IsPart
      <3>4. l - m + 1 = l - d - 1 /\ (IF m <= l THEN l - m + 1 ELSE 0) = l - d - 1 /\ l - d - 1 \in Nat
        BY <2>1, <3>1
      <3> HIDE DEF s
      <3>5. ASSUME NEW i \in 1..Len(s)
            PROVE  s[i] = tail[i]
        <4>1. i \in 1..(l - m + 1) /\ i \in 1..Len(tail)
          BY <3>1, <3>3, <3>4
        <4>2. m + i - 1 \in 1..(d + Len(rest)) /\ ~(m + i - 1 <= d) /\ (m + i - 1) - d = i + 1
          BY <2>1, <3>1, <4>1
        <4>3. path[m + i - 1] = rest[i + 1]
          BY <1>1, <4>2 DEF d
        <4> QED
          BY <2>2, <3>3, <4>1, <4>3
      <3>6. s = tail
        BY <2>2, <3>1, <3>3, <3>4, <3>5, SeqEqual
      <3> QED
        BY <3>6 DEF s, m
    <2>8. more \o tail = path
      <3> DEFINE s == more \o tail
      <3>1. s \in Seq(STRING) /\ Len(s) = Len(more) + Len(tail)
            /\ \A i \in 1..(Len(more) + Len(tail)) : s[i] = IF i <= Len(more) THEN more[i] ELSE tail[i - Len(more)]
        BY <2>2, <2>4, ConcatProperties
      <3>2. Len(more) = d + 1 /\ Len(tail) = Len(rest) - 1 /\ Len(more) + Len(tail) = l
        BY <2>1, <2>2, <2>4
      <3> HIDE DEF s
      <3>3. ASSUME NEW i \in 1..Len(s)
            PROVE  s[i] = path[i]
        <4>1. i \in 1..l /\ i \in 1..(d + Len(rest)) /\ i \in 1..(Len(more) + Len(tail))
          BY <2>1, <3>1, <3>2
        <4>2. CASE i <= d
          <5>1. i <= Len(more) /\ i \in 1..(d + 1) /\ i # d + 1
            BY <2>1, <3>2, <4>1, <4>2
          <5> QED
            BY <1>1, <2>4, <3>1, <4>1, <4>2, <5>1 DEF d
        <4>3. CASE i = d + 1
          <5>1. i <= Len(more) /\ i \in 1..(d + 1) /\ i = pos
            BY <2>1, <3>2, <4>1, <4>3
          <5> QED
            BY <2>4, <2>5, <3>1, <4>1, <4>3, <5>1
        <4>4. CASE i > d + 1
          <5>1. ~(i <= Len(more)) /\ ~(i <= d) /\ i - Len(more) \in 1..Len(tail) /\ (i - Len(more)) + 1 = i - d
            BY <2>1, <3>2, <4>1, <4>4
          <5>2. s[i] = tail[i - Len(more)]
            BY <3>1, <4>1, <5>1
          <5>3. tail[i - Len(more)] = rest[i - d]
            BY <2>2, <5>1
          <5>4. path[i] = rest[i - d]
            BY <1>1, <4>1, <5>1 DEF d
          <5> QED
            BY <5>2, <5>3, <5>4
        <4> QED
          BY <2>1, <4>1, <4>2, <4>3, <4>4
      <3>4. s = path
        BY <1>1, <3>1, <3>2, <3>3, SeqEqual DEF l
      <3> QED
        BY <3>4 DEF s
    <2>9. ~(pos > Len(path))
      BY <2>1 DEF l
    <2> QED
      BY <1>4, <2>2, <2>4, <2>5, <2>6, <2>7, <2>8, <2>9, <2>1 DEF Path, l, tail, more, Splits
  <1> QED
    BY <1>3, <1>4

(* The code and the reading agree on which segments are shortcuts. *)
LEMMA ShortcutsStandForMore == \A m, seg : StandsForMore(m, seg) <=> Shortcut(m, seg)
    BY DEF StandsForMore, Shortcut

LEMMA ReadStays ==
    ASSUME NEW path, NEW n \in 0..Turns, Read(Readings(path)[n])
    PROVE  Readings(path)[Turns] = Readings(path)[n]
  <1> DEFINE r == Readings(path)[n]
             Good == {m \in Nat : n + m <= Turns => Readings(path)[n + m] = r}
  <1>1. Turns \in Nat /\ n \in Nat /\ n <= Turns
    BY TurnsAssumption
  <1>2. ReadOn(r) = r
    BY DEF ReadOn
  <1> HIDE DEF r
  <1>3. 0 \in Good
    BY <1>1 DEF r
  <1>4. ASSUME NEW m \in Nat, m \in Good
        PROVE  m + 1 \in Good
    <2> SUFFICES ASSUME n + (m + 1) <= Turns PROVE Readings(path)[n + (m + 1)] = r
      OBVIOUS
    <2> DEFINE k == n + (m + 1)
    <2>1. k \in 0..Turns /\ k # 0 /\ k - 1 = n + m /\ n + m <= Turns
      BY <1>1
    <2>2. Readings(path)[n + m] = r
      BY <1>4, <2>1
    <2> HIDE DEF k
    <2>3. Readings(path)[k] = ReadOn(Readings(path)[n + m])
      BY <2>1, ReadingsAre DEF ReadingStep
    <2> QED
      BY <1>2, <2>2, <2>3 DEF k
  <1> HIDE DEF Good
  <1>5. Turns - n \in Nat /\ n + (Turns - n) = Turns
    BY <1>1
  <1>6. Turns - n \in Good
    BY <1>3, <1>4, <1>5, InductionOnNats
  <1> QED
    BY <1>1, <1>5, <1>6 DEF Good, r

(* The cursor is where the reading is. *)
At(c, r) ==
    /\ c.model = r.model /\ c.path = r.done \o r.rest /\ c.pos = Len(r.done) + 1
    /\ r.done \in Path /\ r.rest \in Path
Reached(c) == \E n \in 0..Turns : At(c, Readings(c.key)[n])

FieldsHere == FieldsOf(CondsOf(request))

ReadingInv ==
    /\ todo \subseteq FieldsHere
    /\ cursor # Idle => cursor.key \in FieldsHere /\ cursor.key # <<>> /\ Reached(cursor)
    /\ <<>> \in FieldsHere => expanded[<<>>] = <<>>
    /\ \A f \in FieldsHere \ {<<>>} :
          f \in todo \/ (cursor # Idle /\ cursor.key = f) \/ expanded[f] = Denotes(f)
    /\ phase # "expand" => todo = {} /\ cursor = Idle

LEMMA FirstReading ==
    ASSUME NEW path
    PROVE  0 \in 0..Turns /\ Readings(path)[0] = Reading(Root, <<>>, path)
  <1>1. 0 \in 0..Turns
    BY TurnsAssumption
  <1> QED
    BY <1>1, ReadingsAre DEF ReadingStep

LEMMA NothingDenotesNothing == Denotes(<<>>) = <<>>
  <1>1. 0 \in 0..Turns /\ Readings(<<>>)[0] = Reading(Root, <<>>, <<>>)
    BY FirstReading
  <1>2. Reading(Root, <<>>, <<>>).rest = <<>> /\ Reading(Root, <<>>, <<>>).done = <<>>
    BY DEF Reading
  <1>3. Readings(<<>>)[Turns] = Reading(Root, <<>>, <<>>)
    BY <1>1, <1>2, ReadStays DEF Read
  <1>4. <<>> \o <<>> = <<>>
    BY EmptySeq, ConcatEmptySeq
  <1> QED
    BY <1>2, <1>3, <1>4 DEF Denotes

LEMMA ExpandedAreRead ==
    ASSUME ExpandInv, ReadingInv, todo = {}, cursor = Idle
    PROVE  PathsRead(request)
  BY NothingDenotesNothing DEF ExpandInv, ReadingInv, PathsRead, FieldsHere

(* One turn, in the path and in what is read of it.                         *)
LEMMA NextReading ==
    ASSUME NEW path \in UNION {FieldsOf(CondsOf(g)) : g \in Requests},
           NEW n \in 0..Turns, ~Read(Readings(path)[n])
    PROVE  n + 1 \in 0..Turns /\ Readings(path)[n + 1] = ReadOn(Readings(path)[n])
  <1>1. Read(Readings(path)[Turns]) /\ Turns \in Nat
    BY TurnsAssumption
  <1>2. n + 1 \in 0..Turns /\ n + 1 # 0 /\ (n + 1) - 1 = n
    BY <1>1
  <1> QED
    BY <1>2, ReadingsAre DEF ReadingStep

LEMMA ReadingInit ==
    ASSUME Init
    PROVE  ReadingInv
  BY DEF Init, ReadingInv, FieldsHere

ReadHere(n, r) ==
    /\ n \in 0..Turns /\ r = Readings(cursor.key)[n] /\ At(cursor, r)
    /\ Splits(r.done, r.rest, cursor.path, cursor.pos)
    /\ ~Read(r) => n + 1 \in 0..Turns /\ Readings(cursor.key)[n + 1] = ReadOn(r)

LEMMA CursorReads ==
    ASSUME ExpandInv, ReadingInv, cursor # Idle
    PROVE  \E n, r : ReadHere(n, r)
  <1>1. cursor.key \in UNION {FieldsOf(CondsOf(g)) : g \in Requests} /\ Reached(cursor)
    BY DEF ExpandInv, ReadingInv, FieldsHere
  <1>2. PICK n \in 0..Turns : At(cursor, Readings(cursor.key)[n])
    BY <1>1 DEF Reached
  <1> DEFINE r == Readings(cursor.key)[n]
  <1>3. ~Read(r) => n + 1 \in 0..Turns /\ Readings(cursor.key)[n + 1] = ReadOn(r)
    BY <1>1, NextReading
  <1> HIDE DEF r
  <1>4. At(cursor, r)
    BY <1>2 DEF r
  <1>5. Splits(r.done, r.rest, cursor.path, cursor.pos)
    BY <1>4, DoneAndRest DEF At
  <1>6. r = Readings(cursor.key)[n]
    BY DEF r
  <1>7. ReadHere(n, r)
    BY <1>3, <1>4, <1>5, <1>6 DEF ReadHere
  <1> QED
    BY <1>7

LEMMA ReadingHere ==
    ASSUME NEW n, NEW r, ReadHere(n, r)
    PROVE  /\ n \in 0..Turns /\ r = Readings(cursor.key)[n] /\ At(cursor, r)
           /\ AtEnd <=> r.rest = <<>>
           /\ ~AtEnd => Segment = Head(r.rest)
           /\ ~Read(r) => n + 1 \in 0..Turns /\ Readings(cursor.key)[n + 1] = ReadOn(r)
  BY DEF ReadHere, Splits, AtEnd, Segment

LEMMA ReadingStepHolds ==
    ASSUME ExpandInv, ReadingInv, [Next]_vars
    PROVE  ReadingInv'
  <1>1. CASE Take
    <2>1. PICK path \in todo : cursor' = [Idle EXCEPT !.key = path, !.path = path] /\ todo' = todo \ {path}
      BY <1>1 DEF Take
    <2>2. cursor' = [key |-> path, path |-> path, pos |-> 1, model |-> Root]
      BY <2>1 DEF Idle
    <2>3. cursor = Idle /\ phase = "expand" /\ UNCHANGED <<request, phase, expanded>>
      BY <1>1 DEF Take
    <2>4. FieldsHere' = FieldsHere
      BY <2>3 DEF FieldsHere
    <2>5. path = <<>> => cursor' = Idle
      BY <2>2 DEF Idle
    <2>6. ASSUME path # <<>>
          PROVE  Reached(cursor')
      <3> DEFINE r == Reading(Root, <<>>, path)
      <3>1. 0 \in 0..Turns /\ Readings(path)[0] = r
        BY FirstReading
      <3>2. path \in Path /\ <<>> \in Path /\ Len(<<>>) = 0
        BY EmptySeq DEF ExpandInv, Path
      <3>3. <<>> \o path = path
        BY <3>2, ConcatEmptySeq DEF Path
      <3>4. r.model = Root /\ r.done = <<>> /\ r.rest = path
        BY DEF Reading
      <3> HIDE DEF r
      <3>5. At(cursor', r) /\ cursor'.key = path
        BY <2>2, <3>2, <3>3, <3>4 DEF At
      <3> QED
        BY <3>1, <3>5 DEF Reached
    <2>7. cursor'.key = path
      BY <2>2
    <2>8. path \in FieldsHere /\ todo' \subseteq FieldsHere
      BY <2>1 DEF ReadingInv
    <2>9. \A f \in FieldsHere \ {<<>>} : f \in todo' \/ f = path \/ expanded[f] = Denotes(f)
      BY <2>1, <2>3 DEF ReadingInv
    <2>10. path # <<>> => cursor' # Idle
      BY <2>7 DEF Idle
    <2>11. /\ cursor' # Idle => cursor'.key \in FieldsHere /\ cursor'.key # <<>> /\ Reached(cursor')
           /\ \A f \in FieldsHere \ {<<>>} :
                 f \in todo' \/ (cursor' # Idle /\ cursor'.key = f) \/ expanded[f] = Denotes(f)
      BY <2>5, <2>6, <2>7, <2>8, <2>9, <2>10
    <2> QED
      BY <2>3, <2>4, <2>8, <2>11 DEF ReadingInv
  <1>2. CASE Substitute
    <2>1. cursor # Idle /\ ~AtEnd /\ Shortcut(cursor.model, Segment)
      BY <1>2 DEF Substitute
    <2>0. PICK n, r : ReadHere(n, r)
      BY <2>1, CursorReads
    <2>2. /\ n \in 0..Turns /\ r = Readings(cursor.key)[n] /\ At(cursor, r)
          /\ AtEnd <=> r.rest = <<>>
          /\ ~AtEnd => Segment = Head(r.rest)
          /\ ~Read(r) => n + 1 \in 0..Turns /\ Readings(cursor.key)[n + 1] = ReadOn(r)
      BY <2>0, ReadingHere
    <2> DEFINE alias == Models[cursor.model].aliases[Segment]
               tail == Tail(r.rest)
               next == Reading(r.model, r.done, alias \o tail)
    <2>3. r.rest # <<>> /\ Segment = Head(r.rest) /\ r.model = cursor.model
      BY <2>1, <2>2 DEF At
    <2>4. ~Read(r)
      BY <2>1, <2>3, ShortcutsStandForMore DEF Read
    <2>5. ReadOn(r) = next
      BY <2>1, <2>3, <2>4, ShortcutsStandForMore DEF ReadOn
    <2>6. alias \in Path
      BY <2>1, ModelsAssumption DEF ExpandInv, Cursor, Shortcut
    <2>7. /\ SubSeq(cursor.path, 1, cursor.pos - 1) = r.done
          /\ SubSeq(cursor.path, cursor.pos + 1, Len(cursor.path)) = tail
          /\ r.done \in Path /\ tail \in Path
      BY <2>0, <2>2, <2>3 DEF ReadHere, Splits, At
    <2>8. cursor' = [cursor EXCEPT !.path = SubSeq(@, 1, cursor.pos - 1) \o alias
                                               \o SubSeq(@, cursor.pos + 1, Len(@))]
      BY <1>2 DEF Substitute
    <2> HIDE DEF alias, tail
    <2>9. alias \o tail \in Path /\ (r.done \o alias) \o tail = r.done \o (alias \o tail)
      <3> DEFINE done == r.done
      <3>1. done \in Seq(STRING) /\ alias \in Seq(STRING) /\ tail \in Seq(STRING)
        BY <2>6, <2>7 DEF Path
      <3> HIDE DEF done
      <3>2. alias \o tail \in Seq(STRING)
        BY <3>1, ConcatProperties
      <3>3. (done \o alias) \o tail = done \o (alias \o tail)
        BY <3>1, ConcatAssociative
      <3> QED
        BY <3>2, <3>3 DEF Path, done
    <2>10. /\ cursor'.key = cursor.key /\ cursor'.model = cursor.model /\ cursor'.pos = cursor.pos
           /\ cursor'.path = (r.done \o alias) \o tail
      BY <2>7, <2>8 DEF ExpandInv, Cursor
    <2>11. next.model = r.model /\ next.done = r.done /\ next.rest = alias \o tail
      BY DEF Reading
    <2> HIDE DEF next
    <2>12. At(cursor', next)
      BY <2>2, <2>7, <2>9, <2>10, <2>11 DEF At
    <2>13. Reached(cursor')
      BY <2>2, <2>4, <2>5, <2>10, <2>12 DEF Reached
    <2>14. cursor'.key # <<>> /\ cursor'.key \in FieldsHere /\ cursor' # Idle
      BY <2>1, <2>10 DEF ReadingInv, Idle
    <2>15. UNCHANGED <<request, phase, todo, expanded>> /\ phase = "expand"
      BY <1>2, <2>1 DEF Substitute, ReadingInv
    <2>16. FieldsHere' = FieldsHere
      BY <2>15 DEF FieldsHere
    <2> QED
      BY <2>1, <2>10, <2>13, <2>14, <2>15, <2>16 DEF ReadingInv
  <1>3. CASE Follow
    <2>1. cursor # Idle /\ ~AtEnd /\ ~Shortcut(cursor.model, Segment) /\ Resolves(cursor.model, Segment)
      BY <1>3 DEF Follow
    <2>0. PICK n, r : ReadHere(n, r)
      BY <2>1, CursorReads
    <2>2. /\ n \in 0..Turns /\ r = Readings(cursor.key)[n] /\ At(cursor, r)
          /\ AtEnd <=> r.rest = <<>>
          /\ ~AtEnd => Segment = Head(r.rest)
          /\ ~Read(r) => n + 1 \in 0..Turns /\ Readings(cursor.key)[n + 1] = ReadOn(r)
      BY <2>0, ReadingHere
    <2> DEFINE model == Models[cursor.model].relations[Segment]
               tail == Tail(r.rest)
               done == Append(r.done, Segment)
               next == Reading(model, done, tail)
    <2>3. r.rest # <<>> /\ Segment = Head(r.rest) /\ r.model = cursor.model
      BY <2>1, <2>2 DEF At
    <2>4. ~Read(r)
      BY <2>1, <2>3, ShortcutsStandForMore DEF Read
    <2>5. ReadOn(r) = next
      BY <2>1, <2>3, <2>4, ShortcutsStandForMore DEF ReadOn
    <2>6. done \in Path /\ tail \in Path /\ done \o tail = cursor.path /\ Len(done) = cursor.pos
      BY <2>0, <2>2, <2>3 DEF ReadHere, Splits, At
    <2>7. cursor' = [cursor EXCEPT !.pos = @ + 1, !.model = model]
      BY <1>3 DEF Follow
    <2> HIDE DEF done, tail, model
    <2>8. /\ cursor'.key = cursor.key /\ cursor'.model = model /\ cursor'.pos = cursor.pos + 1
          /\ cursor'.path = cursor.path
      BY <2>7 DEF ExpandInv, Cursor
    <2>9. next.model = model /\ next.done = done /\ next.rest = tail
      BY DEF Reading
    <2> HIDE DEF next
    <2>10. At(cursor', next)
      BY <2>6, <2>8, <2>9 DEF At
    <2>11. Reached(cursor')
      BY <2>2, <2>4, <2>5, <2>8, <2>10 DEF Reached
    <2>12. cursor'.key # <<>> /\ cursor'.key \in FieldsHere /\ cursor' # Idle
      BY <2>1, <2>8 DEF ReadingInv, Idle
    <2>13. UNCHANGED <<request, phase, todo, expanded>> /\ phase = "expand"
      BY <1>3, <2>1 DEF Follow, ReadingInv
    <2>14. FieldsHere' = FieldsHere
      BY <2>13 DEF FieldsHere
    <2> QED
      BY <2>1, <2>8, <2>11, <2>12, <2>13, <2>14 DEF ReadingInv
  <1>4. CASE Stop
    <2>1. /\ cursor # Idle /\ cursor' = Idle /\ expanded' = [expanded EXCEPT ![cursor.key] = cursor.path]
          /\ AtEnd \/ (~Shortcut(cursor.model, Segment) /\ ~Resolves(cursor.model, Segment))
          /\ UNCHANGED <<request, phase, todo>>
      BY <1>4 DEF Stop
    <2>0. PICK n, r : ReadHere(n, r)
      BY <2>1, CursorReads
    <2>2. /\ n \in 0..Turns /\ r = Readings(cursor.key)[n] /\ At(cursor, r)
          /\ AtEnd <=> r.rest = <<>>
          /\ ~AtEnd => Segment = Head(r.rest)
          /\ ~Read(r) => n + 1 \in 0..Turns /\ Readings(cursor.key)[n + 1] = ReadOn(r)
      BY <2>0, ReadingHere
    <2>3. Read(r)
      BY <2>1, <2>2, ShortcutsStandForMore DEF Read, At
    <2>4. Readings(cursor.key)[Turns] = r
      BY <2>2, <2>3, ReadStays
    <2>5. Denotes(cursor.key) = cursor.path
      BY <2>2, <2>4 DEF Denotes, At
    <2>6. FieldsHere' = FieldsHere /\ cursor.key \in FieldsHere /\ cursor.key # <<>>
      BY <2>1 DEF FieldsHere, ReadingInv
    <2>7. \A f \in FieldsHere : expanded'[f] = IF f = cursor.key THEN cursor.path ELSE expanded[f]
      BY <2>1, <2>6 DEF ExpandInv, FieldsHere
    <2>8. phase = "expand"
      BY <2>1 DEF ReadingInv
    <2>9. \A f \in FieldsHere \ {<<>>} : f \in todo' \/ expanded'[f] = Denotes(f)
      BY <2>1, <2>5, <2>7 DEF ReadingInv
    <2>10. <<>> \in FieldsHere => expanded'[<<>>] = <<>>
      BY <2>6, <2>7 DEF ReadingInv
    <2> QED
      BY <2>1, <2>6, <2>8, <2>9, <2>10 DEF ReadingInv
  <1>5. CASE Normalize \/ Join \/ BuildWhere \/ UNCHANGED vars
    <2>1. UNCHANGED <<request, todo, cursor, expanded>> /\ (phase' = phase \/ (todo = {} /\ cursor = Idle))
      BY <1>5 DEF Normalize, Join, BuildWhere, vars, ReadingInv
    <2>2. FieldsHere' = FieldsHere
      BY <2>1 DEF FieldsHere
    <2> QED
      BY <2>1, <2>2 DEF ReadingInv, Reached
  <1> QED
    BY <1>1, <1>2, <1>3, <1>4, <1>5 DEF Next

-----------------------------------------------------------------------------
(* From the filters to the rows.                                            *)

AsAsked(g, f) ==
    \A E, row : \A n \in 0..Depth : AllWorth(E, row, ConjunctsAt(f, n), LastLayer - 1, Answers(g, row, n))

LEMMA RekeyedAsAsked ==
    ASSUME Depth \in Nat, NEW g, WellFormed(g), PathsRead(g), Unambiguous(g), NEW f \in Rekeyed(g)
    PROVE  AsAsked(g, f)
  <1>1. PICK new : /\ Rekeyed(g) = new[Depth][g]
                   /\ \A n \in 0..Depth : new[n] = RekeyStep(n, g, new[n - 1])
    BY RekeyedIs
  <1>2. Rekeying(g, new) /\ f \in new[Depth][g]
    BY <1>1 DEF Rekeying
  <1> QED
    BY <1>2, ConjunctsWorth DEF AsAsked

AskedInv == phase # "expand" => cursor = Idle /\ PathsRead(request) /\ filters \in Rekeyed(request)

LEMMA SameRekeyed ==
    ASSUME UNCHANGED <<request, expanded>>
    PROVE  /\ Rekeyed(request)' = Rekeyed(request)
           /\ PathsRead(request) => PathsRead(request)'
  <1>1. Rekeyed(request)' = Rekeyed(request)
    BY DEF Rekeyed, RekeyedGroup, Survivors, Expand
  <1> QED
    BY <1>1 DEF PathsRead

LEMMA AskedStep ==
    ASSUME ExpandInv, ReadingInv, AskedInv, [Next]_vars
    PROVE  AskedInv'
  <1>1. CASE Normalize
    <2>1. /\ todo = {} /\ cursor = Idle /\ filters' \in Rekeyed(request)
          /\ UNCHANGED <<request, cursor, expanded>>
      BY <1>1 DEF Normalize
    <2>2. PathsRead(request)
      BY <2>1, ExpandedAreRead
    <2> QED
      BY <2>1, <2>2, SameRekeyed DEF AskedInv, Idle
  <1>2. CASE Take \/ Substitute \/ Follow \/ Stop
    <2>1. phase' = phase /\ (phase = "expand" \/ cursor # Idle)
      BY <1>2 DEF Take, Substitute, Follow, Stop
    <2> QED
      BY <2>1 DEF AskedInv
  <1>3. CASE Join \/ BuildWhere \/ UNCHANGED vars
    <2>1. UNCHANGED <<request, cursor, expanded, filters>> /\ (phase # "expand" \/ phase' = phase)
      BY <1>3 DEF Join, BuildWhere, vars
    <2> QED
      BY <2>1, SameRekeyed DEF AskedInv, Idle
  <1> QED
    BY <1>1, <1>2, <1>3 DEF Next

LEMMA ReadAndAsked == Spec => [](ReadingInv /\ AskedInv)
  <1>1. Init => ReadingInv /\ AskedInv
    <2>1. Init => AskedInv
      BY DEF Init, AskedInv
    <2> QED
      BY <2>1, ReadingInit
  <1>2. ExpandInv /\ ReadingInv /\ AskedInv /\ [Next]_vars => (ReadingInv /\ AskedInv)'
    BY ReadingStepHolds, AskedStep
  <1>3. ExpandInv /\ ResultInv => ExpandInv
    OBVIOUS
  <1> QED
    BY <1>1, <1>2, <1>3, InvAlways, PTL DEF Spec

AnswersOf(g, row) == UNION {Answers(g, row, n) : n \in 0..Depth}

LEMMA RowsOfParts ==
    ASSUME Depth \in Nat, NEW e, NEW h, NEW row, NEW S, NEW R, NEW T, e = Combine("and", S), h = Combine("and", R),
           AllWorth({e, h}, row, S \cup R, LastLayer - 1, T)
    PROVE  (Eval(e, row) = "T" /\ Eval(h, row) = "T") <=> T \subseteq Fine
  <1> DEFINE E == {e, h}
             last == LastLayer - 1
             TS == {t \in T : \E x \in S : Worth(E, row, x, last, t)}
             TR == {t \in T : \E x \in R : Worth(E, row, x, last, t)}
  <1>1. AllWorth(E, row, S, last, TS) /\ AllWorth(E, row, R, last, TR) /\ TS \cup TR = T
    BY DEF AllWorth
  <1>2. e \in E /\ h \in E
    OBVIOUS
  <1> HIDE DEF TS, TR, E
  <1>3. Eval(e, row) = "T" <=> TS \subseteq Fine
    BY <1>1, <1>2, EvalIs DEF Fine
  <1>4. Eval(h, row) = "T" <=> TR \subseteq Fine
    BY <1>1, <1>2, EvalIs DEF Fine
  <1> QED
    BY <1>1, <1>3, <1>4

(* For any models and requests, nested to any depth, and any rows: the query*)
(* selects the rows the filters ask for, nulls included, unless two keys of *)
(* a group are the same.  (buildWhereClause, NormalizeFiltersWithAliases)   *)
THEOREM RowsAlwaysAsAsked == Spec => []RowsAsAsked
  <1>1. ASSUME ExpandInv, ResultInv, AskedInv
        PROVE  RowsAsAsked
    <2> SUFFICES ASSUME phase = "done", Unambiguous(request), NEW row \in Rows
                 PROVE  (Eval(where, row) = "T" /\ Eval(having, row) = "T") <=> Asked(request, row) \in Fine
      BY DEF RowsAsAsked, Fine
    <2> DEFINE C == Conjuncts(filters)
               S == {x \in C : ~x.agg}
               R == {x \in C : x.agg}
               E == {where, having}
               T == AnswersOf(request, row)
    <2>1. Depth \in Nat /\ WellFormed(request)
      BY <1>1, RequestsAssumption DEF ExpandInv
    <2>2. where = Combine("and", S) /\ having = Combine("and", R)
      BY <1>1 DEF ResultInv
    <2>3. \A n \in 0..Depth : AllWorth(E, row, ConjunctsAt(filters, n), LastLayer - 1, Answers(request, row, n))
      BY <1>1, <2>1, RekeyedAsAsked DEF AskedInv, AsAsked
    <2>4. C = UNION {ConjunctsAt(filters, n) : n \in 0..Depth}
      BY DEF Conjuncts
    <2> HIDE DEF C, E
    <2>5. AllWorth(E, row, C, LastLayer - 1, T)
      BY <2>3, <2>4 DEF AllWorth, AnswersOf
    <2>6. S \cup R = C
      OBVIOUS
    <2>7. T \subseteq Fine <=> \A n \in 0..Depth : Answers(request, row, n) \subseteq Fine
      BY DEF AnswersOf
    <2> HIDE DEF S, R, T
    <2>8. (Eval(where, row) = "T" /\ Eval(having, row) = "T") <=> T \subseteq Fine
      BY <2>1, <2>2, <2>5, <2>6, RowsOfParts DEF E
    <2> QED
      BY <2>1, <2>7, <2>8, AskedLevelByLevel
  <1> QED
    BY <1>1, InvAlways, ReadAndAsked, PTL
==============================================================================
