------------------------- MODULE InheritanceProofs -------------------------
(***************************************************************************)
(* Proofs about Inheritance, for any files: whatever order the map gives   *)
(* its presets in, no preset is resolved twice, relations and presets come *)
(* to mean what their texts say, and faults are found.                     *)
(***************************************************************************)
EXTENDS Inheritance, CommonLemmas

-----------------------------------------------------------------------------
(* Elements where they come first.                                         *)

Once(u, e) == IF e \in ToSet(u) THEN u ELSE Append(u, e)

LEMMA UnrepeatedIs ==
    ASSUME NEW E, NEW s \in Seq(E)
    PROVE  \E g \in [0..Len(s) -> Seq(E)] :
              /\ Unrepeated(s) = g[Len(s)]
              /\ g[0] = <<>>
              /\ \A i \in 1..Len(s) : g[i] = Once(g[i - 1], s[i])
  <1> DEFINE n == Len(s)
             Ls == Seq(E)
             step == [i \in 1..n |-> [u \in Ls |-> Once(u, s[i])]]
             Some(g) == g = [i \in 0..n |->
                               IF i = 0 THEN <<>>
                               ELSE IF s[i] \in ToSet(g[i - 1]) THEN g[i - 1] ELSE Append(g[i - 1], s[i])]
  <1>1. n \in Nat /\ <<>> \in Ls /\ \A i \in 1..n : s[i] \in E
    OBVIOUS
  <1>2. \A u \in Ls : \A e \in E : Once(u, e) \in Ls
    BY DEF Once
  <1>3. Unrepeated(s) = (CHOOSE g : Some(g))[n]
    BY DEF Unrepeated
  <1> HIDE DEF n, Ls
  <1>4. step \in [1..n -> [Ls -> Ls]]
    BY <1>1, <1>2
  <1>5. PICK g \in [0..n -> Ls] : g[0] = <<>> /\ \A i \in 1..n : g[i] = step[i][g[i - 1]]
    <2>1. PICK none \in Ls : none = <<>>
      BY <1>1
    <2> HIDE DEF step, Some
    <2>2. \E g \in [0..n -> Ls] : GoesOn(g, n, none, step)
      BY <1>1, <1>4, StepsExist
    <2> QED
      BY <2>1, <2>2 DEF GoesOn
  <1>6. \A i \in 1..n : i - 1 \in 0..n /\ i \in 0..n /\ i # 0
    BY <1>1
  <1>7. Some(g)
    <2>1. \A i \in 1..n : g[i] = Once(g[i - 1], s[i])
      BY <1>5, <1>6
    <2>2. \A i \in 0..n : i = 0 \/ i \in 1..n
      BY <1>1
    <2>3. \A i \in 0..n : g[i] = IF i = 0 THEN <<>>
                                 ELSE IF s[i] \in ToSet(g[i - 1]) THEN g[i - 1] ELSE Append(g[i - 1], s[i])
      BY <1>5, <2>1, <2>2 DEF Once
    <2>4. g = [i \in 0..n |-> g[i]]
      BY <1>5
    <2> QED
      BY <2>3, <2>4
  <1> DEFINE h == CHOOSE g2 : Some(g2)
  <1>8. Some(h)
    <2> HIDE DEF Some
    <2> QED
      BY <1>7
  <1> HIDE DEF h
  <1>9. h[0] = <<>>
    BY <1>1, <1>8
  <1>10. \A i \in 1..n : h[i] = Once(h[i - 1], s[i])
    BY <1>6, <1>8 DEF Once
  <1>11. \A i \in 0..n : g[i] = h[i]
    <2>1. \A i \in 1..n : g[i] = Once(g[i - 1], s[i])
      BY <1>5, <1>6
    <2>2. \A i \in 1..n : g[i - 1] = h[i - 1] => g[i] = h[i]
      BY <1>10, <2>1
    <2>3. Alike(g, h, n) /\ n \in Nat
      BY <1>1, <1>5, <1>9, <2>2 DEF Alike
    <2> HIDE DEF step, Some
    <2> QED
      BY <2>3, SameSteps
  <1> QED
    <2>1. n \in 0..n
      BY <1>1
    <2>2. Unrepeated(s) = h[n]
      BY <1>3 DEF h
    <2>3. \A i \in 1..n : g[i] = Once(g[i - 1], s[i])
      BY <1>5, <1>6
    <2> HIDE DEF step, Some
    <2> QED
      BY <1>5, <1>11, <2>1, <2>2, <2>3 DEF n, Ls

LEMMA UnrepeatedEmpty ==
    Unrepeated(<<>>) = <<>>
  <1>1. <<>> \in Seq({}) /\ Len(<<>>) = 0
    OBVIOUS
  <1> QED
    BY <1>1, UnrepeatedIs

LEMMA UnrepeatedAppend ==
    ASSUME NEW E, NEW s \in Seq(E), NEW e \in E
    PROVE  Unrepeated(Append(s, e)) = Once(Unrepeated(s), e)
  <1> DEFINE n == Len(s)
             t == Append(s, e)
  <1>1. n \in Nat /\ t \in Seq(E) /\ Len(t) = n + 1 /\ t[n + 1] = e /\ \A i \in 1..n : t[i] = s[i]
    OBVIOUS
  <1>2. PICK g \in [0..n -> Seq(E)] :
              /\ Unrepeated(s) = g[n] /\ g[0] = <<>>
              /\ \A i \in 1..n : g[i] = Once(g[i - 1], s[i])
    BY UnrepeatedIs
  <1> HIDE DEF n, t
  <1>3. PICK h \in [0..(n + 1) -> Seq(E)] :
              /\ Unrepeated(t) = h[n + 1] /\ h[0] = <<>>
              /\ \A i \in 1..(n + 1) : h[i] = Once(h[i - 1], t[i])
    <2>1. PICK h \in [0..Len(t) -> Seq(E)] :
              /\ Unrepeated(t) = h[Len(t)] /\ h[0] = <<>>
              /\ \A i \in 1..Len(t) : h[i] = Once(h[i - 1], t[i])
      BY <1>1, UnrepeatedIs
    <2> QED
      BY <1>1, <2>1
  <1>4. \A i \in 1..n : h[i] = Once(h[i - 1], s[i])
    BY <1>1, <1>3
  <1>5. \A i \in 0..n : g[i] = h[i]
    <2>1. \A i \in 1..n : g[i - 1] = h[i - 1] => g[i] = h[i]
      BY <1>2, <1>4
    <2>2. Alike(g, h, n)
      BY <1>1, <1>2, <1>3, <2>1 DEF Alike
    <2>3. n \in Nat
      BY <1>1
    <2> QED
      BY <2>2, <2>3, SameSteps
  <1>6. n \in 0..n /\ n + 1 \in 1..(n + 1) /\ (n + 1) - 1 = n
    BY <1>1
  <1>7. h[n + 1] = Once(h[n], e)
    BY <1>1, <1>3, <1>6
  <1> QED
    BY <1>2, <1>3, <1>5, <1>6, <1>7 DEF t

LEMMA ElementsOfAppend ==
    ASSUME NEW E, NEW s \in Seq(E), NEW e \in E
    PROVE  ToSet(Append(s, e)) = ToSet(s) \cup {e}
  <1> DEFINE t == Append(s, e)
  <1>1. DOMAIN s = 1..Len(s) /\ DOMAIN t = 1..(Len(s) + 1) /\ Len(s) \in Nat /\ t[Len(s) + 1] = e
        /\ \A i \in 1..Len(s) : t[i] = s[i]
    OBVIOUS
  <1> HIDE DEF t
  <1>2. \A i \in 1..(Len(s) + 1) : i = Len(s) + 1 \/ i \in 1..Len(s)
    BY <1>1
  <1>3. Len(s) + 1 \in 1..(Len(s) + 1) /\ \A i \in 1..Len(s) : i \in 1..(Len(s) + 1)
    BY <1>1
  <1>4. ToSet(t) = ToSet(s) \cup {e}
    BY <1>1, <1>2, <1>3 DEF ToSet
  <1> QED
    BY <1>4 DEF t

LEMMA ElementsInSeq ==
    ASSUME NEW E, NEW s \in Seq(E)
    PROVE  ToSet(s) \subseteq E /\ s \in Seq(ToSet(s))
  <1>1. \A i \in 1..Len(s) : s[i] \in E /\ s[i] \in ToSet(s)
    BY DEF ToSet
  <1>2. s \in [1..Len(s) -> ToSet(s)] /\ Len(s) \in Nat
    BY <1>1
  <1>3. ToSet(s) \subseteq E
    <2>1. DOMAIN s = 1..Len(s)
      OBVIOUS
    <2> QED
      BY <1>1, <2>1 DEF ToSet
  <1>4. s \in Seq(ToSet(s))
    <2> DEFINE T == ToSet(s)
    <2>1. s \in [1..Len(s) -> T] /\ Len(s) \in Nat
      BY <1>2
    <2> HIDE DEF T
    <2>2. s \in Seq(T)
      BY <2>1
    <2> QED
      BY <2>2 DEF T
  <1> QED
    BY <1>3, <1>4

(* No element is there twice. *)
Distinct(s) == \A i, j \in DOMAIN s : s[i] = s[j] => i = j

LEMMA UnrepeatedKeeps ==
    ASSUME NEW E
    PROVE  \A s \in Seq(E) : /\ Unrepeated(s) \in Seq(E)
                             /\ ToSet(Unrepeated(s)) = ToSet(s)
                             /\ Distinct(Unrepeated(s))
  <1> DEFINE Right(u, s) == u \in Seq(E) /\ ToSet(u) = ToSet(s) /\ Distinct(u)
             P == {s \in Seq(E) : Right(Unrepeated(s), s)}
  <1>1. <<>> \in P
    <2>1. Right(<<>>, <<>>) /\ <<>> \in Seq(E)
      BY DEF Distinct
    <2> HIDE DEF Right
    <2> QED
      BY <2>1, UnrepeatedEmpty
  <1>2. ASSUME NEW s \in Seq(E), s \in P, NEW e \in E
        PROVE  Append(s, e) \in P
    <2> DEFINE u == Unrepeated(s)
               t == Append(s, e)
    <2>1. u \in Seq(E) /\ ToSet(u) = ToSet(s) /\ Distinct(u)
      BY <1>2
    <2>2. t \in Seq(E) /\ ToSet(t) = ToSet(s) \cup {e} /\ Unrepeated(t) = Once(u, e)
      BY ElementsOfAppend, UnrepeatedAppend
    <2> HIDE DEF u, t
    <2> SUFFICES Right(Unrepeated(t), t)
      BY <2>2 DEF t
    <2>3. CASE e \in ToSet(u)
      BY <2>1, <2>2, <2>3 DEF Once
    <2>4. CASE e \notin ToSet(u)
      <3>1. Once(u, e) = Append(u, e)
        BY <2>4 DEF Once
      <3>2. Append(u, e) \in Seq(E) /\ ToSet(Append(u, e)) = ToSet(s) \cup {e}
        BY <2>1, ElementsOfAppend
      <3>3. Distinct(Append(u, e))
        <4> DEFINE v == Append(u, e)
        <4>1. Len(u) \in Nat /\ DOMAIN v = 1..(Len(u) + 1) /\ v[Len(u) + 1] = e
              /\ \A i \in 1..Len(u) : v[i] = u[i]
          BY <2>1
        <4>2. \A i \in 1..Len(u) : u[i] # e
          BY <2>1, <2>4 DEF ToSet
        <4>3. \A i, j \in 1..Len(u) : u[i] = u[j] => i = j
          BY <2>1 DEF Distinct
        <4> HIDE DEF v
        <4>4. \A i \in 1..(Len(u) + 1) : i = Len(u) + 1 \/ i \in 1..Len(u)
          BY <4>1
        <4>5. Distinct(v)
          BY <4>1, <4>2, <4>3, <4>4 DEF Distinct
        <4> QED
          BY <4>5 DEF v
      <3> QED
        BY <2>2, <3>1, <3>2, <3>3
    <2> QED
      BY <2>3, <2>4
  <1> HIDE DEF P
  <1>3. \A s \in Seq(E) : s \in P
    BY <1>1, <1>2, InductionOnSeqs
  <1> QED
    BY <1>3 DEF P

(* A sequence of different elements loses none. *)
LEMMA UnrepeatedDistinct ==
    ASSUME NEW E
    PROVE  \A s \in Seq(E) : Distinct(s) => Unrepeated(s) = s
  <1> DEFINE P == {s \in Seq(E) : Distinct(s) => Unrepeated(s) = s}
  <1>1. <<>> \in P
    BY UnrepeatedEmpty
  <1>2. ASSUME NEW s \in Seq(E), s \in P, NEW e \in E
        PROVE  Append(s, e) \in P
    <2> DEFINE t == Append(s, e)
    <2>1. t \in Seq(E) /\ Len(s) \in Nat /\ DOMAIN s = 1..Len(s) /\ DOMAIN t = 1..(Len(s) + 1)
          /\ t[Len(s) + 1] = e /\ \A i \in 1..Len(s) : t[i] = s[i]
      OBVIOUS
    <2> HIDE DEF t
    <2> SUFFICES ASSUME Distinct(t) PROVE Unrepeated(t) = t
      BY <2>1 DEF t
    <2>2. \A i \in 1..Len(s) : i \in 1..(Len(s) + 1) /\ i # Len(s) + 1 /\ Len(s) + 1 \in 1..(Len(s) + 1)
      BY <2>1
    <2>3. Distinct(s)
      BY <2>1, <2>2 DEF Distinct
    <2>4. Unrepeated(s) = s
      BY <1>2, <2>3
    <2>5. e \notin ToSet(s)
      BY <2>1, <2>2 DEF Distinct, ToSet
    <2>6. Unrepeated(t) = Once(s, e)
      BY <2>4, UnrepeatedAppend DEF t
    <2> QED
      BY <2>5, <2>6 DEF Once, t
  <1> HIDE DEF P
  <1>3. \A s \in Seq(E) : s \in P
    BY <1>1, <1>2, InductionOnSeqs
  <1> QED
    BY <1>3 DEF P

-----------------------------------------------------------------------------
(* Fields that override others.                                            *)

WithKey(s, key) == {f \in ToSet(s) : f.key = key}

LEMMA LastOfAppend ==
    ASSUME NEW E, NEW s \in Seq(E), NEW f \in E, NEW key
    PROVE  LastOf(Append(s, f), key) = IF f.key = key THEN f ELSE LastOf(s, key)
  <1> DEFINE t == Append(s, f)
             D == ToSet(s)
             S == WithKey(s, key)
             T == WithKey(t, key)
             k == Keep(s, S)
  <1>1. s \in Seq(D) /\ t \in Seq(E) /\ ToSet(t) = D \cup {f}
    BY ElementsInSeq, ElementsOfAppend
  <1>2. D \cap S = D \cap T /\ (f \in T <=> f.key = key)
    BY <1>1 DEF WithKey
  <1>3. LastOf(s, key) = Last(k) /\ LastOf(t, key) = Last(Keep(t, T))
    BY DEF LastOf, WithKey
  <1> HIDE DEF S, T, D
  <1>4. Keep(s, S) = Keep(s, T)
    BY <1>1, <1>2, KeepSame
  <1>5. Keep(t, T) = IF f \in T THEN Append(k, f) ELSE k
    BY <1>4, KeepAppend
  <1>6. k \in Seq(E)
    <2>1. k \in Seq(E \cap S)
      BY KeepInSeq
    <2> QED
      BY <2>1
  <1> HIDE DEF k, t
  <1>7. Last(Append(k, f)) = f
    BY <1>6 DEF Last
  <1> QED
    BY <1>2, <1>3, <1>5, <1>7 DEF t

LEMMA KeysOfAppend ==
    ASSUME NEW E, NEW s \in Seq(E), NEW f \in E
    PROVE  KeysOf(Append(s, f)) = Append(KeysOf(s), f.key) /\ KeysOf(<<>>) = <<>>
  <1> DEFINE Keys == {e.key : e \in E}
             t == Append(s, f)
             k == KeysOf(s)
             l == KeysOf(t)
             n == Len(s)
  <1>1. n \in Nat /\ DOMAIN s = 1..n /\ DOMAIN t = 1..(n + 1) /\ t[n + 1] = f
        /\ \A i \in 1..n : t[i] = s[i] /\ s[i] \in E
    OBVIOUS
  <1> HIDE DEF t
  <1>2. \A e \in E : e.key \in Keys
    OBVIOUS
  <1>3. \A i \in 1..(n + 1) : t[i] \in E
    BY <1>1
  <1> HIDE DEF Keys
  <1>4. k \in [1..n -> Keys] /\ \A i \in 1..n : k[i] = s[i].key
    BY <1>1, <1>2 DEF KeysOf
  <1>5. l \in [1..(n + 1) -> Keys] /\ \A i \in 1..(n + 1) : l[i] = t[i].key
    BY <1>1, <1>2, <1>3 DEF KeysOf
  <1> HIDE DEF k, l, n
  <1>6. \A i \in 1..n : l[i] = k[i]
    <2>1. \A i \in 1..n : i \in 1..(n + 1)
      BY <1>1
    <2> QED
      BY <1>1, <1>4, <1>5, <2>1
  <1>7. l = Append(k, l[n + 1])
    BY <1>1, <1>4, <1>5, <1>6, AppendedFunction
  <1>8. l[n + 1] = f.key
    BY <1>1, <1>5
  <1>9. KeysOf(<<>>) = <<>>
    BY DEF KeysOf
  <1> QED
    BY <1>7, <1>8, <1>9 DEF k, l, t

LEMMA KeysInSeq ==
    ASSUME NEW E, NEW s \in Seq(E)
    PROVE  /\ KeysOf(s) \in Seq({e.key : e \in E})
           /\ Len(KeysOf(s)) = Len(s)
           /\ DOMAIN KeysOf(s) = 1..Len(s)
           /\ \A i \in 1..Len(s) : KeysOf(s)[i] = s[i].key
  <1> DEFINE Keys == {e.key : e \in E}
             k == KeysOf(s)
             n == Len(s)
  <1>1. n \in Nat /\ DOMAIN s = 1..n /\ \A i \in 1..n : s[i] \in E
    OBVIOUS
  <1>2. \A e \in E : e.key \in Keys
    OBVIOUS
  <1> HIDE DEF Keys
  <1>3. k \in [1..n -> Keys] /\ \A i \in 1..n : k[i] = s[i].key
    BY <1>1, <1>2 DEF KeysOf
  <1> HIDE DEF k
  <1>4. k \in Seq(Keys) /\ Len(k) = n
    BY <1>1, <1>3
  <1> QED
    BY <1>3, <1>4 DEF k, Keys

(* The field that occurs last has the key. *)
LEMMA LastOfIs ==
    ASSUME NEW E
    PROVE  \A s \in Seq(E) : \A i \in 1..Len(s) :
              LastOf(s, s[i].key) \in ToSet(s) /\ LastOf(s, s[i].key).key = s[i].key
  <1> DEFINE Right(s, key) == LastOf(s, key) \in ToSet(s) /\ LastOf(s, key).key = key
             P == {s \in Seq(E) : \A i \in 1..Len(s) : Right(s, s[i].key)}
  <1>1. <<>> \in P
    OBVIOUS
  <1>2. ASSUME NEW s \in Seq(E), s \in P, NEW f \in E
        PROVE  Append(s, f) \in P
    <2> DEFINE t == Append(s, f)
    <2>1. t \in Seq(E) /\ Len(s) \in Nat /\ Len(t) = Len(s) + 1 /\ t[Len(s) + 1] = f
          /\ (\A i \in 1..Len(s) : t[i] = s[i])
      OBVIOUS
    <2>2. ToSet(t) = ToSet(s) \cup {f}
      BY ElementsOfAppend
    <2>3. \A key : LastOf(t, key) = IF f.key = key THEN f ELSE LastOf(s, key)
      BY LastOfAppend
    <2> HIDE DEF t
    <2>4. \A i \in 1..Len(s) : Right(s, s[i].key)
      BY <1>2
    <2>5. ASSUME NEW i \in 1..Len(t)
          PROVE  Right(t, t[i].key)
      <3>1. CASE t[i].key = f.key
        BY <2>2, <2>3, <3>1
      <3>2. CASE t[i].key # f.key
        <4>1. i \in 1..Len(s) /\ t[i] = s[i]
          BY <2>1, <3>2
        <4> QED
          BY <2>2, <2>3, <2>4, <3>2, <4>1
      <3> QED
        BY <3>1, <3>2
    <2> QED
      BY <2>1, <2>5 DEF t
  <1> HIDE DEF P
  <1>3. \A s \in Seq(E) : s \in P
    BY <1>1, <1>2, InductionOnSeqs
  <1> QED
    BY <1>3 DEF P

(* Every key is left once, with the field that occurs last. *)
LEMMA OverriddenIs ==
    ASSUME NEW E, NEW s \in Seq(E)
    PROVE  /\ Overridden(s) \in Seq(E)
           /\ KeysOf(Overridden(s)) = Unrepeated(KeysOf(s))
           /\ Distinct(KeysOf(Overridden(s)))
           /\ Overridden(s) = [n \in 1..Len(Unrepeated(KeysOf(s))) |-> LastOf(s, Unrepeated(KeysOf(s))[n])]
  <1> DEFINE Keys == {e.key : e \in E}
             k == KeysOf(s)
             u == Unrepeated(k)
             o == Overridden(s)
  <1>1. k \in Seq(Keys) /\ Len(k) = Len(s) /\ \A i \in 1..Len(s) : k[i] = s[i].key
    BY KeysInSeq
  <1> HIDE DEF k, Keys
  <1>2. u \in Seq(Keys) /\ ToSet(u) = ToSet(k) /\ Distinct(u)
    BY <1>1, UnrepeatedKeeps
  <1>3. o = [n \in DOMAIN u |-> LastOf(s, u[n])]
    BY DEF Overridden, k
  <1> HIDE DEF u, o
  <1>4. DOMAIN u = 1..Len(u) /\ Len(u) \in Nat
    BY <1>2
  <1>5. ASSUME NEW n \in 1..Len(u)
        PROVE  LastOf(s, u[n]) \in E /\ LastOf(s, u[n]).key = u[n]
    <2>1. u[n] \in ToSet(k)
      BY <1>2, <1>4 DEF ToSet
    <2>2. DOMAIN k = 1..Len(s)
      BY <1>1
    <2>3. PICK i \in 1..Len(s) : u[n] = s[i].key
      BY <1>1, <2>1, <2>2 DEF ToSet
    <2>4. LastOf(s, s[i].key) \in ToSet(s) /\ LastOf(s, s[i].key).key = s[i].key
      BY LastOfIs
    <2> QED
      BY <2>3, <2>4, ElementsInSeq
  <1>6. o \in [1..Len(u) -> E] /\ \A n \in 1..Len(u) : o[n].key = u[n]
    BY <1>3, <1>4, <1>5
  <1>7. KeysOf(o) = u
    <2>1. KeysOf(o) = [n \in 1..Len(u) |-> u[n]]
      BY <1>6 DEF KeysOf
    <2> QED
      BY <1>2, <2>1
  <1>8. o \in Seq(E)
    BY <1>4, <1>6
  <1> QED
    BY <1>2, <1>3, <1>4, <1>7, <1>8 DEF o, u, k

LEMMA OverriddenAppend ==
    ASSUME NEW E, NEW s \in Seq(E), NEW f \in E
    PROVE  Overridden(Append(s, f)) = Put(Overridden(s), f)
  <1> DEFINE Keys == {e.key : e \in E}
             t == Append(s, f)
             u == Unrepeated(KeysOf(s))
             v == Unrepeated(KeysOf(t))
             o == Overridden(s)
             p == Overridden(t)
             m == Len(u)
  <1>1. KeysOf(s) \in Seq(Keys) /\ f.key \in Keys /\ KeysOf(t) = Append(KeysOf(s), f.key) /\ t \in Seq(E)
    BY KeysInSeq, KeysOfAppend
  <1>2. v = Once(u, f.key)
    <2> HIDE DEF Keys, t
    <2>1. PICK k : k = KeysOf(s)
      OBVIOUS
    <2>2. PICK e : e = f.key
      OBVIOUS
    <2>3. k \in Seq(Keys) /\ e \in Keys /\ KeysOf(t) = Append(k, e)
      BY <1>1, <2>1, <2>2
    <2>4. Unrepeated(Append(k, e)) = Once(Unrepeated(k), e)
      BY <2>3, UnrepeatedAppend
    <2> QED
      BY <2>1, <2>2, <2>3, <2>4
  <1>3. o \in Seq(E) /\ KeysOf(o) = u /\ Distinct(KeysOf(o)) /\ o = [n \in 1..m |-> LastOf(s, u[n])]
    BY OverriddenIs
  <1>4. p \in Seq(E) /\ KeysOf(p) = v /\ Distinct(KeysOf(p)) /\ p = [n \in 1..Len(v) |-> LastOf(t, v[n])]
    <2> HIDE DEF t
    <2> QED
      BY <1>1, OverriddenIs
  <1>5. \A key : LastOf(t, key) = IF f.key = key THEN f ELSE LastOf(s, key)
    BY LastOfAppend
  <1>6. u \in Seq(Keys) /\ m \in Nat /\ DOMAIN u = 1..m
    <2>1. u \in Seq(Keys)
      <3> HIDE DEF Keys
      <3> QED
        BY <1>1, UnrepeatedKeeps
    <2> HIDE DEF u, Keys
    <2> QED
      BY <2>1
  <1> HIDE DEF t, u, v, o, p, m
  <1>7. DOMAIN o = 1..m /\ \A n \in 1..m : o[n].key = u[n]
    BY <1>3 DEF KeysOf
  <1>8. CASE f.key \in ToSet(u)
    <2>1. v = u /\ Len(v) = m
      BY <1>2, <1>8 DEF Once, m
    <2>2. \E i \in DOMAIN o : o[i].key = f.key
      BY <1>6, <1>7, <1>8 DEF ToSet
    <2>3. Put(o, f) = [n \in 1..m |-> IF u[n] = f.key THEN f ELSE o[n]]
      BY <1>7, <2>2 DEF Put
    <2>4. p = [n \in 1..m |-> IF u[n] = f.key THEN f ELSE LastOf(s, u[n])]
      BY <1>4, <1>5, <2>1
    <2>5. \A n \in 1..m : o[n] = LastOf(s, u[n])
      BY <1>3
    <2> QED
      BY <2>3, <2>4, <2>5 DEF o, p, t
  <1>9. CASE f.key \notin ToSet(u)
    <2> DEFINE w == Append(u, f.key)
    <2>1. v = w /\ f.key \in Keys
      BY <1>1, <1>2, <1>9 DEF Once
    <2>2. Len(w) = m + 1 /\ w[m + 1] = f.key /\ \A n \in 1..m : w[n] = u[n]
      BY <1>6, <2>1 DEF m
    <2> HIDE DEF w
    <2>3. \A n \in 1..m : u[n] # f.key
      BY <1>6, <1>9 DEF ToSet
    <2>4. Put(o, f) = Append(o, f)
      BY <1>7, <2>3 DEF Put
    <2>5. Len(v) = m + 1 /\ v[m + 1] = f.key /\ \A n \in 1..m : v[n] = u[n]
      BY <2>1, <2>2
    <2>6. \A n \in 1..m : n \in 1..(m + 1)
      BY <1>6
    <2>7. m + 1 \in 1..(m + 1)
      BY <1>6
    <2>8. p[m + 1] = f
      BY <1>4, <1>5, <2>5, <2>7
    <2>9. \A n \in 1..m : p[n] = o[n]
      BY <1>3, <1>4, <1>5, <2>3, <2>5, <2>6
    <2>10. o \in [1..m -> E]
      <3>1. \A n \in DOMAIN o : o[n] \in E
        <4>1. o \in Seq(E)
          BY <1>3
        <4> QED
          BY <4>1
      <3>2. o = [n \in 1..m |-> o[n]]
        BY <1>3
      <3> QED
        BY <1>7, <3>1, <3>2
    <2>11. p \in [1..(m + 1) -> E]
      BY <1>4, <2>5
    <2>12. p = Append(o, p[m + 1])
      BY <1>6, <2>9, <2>10, <2>11, AppendedFunction
    <2> QED
      BY <2>4, <2>8, <2>12 DEF o, p, t
  <1> QED
    BY <1>8, <1>9

LEMMA PutInSeq ==
    ASSUME NEW E, NEW d \in Seq(E), NEW f \in E
    PROVE  Put(d, f) \in Seq(E)
  <1>1. CASE \E i \in DOMAIN d : d[i].key = f.key
    <2> DEFINE p == [i \in DOMAIN d |-> IF d[i].key = f.key THEN f ELSE d[i]]
    <2>1. DOMAIN d = 1..Len(d) /\ Len(d) \in Nat /\ \A i \in 1..Len(d) : d[i] \in E
      OBVIOUS
    <2>2. p \in [1..Len(d) -> E]
      BY <2>1
    <2> HIDE DEF p
    <2>3. p \in Seq(E)
      BY <2>1, <2>2
    <2> QED
      BY <1>1, <2>3 DEF Put, p
  <1>2. CASE ~(\E i \in DOMAIN d : d[i].key = f.key)
    BY <1>2 DEF Put
  <1> QED
    BY <1>1, <1>2

LEMMA MergeIs ==
    ASSUME NEW E, NEW d \in Seq(E), NEW s \in Seq(E)
    PROVE  \E g \in [0..Len(s) -> Seq(E)] :
              /\ mergeFields(d, s) = g[Len(s)]
              /\ g[0] = d
              /\ \A i \in 1..Len(s) : g[i] = Put(g[i - 1], s[i])
  <1> DEFINE n == Len(s)
             Ls == Seq(E)
             step == [i \in 1..n |-> [u \in Ls |-> Put(u, s[i])]]
             Some(g) == g = [i \in 0..n |-> IF i = 0 THEN d ELSE Put(g[i - 1], s[i])]
  <1>1. n \in Nat /\ d \in Ls /\ \A i \in 1..n : s[i] \in E
    OBVIOUS
  <1>2. \A u \in Ls : \A e \in E : Put(u, e) \in Ls
    BY PutInSeq
  <1>3. mergeFields(d, s) = (CHOOSE g : Some(g))[n]
    BY DEF mergeFields
  <1> HIDE DEF n, Ls
  <1>4. step \in [1..n -> [Ls -> Ls]]
    BY <1>1, <1>2
  <1>5. PICK g \in [0..n -> Ls] : g[0] = d /\ \A i \in 1..n : g[i] = step[i][g[i - 1]]
    <2> HIDE DEF step, Some
    <2>2. \E g \in [0..n -> Ls] : GoesOn(g, n, d, step)
      BY <1>1, <1>4, StepsExist
    <2> QED
      BY <2>2 DEF GoesOn
  <1>6. \A i \in 1..n : i - 1 \in 0..n /\ i \in 0..n /\ i # 0
    BY <1>1
  <1>7. Some(g)
    <2>1. \A i \in 1..n : g[i] = Put(g[i - 1], s[i])
      BY <1>5, <1>6
    <2>2. \A i \in 0..n : i = 0 \/ i \in 1..n
      BY <1>1
    <2>3. \A i \in 0..n : g[i] = IF i = 0 THEN d ELSE Put(g[i - 1], s[i])
      BY <1>5, <2>1, <2>2
    <2>4. g = [i \in 0..n |-> g[i]]
      BY <1>5
    <2> QED
      BY <2>3, <2>4
  <1> DEFINE h == CHOOSE g2 : Some(g2)
  <1>8. Some(h)
    <2> HIDE DEF Some
    <2> QED
      BY <1>7
  <1> HIDE DEF h
  <1>9. h[0] = d
    BY <1>1, <1>8
  <1>10. \A i \in 1..n : h[i] = Put(h[i - 1], s[i])
    BY <1>6, <1>8
  <1>11. \A i \in 0..n : g[i] = h[i]
    <2>1. \A i \in 1..n : g[i] = Put(g[i - 1], s[i])
      BY <1>5, <1>6
    <2>2. \A i \in 1..n : g[i - 1] = h[i - 1] => g[i] = h[i]
      BY <1>10, <2>1
    <2>3. Alike(g, h, n) /\ n \in Nat
      BY <1>1, <1>5, <1>9, <2>2 DEF Alike
    <2> HIDE DEF step, Some
    <2> QED
      BY <2>3, SameSteps
  <1> QED
    <2>1. n \in 0..n
      BY <1>1
    <2>2. mergeFields(d, s) = h[n]
      BY <1>3 DEF h
    <2>3. \A i \in 1..n : g[i] = Put(g[i - 1], s[i])
      BY <1>5, <1>6
    <2> HIDE DEF step, Some
    <2> QED
      BY <1>5, <1>11, <2>1, <2>2, <2>3 DEF n, Ls

LEMMA MergeEmpty ==
    ASSUME NEW E, NEW d \in Seq(E)
    PROVE  mergeFields(d, <<>>) = d
  <1>1. <<>> \in Seq(E) /\ Len(<<>>) = 0
    OBVIOUS
  <1>2. PICK none \in Seq(E) : none = <<>> /\ Len(none) = 0
    BY <1>1
  <1>3. PICK g \in [0..Len(none) -> Seq(E)] : mergeFields(d, none) = g[Len(none)] /\ g[0] = d
    BY MergeIs
  <1> QED
    BY <1>2, <1>3

LEMMA MergeAppend ==
    ASSUME NEW E, NEW d \in Seq(E), NEW s \in Seq(E), NEW f \in E
    PROVE  mergeFields(d, Append(s, f)) = Put(mergeFields(d, s), f)
  <1> DEFINE n == Len(s)
             t == Append(s, f)
  <1>1. n \in Nat /\ t \in Seq(E) /\ Len(t) = n + 1 /\ t[n + 1] = f /\ \A i \in 1..n : t[i] = s[i]
    OBVIOUS
  <1>2. PICK g \in [0..n -> Seq(E)] :
              /\ mergeFields(d, s) = g[n] /\ g[0] = d
              /\ \A i \in 1..n : g[i] = Put(g[i - 1], s[i])
    BY MergeIs
  <1> HIDE DEF n, t
  <1>3. PICK h \in [0..(n + 1) -> Seq(E)] :
              /\ mergeFields(d, t) = h[n + 1] /\ h[0] = d
              /\ \A i \in 1..(n + 1) : h[i] = Put(h[i - 1], t[i])
    <2>1. PICK h \in [0..Len(t) -> Seq(E)] :
              /\ mergeFields(d, t) = h[Len(t)] /\ h[0] = d
              /\ \A i \in 1..Len(t) : h[i] = Put(h[i - 1], t[i])
      <3>1. t \in Seq(E)
        BY <1>1
      <3> QED
        BY <3>1, MergeIs
    <2> QED
      BY <1>1, <2>1
  <1>4. \A i \in 1..n : h[i] = Put(h[i - 1], s[i])
    BY <1>1, <1>3
  <1>5. \A i \in 0..n : g[i] = h[i]
    <2>1. \A i \in 1..n : g[i - 1] = h[i - 1] => g[i] = h[i]
      BY <1>2, <1>4
    <2>2. Alike(g, h, n)
      BY <1>1, <1>2, <1>3, <2>1 DEF Alike
    <2>3. n \in Nat
      BY <1>1
    <2> QED
      BY <2>2, <2>3, SameSteps
  <1>6. n \in 0..n /\ n + 1 \in 1..(n + 1) /\ (n + 1) - 1 = n
    BY <1>1
  <1>7. h[n + 1] = Put(h[n], f)
    BY <1>1, <1>3, <1>6
  <1> QED
    BY <1>2, <1>3, <1>5, <1>6, <1>7 DEF t

(* Merging field by field comes to the last field of each key. *)
LEMMA MergeOverrides ==
    ASSUME NEW E, NEW x \in Seq(E)
    PROVE  \A s \in Seq(E) : mergeFields(Overridden(x), s) = Overridden(x \o s)
  <1> DEFINE o == Overridden(x)
             P == {s \in Seq(E) : mergeFields(o, s) = Overridden(x \o s)}
  <1>0. o \in Seq(E)
    BY OverriddenIs
  <1> HIDE DEF o
  <1>1. <<>> \in P
    <2>1. x \o <<>> = x
      OBVIOUS
    <2>2. mergeFields(o, <<>>) = o
      BY <1>0, MergeEmpty
    <2>3. <<>> \in Seq(E)
      OBVIOUS
    <2> QED
      BY <2>1, <2>2, <2>3 DEF o
  <1>2. ASSUME NEW s \in Seq(E), s \in P, NEW f \in E
        PROVE  Append(s, f) \in P
    <2>1. mergeFields(o, Append(s, f)) = Put(mergeFields(o, s), f)
      BY <1>0, MergeAppend
    <2>2. PICK xs \in Seq(E) : xs = x \o s
      <3>1. x \o s \in Seq(E)
        BY ConcatProperties
      <3> QED
        BY <3>1
    <2>3. x \o Append(s, f) = Append(xs, f)
      BY <2>2, ConcatAppend
    <2>4. Overridden(Append(xs, f)) = Put(Overridden(xs), f)
      BY OverriddenAppend
    <2>5. mergeFields(o, s) = Overridden(xs)
      BY <1>2, <2>2
    <2>6. Append(s, f) \in Seq(E)
      OBVIOUS
    <2> QED
      BY <2>1, <2>3, <2>4, <2>5, <2>6
  <1> HIDE DEF P
  <1>3. \A s \in Seq(E) : s \in P
    BY <1>1, <1>2, InductionOnSeqs
  <1> QED
    BY <1>3 DEF P, o

(* Fields of different keys override nothing. *)
LEMMA OverriddenDistinct ==
    ASSUME NEW E
    PROVE  \A s \in Seq(E) : Distinct(KeysOf(s)) => Overridden(s) = s
  <1> DEFINE P == {s \in Seq(E) : Distinct(KeysOf(s)) => Overridden(s) = s}
  <1>1. <<>> \in P
    <2>1. KeysOf(<<>>) = <<>>
      BY DEF KeysOf
    <2>2. Overridden(<<>>) = <<>>
      BY <2>1, UnrepeatedEmpty DEF Overridden
    <2> QED
      BY <2>2
  <1>2. ASSUME NEW s \in Seq(E), s \in P, NEW f \in E
        PROVE  Append(s, f) \in P
    <2> DEFINE t == Append(s, f)
               n == Len(s)
    <2>1. t \in Seq(E) /\ n \in Nat /\ DOMAIN s = 1..n /\ Len(t) = n + 1
          /\ t[n + 1] = f /\ \A i \in 1..n : t[i] = s[i]
      OBVIOUS
    <2>2. Len(KeysOf(s)) = n /\ DOMAIN KeysOf(s) = 1..n /\ \A i \in 1..n : KeysOf(s)[i] = s[i].key
      BY KeysInSeq
    <2>3. Len(KeysOf(t)) = n + 1 /\ DOMAIN KeysOf(t) = 1..(n + 1)
          /\ \A i \in 1..(n + 1) : KeysOf(t)[i] = t[i].key
      <3>1. t \in Seq(E) /\ Len(t) = n + 1
        BY <2>1
      <3> HIDE DEF t, n
      <3> QED
        BY <3>1, KeysInSeq
    <2> HIDE DEF t, n
    <2> SUFFICES ASSUME Distinct(KeysOf(t)) PROVE Overridden(t) = t
      BY <2>1 DEF t
    <2>4. \A i \in 1..n : i \in 1..(n + 1) /\ i # n + 1 /\ n + 1 \in 1..(n + 1)
      BY <2>1
    <2>5. Distinct(KeysOf(s))
      BY <2>1, <2>2, <2>3, <2>4 DEF Distinct
    <2>6. \A i \in 1..n : s[i].key # f.key
      BY <2>1, <2>3, <2>4 DEF Distinct
    <2>7. Overridden(s) = s
      BY <1>2, <2>5
    <2>8. Overridden(t) = Put(s, f)
      BY <2>7, OverriddenAppend DEF t
    <2>9. Put(s, f) = Append(s, f)
      BY <2>1, <2>6 DEF Put
    <2> QED
      BY <2>8, <2>9 DEF t
  <1> HIDE DEF P
  <1>3. \A s \in Seq(E) : s \in P
    BY <1>1, <1>2, InductionOnSeqs
  <1> QED
    BY <1>3 DEF P

(* Selecting fields leaves their keys different. *)
LEMMA KeepDistinct ==
    ASSUME NEW E, NEW S
    PROVE  \A s \in Seq(E) : Distinct(KeysOf(s)) => Distinct(KeysOf(Keep(s, S)))
  <1> DEFINE Different(s) == \A i, j \in 1..Len(s) : s[i].key = s[j].key => i = j
             P == {s \in Seq(E) : Different(s) => Different(Keep(s, S))}
  <1>0. ASSUME NEW s \in Seq(E)
        PROVE  Distinct(KeysOf(s)) <=> Different(s)
    <2>1. DOMAIN KeysOf(s) = 1..Len(s) /\ \A i \in 1..Len(s) : KeysOf(s)[i] = s[i].key
      BY KeysInSeq
    <2> QED
      BY <2>1 DEF Distinct
  <1>1. <<>> \in P
    <2>1. <<>> \in Seq(E) /\ Different(<<>>)
      OBVIOUS
    <2> HIDE DEF Different
    <2> QED
      BY <2>1, KeepEmpty
  <1>2. ASSUME NEW s \in Seq(E), s \in P, NEW f \in E
        PROVE  Append(s, f) \in P
    <2> DEFINE t == Append(s, f)
               n == Len(s)
               k == Keep(s, S)
               m == Len(k)
    <2>1. t \in Seq(E) /\ n \in Nat /\ Len(t) = n + 1 /\ t[n + 1] = f /\ \A i \in 1..n : t[i] = s[i]
      OBVIOUS
    <2>2. Keep(t, S) = IF f \in S THEN Append(k, f) ELSE k
      BY KeepAppend
    <2>3. k \in Seq(ToSet(s)) /\ k \in Seq(E)
      <3>1. s \in Seq(ToSet(s)) /\ ToSet(s) \subseteq E
        BY ElementsInSeq
      <3> DEFINE D == ToSet(s)
      <3> HIDE DEF D
      <3>2. k \in Seq(D \cap S)
        BY <3>1, KeepInSeq DEF D
      <3> HIDE DEF k
      <3>3. k \in Seq(D)
        BY <3>2
      <3>4. k \in Seq(E)
        BY <3>1, <3>2 DEF D
      <3> QED
        BY <3>3, <3>4 DEF D
    <2>4. SUFFICES ASSUME Different(t) PROVE Different(Keep(t, S))
      BY <2>1
    <2> HIDE DEF t, n, k
    <2>5. Different(s)
      BY <2>1, <2>4 DEF n
    <2>6. Different(k)
      BY <1>2, <2>5 DEF k
    <2>7. CASE f \notin S
      BY <2>2, <2>6, <2>7
    <2>8. CASE f \in S
      <3> DEFINE l == Append(k, f)
      <3>1. m \in Nat /\ Len(l) = m + 1 /\ l[m + 1] = f /\ \A i \in 1..m : l[i] = k[i]
        BY <2>3
      <3> HIDE DEF l
      <3>2. \A i \in 1..m : k[i].key # f.key
        <4>1. \A i \in 1..m : k[i] \in ToSet(s)
          BY <2>3
        <4>2. DOMAIN s = 1..n
          BY DEF n
        <4>3. \A i \in 1..n : s[i].key # f.key
          BY <2>1, <2>4
        <4> QED
          BY <4>1, <4>2, <4>3 DEF ToSet
      <3>3. \A i \in 1..(m + 1) : i = m + 1 \/ i \in 1..m
        BY <3>1
      <3> HIDE DEF m
      <3>4. \A i, j \in 1..m : k[i].key = k[j].key => i = j
        BY <2>6 DEF m
      <3>5. \A i, j \in 1..(m + 1) : l[i].key = l[j].key => i = j
        BY <3>1, <3>2, <3>3, <3>4
      <3>6. Different(l)
        BY <3>1, <3>5
      <3> QED
        BY <2>2, <2>8, <3>6 DEF l
    <2> QED
      BY <2>7, <2>8
  <1> HIDE DEF P
  <1>3. \A s \in Seq(E) : s \in P
    BY <1>1, <1>2, InductionOnSeqs
  <1>4. SUFFICES ASSUME NEW s \in Seq(E), Distinct(KeysOf(s))
                 PROVE  Distinct(KeysOf(Keep(s, S)))
    OBVIOUS
  <1>5. Different(s) /\ s \in P
    BY <1>0, <1>3, <1>4
  <1>6. Different(Keep(s, S))
    BY <1>5 DEF P
  <1>7. Keep(s, S) \in Seq(E)
    <2>1. Keep(s, S) \in Seq(E \cap S)
      BY KeepInSeq
    <2> QED
      BY <2>1
  <1> HIDE DEF Different
  <1> QED
    BY <1>0, <1>6, <1>7

-----------------------------------------------------------------------------
(* Sequences one after the other.                                          *)

(* Sequences over E, by a name because the provers unfold Seq.             *)
Lists(E) == Seq(E)

LEMMA FlattenIs ==
    ASSUME NEW E, NEW ss \in Seq(Lists(E))
    PROVE  \E g \in [0..Len(ss) -> Lists(E)] :
              /\ FlattenSeq(ss) = g[Len(ss)]
              /\ g[0] = <<>>
              /\ \A i \in 1..Len(ss) : g[i] = Chained(g[i - 1], ss[i])
  <1> DEFINE n == Len(ss)
             Ls == Lists(E)
             step == [i \in 1..n |-> [u \in Ls |-> Chained(u, ss[i])]]
             Some(g) == g = [i \in 1..n |-> IF i = 1 THEN ss[i] ELSE Chained(g[i - 1], ss[i])]
  <1>1. n \in Nat /\ \A i \in 1..n : ss[i] \in Ls
    OBVIOUS
  <1>2. \A u, v \in Ls : Chained(u, v) \in Ls
    BY DEF Chained, Lists
  <1>3. PICK none \in Ls : none = <<>>
    <2>1. <<>> \in Ls
      BY DEF Lists
    <2> QED
      BY <2>1
  <1>4. \A u \in Ls : Chained(none, u) = u
    BY <1>3 DEF Chained, Lists
  <1>5. n = 0 \/ FlattenSeq(ss) = (CHOOSE g : Some(g))[n]
    BY DEF FlattenSeq, Chained
  <1>6. n = 0 => FlattenSeq(ss) = <<>>
    BY DEF FlattenSeq
  <1> HIDE DEF n, Ls
  <1>7. step \in [1..n -> [Ls -> Ls]]
    BY <1>1, <1>2
  <1>8. PICK g \in [0..n -> Ls] : g[0] = none /\ \A i \in 1..n : g[i] = step[i][g[i - 1]]
    <2> HIDE DEF step, Some
    <2>1. \E g \in [0..n -> Ls] : GoesOn(g, n, none, step)
      BY <1>1, <1>7, StepsExist
    <2> QED
      BY <2>1 DEF GoesOn
  <1>9. \A i \in 1..n : i - 1 \in 0..n /\ i \in 0..n /\ i # 0
    BY <1>1
  <1>10. \A i \in 1..n : g[i] = Chained(g[i - 1], ss[i])
    BY <1>8, <1>9
  <1>11. CASE n = 0
    <2> HIDE DEF step, Some
    <2> QED
      BY <1>3, <1>6, <1>8, <1>10, <1>11 DEF n, Ls
  <1>12. CASE n # 0
    <2> DEFINE one(g2, i) == IF i = 1 THEN ss[i] ELSE Chained(g2[i - 1], ss[i])
               b == [i \in 1..n |-> g[i]]
    <2>1. \A i \in 1..n : i = 1 \/ i - 1 \in 1..n
      BY <1>1
    <2>2. \A i \in 1..n : b[i] = one(b, i)
      <3> SUFFICES ASSUME NEW i \in 1..n PROVE b[i] = one(b, i)
        OBVIOUS
      <3>1. b[i] = Chained(g[i - 1], ss[i])
        BY <1>10
      <3>2. CASE i = 1
        <4>1. g[i - 1] = none
          BY <1>8, <3>2
        <4> QED
          BY <1>1, <1>4, <3>1, <3>2, <4>1
      <3>3. CASE i # 1
        <4>1. i - 1 \in 1..n
          BY <2>1, <3>3
        <4>2. b[i - 1] = g[i - 1]
          BY <4>1
        <4> HIDE DEF b
        <4> QED
          BY <3>1, <3>3, <4>2
      <3> QED
        BY <3>2, <3>3
    <2>3. Some(b)
      <3>1. b = [i \in 1..n |-> b[i]]
        OBVIOUS
      <3> HIDE DEF b
      <3> QED
        BY <2>2, <3>1
    <2> DEFINE h == CHOOSE g2 : Some(g2)
    <2>4. Some(h)
      <3> HIDE DEF Some, b
      <3> QED
        BY <2>3
    <2> HIDE DEF h
    <2>5. \A i \in 1..n : h[i] = one(h, i)
      BY <2>4
    <2> DEFINE c == [i \in 0..n |-> IF i = 0 THEN none ELSE h[i]]
    <2>6. c[0] = none /\ \A i \in 1..n : c[i] = h[i]
      BY <1>1, <1>9
    <2> HIDE DEF c, b, Some, step
    <2>7. \A i \in 1..n : c[i] = Chained(c[i - 1], ss[i])
      <3> SUFFICES ASSUME NEW i \in 1..n PROVE c[i] = Chained(c[i - 1], ss[i])
        OBVIOUS
      <3>1. CASE i = 1
        <4>1. c[i - 1] = none /\ c[i] = ss[i]
          BY <2>5, <2>6, <3>1
        <4> QED
          BY <1>1, <1>4, <4>1
      <3>2. CASE i # 1
        <4>1. c[i - 1] = h[i - 1] /\ c[i] = h[i]
          BY <2>1, <2>6, <3>2
        <4> QED
          BY <2>5, <3>2, <4>1
      <3> QED
        BY <3>1, <3>2
    <2>8. \A i \in 0..n : g[i] = c[i]
      <3>1. \A i \in 1..n : g[i - 1] = c[i - 1] => g[i] = c[i]
        BY <1>10, <2>7
      <3>2. Alike(g, c, n)
        BY <1>8, <2>6, <3>1 DEF Alike
      <3> QED
        BY <1>1, <3>2, SameSteps
    <2>9. n \in 1..n /\ n \in 0..n
      BY <1>1, <1>12
    <2>10. FlattenSeq(ss) = h[n]
      BY <1>5, <1>12 DEF h, Some
    <2>11. FlattenSeq(ss) = g[n]
      BY <2>6, <2>8, <2>9, <2>10
    <2> QED
      BY <1>3, <1>8, <1>10, <2>11 DEF n, Ls
  <1> QED
    BY <1>11, <1>12

LEMMA FlattenAppend ==
    ASSUME NEW E, NEW ss \in Seq(Lists(E)), NEW s \in Lists(E)
    PROVE  /\ FlattenSeq(Append(ss, s)) = FlattenSeq(ss) \o s
           /\ FlattenSeq(ss) \in Seq(E)
  <1> DEFINE n == Len(ss)
             t == Append(ss, s)
             Ls == Lists(E)
  <1>1. n \in Nat /\ t \in Seq(Ls) /\ Len(t) = n + 1 /\ t[n + 1] = s /\ \A i \in 1..n : t[i] = ss[i]
    OBVIOUS
  <1>2. PICK g \in [0..n -> Ls] :
              /\ FlattenSeq(ss) = g[n] /\ g[0] = <<>>
              /\ \A i \in 1..n : g[i] = Chained(g[i - 1], ss[i])
    BY FlattenIs
  <1> HIDE DEF n, t
  <1>3. PICK h \in [0..(n + 1) -> Ls] :
              /\ FlattenSeq(t) = h[n + 1] /\ h[0] = <<>>
              /\ \A i \in 1..(n + 1) : h[i] = Chained(h[i - 1], t[i])
    <2>1. t \in Seq(Lists(E))
      BY <1>1
    <2>2. PICK h \in [0..Len(t) -> Lists(E)] :
              /\ FlattenSeq(t) = h[Len(t)] /\ h[0] = <<>>
              /\ \A i \in 1..Len(t) : h[i] = Chained(h[i - 1], t[i])
      BY <2>1, FlattenIs
    <2> QED
      BY <1>1, <2>2
  <1>4. \A i \in 1..n : h[i] = Chained(h[i - 1], ss[i])
    BY <1>1, <1>3
  <1> HIDE DEF Ls
  <1>5. \A i \in 0..n : g[i] = h[i]
    <2>1. \A i \in 1..n : g[i - 1] = h[i - 1] => g[i] = h[i]
      BY <1>2, <1>4
    <2>2. Alike(g, h, n)
      BY <1>2, <1>3, <2>1 DEF Alike
    <2>3. n \in Nat
      BY <1>1
    <2> QED
      BY <2>2, <2>3, SameSteps
  <1>6. n \in 0..n /\ n + 1 \in 1..(n + 1) /\ (n + 1) - 1 = n
    BY <1>1
  <1>7. h[n + 1] = Chained(h[n], s) /\ g[n] \in Ls
    BY <1>1, <1>2, <1>3, <1>6
  <1> QED
    BY <1>2, <1>3, <1>5, <1>6, <1>7 DEF t, Ls, Lists, Chained

-----------------------------------------------------------------------------
(* What is loaded.                                                         *)

AllTexts == UNION {Texts(f) : f \in Files}
AllFields == UNION {UNION {ToSet(t.presets[p].fields) : p \in DOMAIN t.presets} : t \in AllTexts}
AllNames == UNION {DOMAIN t.presets \cup UNION {ToSet(t.presets[p].extends) : p \in DOMAIN t.presets} :
                     t \in AllTexts}

(* Presets with their fields and the names of those they extend.           *)
Loaded(presets) ==
    /\ IsFiniteSet(DOMAIN presets)
    /\ DOMAIN presets \subseteq AllNames
    /\ presets = [p \in DOMAIN presets |-> Preset(presets[p].extends, presets[p].fields)]
    /\ \A p \in DOMAIN presets :
          presets[p].extends \in Lists(AllNames) /\ presets[p].fields \in Lists(AllFields)

LEMMA ListInLarger ==
    ASSUME NEW s, s \in Seq(ToSet(s)), NEW E, ToSet(s) \subseteq E
    PROVE  s \in Lists(E)
  <1> DEFINE T == ToSet(s)
  <1>1. s \in Seq(T) /\ T \subseteq E
    OBVIOUS
  <1> HIDE DEF T
  <1>2. s \in Seq(E)
    BY <1>1
  <1> QED
    BY <1>2 DEF Lists

LEMMA TextsLoaded ==
    ASSUME NEW f \in Files
    PROVE  /\ f.includes \in Seq(AllTexts) /\ f \in AllTexts
           /\ \A t \in Texts(f) : Loaded(t.presets) /\ t \in AllTexts
           /\ \A i \in 1..Len(f.includes) : f.includes[i] \in Texts(f)
  <1>1. \A t \in Texts(f) : t \in AllTexts
    BY DEF AllTexts
  <1>2. ASSUME NEW t \in Texts(f)
        PROVE  Loaded(t.presets)
    <2> DEFINE ps == t.presets
    <2>1. IsPresets(ps)
      BY FilesAssumption
    <2>2. DOMAIN ps \subseteq AllNames
      BY <1>1 DEF AllNames
    <2>3. ASSUME NEW p \in DOMAIN ps
          PROVE  ToSet(ps[p].extends) \subseteq AllNames /\ ToSet(ps[p].fields) \subseteq AllFields
      <3>1. ToSet(ps[p].extends) \subseteq UNION {ToSet(ps[q].extends) : q \in DOMAIN ps}
        OBVIOUS
      <3>2. ToSet(ps[p].fields) \subseteq UNION {ToSet(ps[q].fields) : q \in DOMAIN ps}
        OBVIOUS
      <3> QED
        BY <1>1, <3>1, <3>2 DEF AllNames, AllFields
    <2> HIDE DEF ps
    <2>4. \A p \in DOMAIN ps : ps[p].extends \in Lists(AllNames) /\ ps[p].fields \in Lists(AllFields)
      BY <2>1, <2>3, ListInLarger DEF IsPresets
    <2>5. Loaded(ps)
      BY <2>1, <2>2, <2>4 DEF Loaded, IsPresets
    <2> QED
      BY <2>5 DEF ps
  <1>3. f.includes \in Seq(AllTexts)
    <2> DEFINE T == ToSet(f.includes)
               s == f.includes
    <2>1. s \in Seq(T)
      BY FilesAssumption
    <2>2. T \subseteq AllTexts
      BY <1>1 DEF Texts
    <2> HIDE DEF T, s
    <2>3. s \in Seq(AllTexts)
      BY <2>1, <2>2
    <2> QED
      BY <2>3 DEF s
  <1>4. \A i \in 1..Len(f.includes) : f.includes[i] \in Texts(f)
    <2>1. DOMAIN f.includes = 1..Len(f.includes)
      BY <1>3
    <2> QED
      BY <2>1 DEF Texts, ToSet
  <1>5. f \in AllTexts
    BY <1>1 DEF Texts
  <1> QED
    BY <1>1, <1>2, <1>3, <1>4, <1>5

-----------------------------------------------------------------------------
(* What presets mean.                                                      *)

(* Parents that there are. *)
LEMMA ParentsInSeq ==
    ASSUME NEW presets, Loaded(presets), NEW p \in DOMAIN presets
    PROVE  /\ ParentsIn(presets, p) \in Seq(DOMAIN presets)
           /\ Unrepeated(presets[p].extends) \in Seq(AllNames)
           /\ ToSet(Unrepeated(presets[p].extends)) = ToSet(presets[p].extends)
           /\ Distinct(Unrepeated(presets[p].extends))
           /\ ToSet(presets[p].extends) \subseteq DOMAIN presets =>
                 ParentsIn(presets, p) = Unrepeated(presets[p].extends)
  <1> DEFINE e == presets[p].extends
             D == DOMAIN presets
             u == Unrepeated(e)
  <1>1. e \in Seq(AllNames)
    BY DEF Loaded, Lists
  <1> HIDE DEF e
  <1>2. u \in Seq(AllNames) /\ ToSet(u) = ToSet(e) /\ Distinct(u)
    BY <1>1, UnrepeatedKeeps
  <1> HIDE DEF D, u
  <1>3. Keep(u, D) \in Seq(AllNames \cap D)
    BY <1>2, KeepInSeq
  <1>4. Keep(u, D) \in Seq(D)
    <2> DEFINE k == Keep(u, D)
    <2> HIDE DEF k
    <2>1. k \in Seq(AllNames \cap D)
      BY <1>3 DEF k
    <2>2. k \in Seq(D)
      BY <2>1
    <2> QED
      BY <2>2 DEF k
  <1>5. ASSUME ToSet(e) \subseteq D
        PROVE  Keep(u, D) = u
    <2>1. u \in Seq(ToSet(u))
      BY <1>2, ElementsInSeq
    <2> QED
      BY <1>2, <1>5, <2>1, KeepAllOrNone
  <1> QED
    BY <1>2, <1>4, <1>5 DEF ParentsIn, e, D, u

LEMMA FlattenInSeq ==
    ASSUME NEW E, NEW ss \in Seq(Lists(E))
    PROVE  FlattenSeq(ss) \in Lists(E)
  <1>1. PICK g \in [0..Len(ss) -> Lists(E)] : FlattenSeq(ss) = g[Len(ss)]
    BY FlattenIs
  <1>2. Len(ss) \in 0..Len(ss)
    OBVIOUS
  <1> QED
    BY <1>1, <1>2

LEMMA InheritedInSeq ==
    ASSUME NEW presets, Loaded(presets), NEW p \in DOMAIN presets,
           NEW fields \in [DOMAIN presets -> Lists(AllFields)]
    PROVE  /\ Inherited(presets, p, fields) \in Lists(AllFields)
           /\ Distinct(KeysOf(Inherited(presets, p, fields)))
  <1> DEFINE D == DOMAIN presets
             parents == ParentsIn(presets, p)
             above == FlattenSeq(Mapped(parents, fields))
             own == presets[p].fields
  <1>1. parents \in Seq(D)
    BY ParentsInSeq
  <1> HIDE DEF parents
  <1>2. Mapped(parents, fields) \in Seq(Lists(AllFields))
    <2>1. DOMAIN fields = D /\ \A e \in D : fields[e] \in Lists(AllFields)
      OBVIOUS
    <2> HIDE DEF D
    <2> QED
      BY <1>1, <2>1, MappedSeq
  <1>3. above \in Lists(AllFields)
    BY <1>2, FlattenInSeq
  <1>4. own \in Lists(AllFields)
    BY DEF Loaded
  <1>5. Inherited(presets, p, fields) = Overridden(above \o own)
    BY DEF Inherited, parents
  <1> HIDE DEF above, own
  <1>6. PICK all \in Seq(AllFields) : all = above \o own
    <2>1. above \o own \in Seq(AllFields)
      BY <1>3, <1>4, ConcatProperties DEF Lists
    <2> QED
      BY <2>1
  <1>7. Overridden(all) \in Seq(AllFields) /\ Distinct(KeysOf(Overridden(all)))
    BY OverriddenIs
  <1> QED
    BY <1>5, <1>6, <1>7 DEF Lists

(* Level by level. *)
LEMMA MeaningIs ==
    ASSUME NEW presets, Loaded(presets)
    PROVE  /\ Cardinality(DOMAIN presets) \in Nat
           /\ \A d \in 0..Cardinality(DOMAIN presets) :
                 MeaningTo(presets)[d] \in [DOMAIN presets -> Lists(AllFields)]
           /\ \A d \in 1..Cardinality(DOMAIN presets) : \A p \in DOMAIN presets :
                 MeaningTo(presets)[d][p] = Inherited(presets, p, MeaningTo(presets)[d - 1])
  <1> DEFINE D == DOMAIN presets
             n == Cardinality(D)
             S == [D -> Lists(AllFields)]
             up(g) == [p \in D |-> Inherited(presets, p, g)]
             step == [d \in 1..n |-> [g \in S |-> up(g)]]
             Some(m) == m = [d \in 0..n |-> [p \in D |->
                               IF d = 0 THEN <<>> ELSE Inherited(presets, p, m[d - 1])]]
  <1>1. n \in Nat
    BY FS_CardinalityType DEF Loaded
  <1>2. \A g \in S : up(g) \in S
    BY InheritedInSeq
  <1>3. PICK base \in S : base = [p \in D |-> <<>>]
    <2>1. <<>> \in Lists(AllFields)
      BY DEF Lists
    <2> QED
      BY <2>1
  <1>4. MeaningTo(presets) = CHOOSE m : Some(m)
    BY DEF MeaningTo
  <1> HIDE DEF n, S, up
  <1>5. step \in [1..n -> [S -> S]]
    BY <1>2
  <1>6. PICK m \in [0..n -> S] : m[0] = base /\ \A d \in 1..n : m[d] = step[d][m[d - 1]]
    <2> HIDE DEF step, Some
    <2>1. \E m \in [0..n -> S] : GoesOn(m, n, base, step)
      BY <1>1, <1>5, StepsExist
    <2> QED
      BY <2>1 DEF GoesOn
  <1>7. \A d \in 1..n : d - 1 \in 0..n /\ d \in 0..n /\ d # 0
    BY <1>1
  <1>8. \A d \in 1..n : m[d] = up(m[d - 1])
    BY <1>6, <1>7
  <1>9. Some(m)
    <2> DEFINE one(g, d) == [p \in D |-> IF d = 0 THEN <<>> ELSE Inherited(presets, p, g[d - 1])]
    <2>1. \A d \in 0..n : d = 0 \/ d \in 1..n
      BY <1>1
    <2>2. one(m, 0) = base
      BY <1>3
    <2>3. \A d \in 1..n : one(m, d) = up(m[d - 1])
      BY <1>7 DEF up
    <2> HIDE DEF one, step, D
    <2>4. \A d \in 0..n : m[d] = one(m, d)
      BY <1>6, <1>8, <2>1, <2>2, <2>3
    <2>5. m = [d \in 0..n |-> m[d]]
      BY <1>6
    <2> QED
      BY <2>4, <2>5 DEF one
  <1> DEFINE h == MeaningTo(presets)
  <1>10. Some(h)
    <2> HIDE DEF Some
    <2> QED
      BY <1>4, <1>9
  <1> HIDE DEF h
  <1>11. h[0] = base
    <2>1. 0 \in 0..n
      BY <1>1
    <2>2. h[0] = [p \in D |-> IF 0 = 0 THEN <<>> ELSE Inherited(presets, p, h[0 - 1])]
      BY <1>10, <2>1
    <2> QED
      BY <1>3, <2>2
  <1>12. \A d \in 1..n : h[d] = up(h[d - 1])
    <2>1. \A d \in 1..n : h[d] = [p \in D |-> IF d = 0 THEN <<>> ELSE Inherited(presets, p, h[d - 1])]
      BY <1>7, <1>10
    <2> HIDE DEF Some
    <2> QED
      BY <1>7, <2>1 DEF up
  <1>13. \A d \in 0..n : m[d] = h[d]
    <2> HIDE DEF Some, step
    <2>1. \A d \in 1..n : m[d - 1] = h[d - 1] => m[d] = h[d]
      BY <1>8, <1>12
    <2>2. Alike(m, h, n)
      BY <1>6, <1>11, <2>1 DEF Alike
    <2> QED
      BY <1>1, <2>2, SameSteps
  <1>14. \A d \in 0..n : h[d] \in S
    BY <1>6, <1>13
  <1>15. \A d \in 1..n : \A p \in D : h[d][p] = Inherited(presets, p, h[d - 1])
    BY <1>12 DEF up
  <1> HIDE DEF Some, step
  <1> QED
    BY <1>1, <1>14, <1>15 DEF n, S, h

-----------------------------------------------------------------------------
(* Calls of dfs.                                                           *)

LEMMA MergeInSeq ==
    ASSUME NEW E, NEW d \in Lists(E), NEW s \in Lists(E)
    PROVE  mergeFields(d, s) \in Lists(E)
  <1>1. PICK g \in [0..Len(s) -> Seq(E)] : mergeFields(d, s) = g[Len(s)]
    BY MergeIs DEF Lists
  <1>2. Len(s) \in 0..Len(s)
    BY DEF Lists
  <1> QED
    BY <1>1, <1>2 DEF Lists

(* The last element and those before it. *)
LEMMA FrontAndLast ==
    ASSUME NEW S, NEW s \in Seq(S), s # <<>>
    PROVE  /\ Len(s) \in Nat /\ Len(s) >= 1
           /\ Last(s) = s[Len(s)] /\ Last(s) \in S
           /\ Front(s) \in Seq(S) /\ Len(Front(s)) = Len(s) - 1
           /\ \A i \in 1..(Len(s) - 1) : Front(s)[i] = s[i]
  <1>1. Len(s) \in Nat /\ Len(s) >= 1 /\ Len(s) \in 1..Len(s)
    OBVIOUS
  <1>2. Last(s) = s[Len(s)] /\ Last(s) \in S
    BY <1>1 DEF Last
  <1> DEFINE m == Len(s) - 1
  <1>3. Front(s) = SubSeq(s, 1, m) /\ m \in 0..Len(s)
    BY <1>1 DEF Front
  <1> HIDE DEF m
  <1>4. SubSeq(s, 1, m) \in Seq(S) /\ Len(SubSeq(s, 1, m)) = m /\ \A i \in 1..m : SubSeq(s, 1, m)[i] = s[i]
    BY <1>3
  <1> QED
    BY <1>1, <1>2, <1>3, <1>4 DEF m

Frames == [name : AllNames, parent : Nat, result : Lists(AllFields)]

(* The presets that are resolved, before their inheritance is.              *)
Base == IF More THEN Included.presets ELSE model.presets

ParentNames(w, p) == Unrepeated(w[p].extends)

(* A call has merged parents that are resolved; its own preset is not.     *)
FrameRight(fr, w, c) ==
    /\ fr.name \in DOMAIN w \ c
    /\ fr.parent \in 1..(Len(ParentNames(w, fr.name)) + 1)
    /\ \A j \in 1..(fr.parent - 1) : ParentNames(w, fr.name)[j] \in c

(* One call is for a parent of the preset of the call before it.           *)
Calls(fr, below, w) ==
    /\ fr.parent <= Len(ParentNames(w, fr.name))
    /\ ParentNames(w, fr.name)[fr.parent] = below.name

StackRight(s, w, c) ==
    /\ \A i \in 1..Len(s) : FrameRight(s[i], w, c)
    /\ \A i \in 1..(Len(s) - 1) : Calls(s[i], s[i + 1], w)
    /\ \A i, j \in 1..Len(s) : s[i].name = s[j].name => i = j

WorkRight ==
    /\ Loaded(work)
    /\ cache \subseteq DOMAIN work
    /\ \A p \in cache : ToSet(work[p].extends) \subseteq cache
    /\ StackRight(stack, work, cache)

LoadingInv ==
    /\ file \in Files
    /\ next \in 1..(Len(file.includes) + 1)
    /\ phase \in {"read", "include", "resolve"}
    /\ phase = "read" => next = 1
    /\ model = [relations |-> model.relations, presets |-> model.presets]
    /\ Loaded(model.presets)
    /\ stack \in Seq(Frames)
    /\ phase # "resolve" => stack = <<>>
    /\ phase = "resolve" => WorkRight

LEMMA LoadingStarts ==
    ASSUME Init
    PROVE  LoadingInv
  <1>1. Loaded(file.presets) /\ file \in Files /\ Len(file.includes) \in Nat
    BY TextsLoaded DEF Init, Texts
  <1>2. <<>> \in Seq(Frames)
    OBVIOUS
  <1> QED
    BY <1>1, <1>2 DEF Init, LoadingInv

(* What resolving starts from. *)
LEMMA ResolvingStarts ==
    ASSUME LoadingInv, NEW presets, Loaded(presets), StartResolving(presets), phase # "resolve"
    PROVE  LoadingInv'
  <1>1. stack' = <<>> /\ work' = presets /\ cache' = {}
    BY DEF StartResolving, LoadingInv
  <1>2. StackRight(<<>>, presets, {})
    BY DEF StackRight
  <1>3. WorkRight'
    BY <1>1, <1>2 DEF WorkRight
  <1> QED
    BY <1>1, <1>3 DEF StartResolving, LoadingInv

(* A new call is for a preset that no running call is for. *)
LEMMA CallRight ==
    ASSUME LoadingInv, phase = "resolve", NEW name \in DOMAIN work \ cache, name \notin Names(stack),
           stack # <<>> => HasParentLeft /\ NextParent = name,
           Call(name)
    PROVE  LoadingInv'
  <1> DEFINE n == Len(stack)
             t == Append(stack, Frame(name))
             fr == Frame(name)
  <1>1. WorkRight /\ stack \in Seq(Frames)
    BY DEF LoadingInv
  <1>2. fr \in Frames /\ fr.name = name /\ fr.parent = 1
    <2>1. name \in AllNames /\ <<>> \in Lists(AllFields)
      BY <1>1 DEF WorkRight, Loaded, Lists
    <2> QED
      BY <2>1 DEF Frame, Frames
  <1> HIDE DEF fr
  <1>3. n \in Nat /\ t \in Seq(Frames) /\ Len(t) = n + 1 /\ t[n + 1] = fr /\ \A i \in 1..n : t[i] = stack[i]
    BY <1>1, <1>2 DEF fr
  <1>4. stack' = t
    BY DEF Call
  <1> HIDE DEF t, n
  <1>5. \A i \in 1..(n + 1) : i = n + 1 \/ i \in 1..n
    BY <1>3
  <1>6. FrameRight(fr, work, cache)
    <2>1. Len(ParentNames(work, name)) \in Nat
      BY <1>1, ParentsInSeq DEF ParentNames, WorkRight
    <2> QED
      BY <1>2, <2>1 DEF FrameRight
  <1>7. StackRight(t, work, cache)
    <2>1. \A i \in 1..n : FrameRight(stack[i], work, cache)
      BY <1>1 DEF WorkRight, StackRight, n
    <2>2. \A i \in 1..(n + 1) : FrameRight(t[i], work, cache)
      BY <1>3, <1>5, <1>6, <2>1
    <2>3. \A i \in 1..n : Calls(t[i], t[i + 1], work)
      <3> SUFFICES ASSUME NEW i \in 1..n PROVE Calls(t[i], t[i + 1], work)
        OBVIOUS
      <3>1. CASE i = n
        <4>1. stack # <<>>
          BY <3>1 DEF n
        <4>2. Top = stack[n]
          BY <1>1, <4>1, FrontAndLast DEF Top, n
        <4>3. HasParentLeft /\ NextParent = name
          BY <4>1
        <4>4. t[i] = Top /\ t[i + 1] = fr
          BY <1>3, <3>1, <4>2
        <4> QED
          BY <1>2, <4>3, <4>4 DEF Calls, HasParentLeft, NextParent, Parents, parseParents, ParentNames
      <3>2. CASE i # n
        <4>1. i \in 1..(n - 1) /\ i + 1 \in 1..n
          BY <1>3, <3>2
        <4>2. Calls(stack[i], stack[i + 1], work)
          BY <1>1, <4>1 DEF WorkRight, StackRight, n
        <4> QED
          BY <1>3, <4>1, <4>2
      <3> QED
        BY <3>1, <3>2
    <2>4. \A i, j \in 1..(n + 1) : t[i].name = t[j].name => i = j
      <3>1. \A i \in 1..n : stack[i].name # name
        <4>1. DOMAIN stack = 1..n
          BY <1>1 DEF n
        <4> QED
          BY <4>1 DEF Names
      <3>2. \A i, j \in 1..n : stack[i].name = stack[j].name => i = j
        BY <1>1 DEF WorkRight, StackRight, n
      <3> QED
        BY <1>2, <1>3, <1>5, <3>1, <3>2
    <2> QED
      BY <1>3, <2>2, <2>3, <2>4 DEF StackRight
  <1>8. work' = work /\ cache' = cache /\ UNCHANGED <<file, phase, next, model>>
    BY DEF Call
  <1>9. WorkRight'
    BY <1>1, <1>4, <1>7, <1>8 DEF WorkRight
  <1> QED
    BY <1>3, <1>4, <1>8, <1>9 DEF LoadingInv

LEMMA FrameGoesOn ==
    ASSUME NEW fr \in Frames, NEW fields
    PROVE  [fr EXCEPT !.parent = @ + 1, !.result = mergeFields(@, fields)] =
             [name |-> fr.name, parent |-> fr.parent + 1, result |-> mergeFields(fr.result, fields)]
  <1> DEFINE x == fr.parent + 1
             m == mergeFields(fr.result, fields)
             q == [fr EXCEPT !.parent = x, !.result = m]
  <1>1. DOMAIN fr = {"name", "parent", "result"}
    BY DEF Frames
  <1> HIDE DEF x, m
  <1>2. DOMAIN q = {"name", "parent", "result"} /\ q.name = fr.name /\ q.parent = x /\ q.result = m
    BY <1>1
  <1>3. q = [i \in {"name", "parent", "result"} |-> q[i]]
    BY <1>1
  <1> HIDE DEF q
  <1>4. q = [name |-> fr.name, parent |-> x, result |-> m]
    BY <1>2, <1>3
  <1> QED
    BY <1>4 DEF q, x, m

LEMMA MergeParentStep ==
    ASSUME LoadingInv, MergeParent
    PROVE  LoadingInv'
  <1> DEFINE n == Len(stack)
             fields == work[NextParent].fields
             fr == [Top EXCEPT !.parent = @ + 1, !.result = mergeFields(@, fields)]
             t == Append(Below, fr)
             names == ParentNames(work, Top.name)
  <1>1. phase = "resolve" /\ stack # <<>> /\ HasParentLeft /\ NextParent \in cache
        /\ stack' = t /\ UNCHANGED <<file, phase, next, model, work, cache>>
    BY DEF MergeParent, Loading
  <1>2. WorkRight /\ stack \in Seq(Frames)
    BY <1>1 DEF LoadingInv
  <1>3. n \in Nat /\ n >= 1 /\ Top = stack[n] /\ Top \in Frames /\ Below \in Seq(Frames)
        /\ Len(Below) = n - 1 /\ \A i \in 1..(n - 1) : Below[i] = stack[i]
    BY <1>1, <1>2, FrontAndLast DEF Top, Below
  <1>4. Top.name \in AllNames /\ Top.parent \in Nat /\ Top.result \in Lists(AllFields)
        /\ Top = [name |-> Top.name, parent |-> Top.parent, result |-> Top.result]
    BY <1>3 DEF Frames
  <1>5. fields \in Lists(AllFields)
    <2>1. NextParent \in DOMAIN work
      BY <1>1, <1>2 DEF WorkRight
    <2> QED
      BY <1>2, <2>1 DEF WorkRight, Loaded
  <1>6. fr \in Frames /\ fr.name = Top.name /\ fr.parent = Top.parent + 1
    <2>1. mergeFields(Top.result, fields) \in Lists(AllFields)
      BY <1>4, <1>5, MergeInSeq
    <2> HIDE DEF fields
    <2>2. fr = [name |-> Top.name, parent |-> Top.parent + 1, result |-> mergeFields(Top.result, fields)]
      BY <1>3, FrameGoesOn
    <2>3. Top.parent + 1 \in Nat
      BY <1>4
    <2> QED
      BY <1>4, <2>1, <2>2, <2>3 DEF Frames
  <1> HIDE DEF fr, fields
  <1>7. t \in Seq(Frames) /\ Len(t) = n /\ t[n] = fr /\ \A i \in 1..(n - 1) : t[i] = stack[i]
    <2>1. t \in Seq(Frames) /\ Len(t) = Len(Below) + 1 /\ t[Len(Below) + 1] = fr
          /\ \A i \in 1..Len(Below) : t[i] = Below[i]
      BY <1>3, <1>6, AppendProperties
    <2> HIDE DEF t
    <2> QED
      BY <1>3, <2>1
  <1> HIDE DEF t
  <1>8. StackRight(stack, work, cache)
    BY <1>2 DEF WorkRight
  <1>9. FrameRight(stack[n], work, cache)
    BY <1>3, <1>8 DEF StackRight
  <1>10. Len(names) \in Nat
    BY <1>2, <1>3, <1>9, ParentsInSeq DEF ParentNames, WorkRight, FrameRight
  <1>11. Top.parent <= Len(names) /\ names[Top.parent] \in cache
    BY <1>1 DEF HasParentLeft, NextParent, Parents, parseParents, ParentNames
  <1> HIDE DEF names
  <1>12. FrameRight(fr, work, cache)
    <2>1. Top.parent \in 1..(Len(names) + 1) /\ \A j \in 1..(Top.parent - 1) : names[j] \in cache
      BY <1>3, <1>9 DEF FrameRight, names
    <2>2. \A j \in 1..((Top.parent + 1) - 1) : j = Top.parent \/ j \in 1..(Top.parent - 1)
      BY <1>4
    <2>3. \A j \in 1..((Top.parent + 1) - 1) : names[j] \in cache
      BY <1>11, <2>1, <2>2
    <2>4. Top.parent + 1 \in 1..(Len(names) + 1)
      BY <1>10, <1>11, <2>1
    <2> QED
      BY <1>3, <1>6, <1>9, <2>3, <2>4 DEF FrameRight, names
  <1>13. StackRight(t, work, cache)
    <2>1. \A i \in 1..n : i = n \/ i \in 1..(n - 1)
      BY <1>3
    <2>2. \A i \in 1..n : t[i].name = stack[i].name
      BY <1>3, <1>6, <1>7, <2>1
    <2>3. \A i \in 1..n : FrameRight(t[i], work, cache)
      BY <1>7, <1>8, <1>12, <2>1 DEF StackRight, n
    <2>4. \A i \in 1..(n - 1) : Calls(t[i], t[i + 1], work)
      <3> SUFFICES ASSUME NEW i \in 1..(n - 1) PROVE Calls(t[i], t[i + 1], work)
        OBVIOUS
      <3>1. Calls(stack[i], stack[i + 1], work)
        BY <1>8 DEF StackRight, n
      <3>2. i + 1 \in 1..n
        BY <1>3
      <3> QED
        BY <1>7, <2>2, <3>1, <3>2 DEF Calls
    <2>5. \A i, j \in 1..n : t[i].name = t[j].name => i = j
      BY <1>8, <2>2 DEF StackRight, n
    <2> QED
      BY <1>7, <2>3, <2>4, <2>5 DEF StackRight
  <1>14. WorkRight'
    BY <1>1, <1>2, <1>13 DEF WorkRight
  <1> QED
    BY <1>1, <1>7, <1>14 DEF LoadingInv

LEMMA LeaveStep ==
    ASSUME LoadingInv, Leave
    PROVE  LoadingInv'
  <1> DEFINE n == Len(stack)
             p == Top.name
             own == work[p].fields
             merged == mergeFields(Top.result, own)
             w == [work EXCEPT ![p].fields = mergeFields(Top.result, @)]
             c == cache \cup {p}
  <1>1. phase = "resolve" /\ stack # <<>> /\ ~HasParentLeft
        /\ stack' = Below /\ work' = w /\ cache' = c /\ UNCHANGED <<file, phase, next, model>>
    BY DEF Leave, Loading, Cached
  <1>2. WorkRight /\ stack \in Seq(Frames)
    BY <1>1 DEF LoadingInv
  <1>3. n \in Nat /\ n >= 1 /\ Top = stack[n] /\ Top \in Frames /\ Below \in Seq(Frames)
        /\ Len(Below) = n - 1 /\ \A i \in 1..(n - 1) : Below[i] = stack[i]
    BY <1>1, <1>2, FrontAndLast DEF Top, Below
  <1>4. StackRight(stack, work, cache) /\ Loaded(work) /\ cache \subseteq DOMAIN work
        /\ \A q \in cache : ToSet(work[q].extends) \subseteq cache
    BY <1>2 DEF WorkRight
  <1>5. FrameRight(Top, work, cache)
    BY <1>3, <1>4 DEF StackRight
  <1>6. p \in DOMAIN work /\ p \notin cache
    BY <1>5 DEF FrameRight
  <1>7. merged \in Lists(AllFields)
    <2>1. Top.result \in Lists(AllFields)
      BY <1>3 DEF Frames
    <2>2. own \in Lists(AllFields)
      BY <1>4, <1>6 DEF Loaded
    <2> HIDE DEF own
    <2> QED
      BY <2>1, <2>2, MergeInSeq
  <1>8. /\ DOMAIN w = DOMAIN work
        /\ \A q \in DOMAIN work : w[q] = Preset(work[q].extends, IF q = p THEN merged ELSE work[q].fields)
    <2>1. \A q \in DOMAIN work : work[q] = Preset(work[q].extends, work[q].fields)
      BY <1>4 DEF Loaded
    <2>2. [work[p] EXCEPT !.fields = mergeFields(Top.result, @)] = Preset(work[p].extends, merged)
      BY <1>6, <2>1 DEF Preset
    <2>3. \A q \in DOMAIN work : w[q] = IF q = p THEN [work[p] EXCEPT !.fields = mergeFields(Top.result, @)]
                                                 ELSE work[q]
      BY <1>6
    <2> HIDE DEF w, merged, p
    <2>4. DOMAIN w = DOMAIN work
      BY DEF w
    <2> QED
      BY <2>1, <2>2, <2>3, <2>4
  <1>9. w = [q \in DOMAIN w |-> w[q]]
    OBVIOUS
  <1> HIDE DEF w, merged, own
  <1>10. \A q \in DOMAIN work : w[q].extends = work[q].extends
         /\ w[q].fields = (IF q = p THEN merged ELSE work[q].fields)
    BY <1>8 DEF Preset
  <1>11. Loaded(w)
    <2>1. \A q \in DOMAIN w : w[q] = Preset(w[q].extends, w[q].fields)
      BY <1>8, <1>10
    <2>2. w = [q \in DOMAIN w |-> Preset(w[q].extends, w[q].fields)]
      BY <1>9, <2>1
    <2>3. \A q \in DOMAIN w : w[q].extends \in Lists(AllNames) /\ w[q].fields \in Lists(AllFields)
      BY <1>4, <1>7, <1>8, <1>10 DEF Loaded
    <2> QED
      BY <1>4, <1>8, <2>2, <2>3 DEF Loaded
  <1>12. \A q \in DOMAIN work : ParentNames(w, q) = ParentNames(work, q)
    BY <1>10 DEF ParentNames
  <1>13. \A q \in c : ToSet(w[q].extends) \subseteq c
    <2>1. ToSet(work[p].extends) \subseteq cache
      <3> DEFINE names == ParentNames(work, p)
      <3>1. names \in Seq(AllNames) /\ ToSet(names) = ToSet(work[p].extends)
        BY <1>4, <1>6, ParentsInSeq DEF ParentNames
      <3>2. Top.parent \in 1..(Len(names) + 1) /\ \A j \in 1..(Top.parent - 1) : names[j] \in cache
        BY <1>5 DEF FrameRight
      <3>3. ~(Top.parent <= Len(names))
        BY <1>1 DEF HasParentLeft, Parents, parseParents, ParentNames
      <3> HIDE DEF names
      <3>4. Top.parent - 1 = Len(names) /\ DOMAIN names = 1..Len(names)
        BY <3>1, <3>2, <3>3
      <3>5. \A j \in DOMAIN names : names[j] \in cache
        BY <3>2, <3>4
      <3> QED
        BY <3>1, <3>5 DEF ToSet
    <2> QED
      BY <1>4, <1>6, <1>10, <2>1
  <1>14. StackRight(Below, w, c)
    <2>1. \A i \in 1..(n - 1) : i \in 1..n /\ i # n /\ n \in 1..n
      BY <1>3
    <2>2. \A i \in 1..(n - 1) : FrameRight(stack[i], work, cache) /\ stack[i].name # p
      BY <1>3, <1>4, <2>1 DEF StackRight, n
    <2>3. \A i \in 1..(n - 1) : FrameRight(stack[i], w, c)
      BY <1>6, <1>8, <1>12, <2>2 DEF FrameRight
    <2>4. \A i \in 1..((n - 1) - 1) : i \in 1..(n - 1) /\ i + 1 \in 1..(n - 1)
      BY <1>3
    <2>5. \A i \in 1..((n - 1) - 1) : Calls(stack[i], stack[i + 1], w)
      BY <1>4, <1>12, <2>2, <2>4 DEF StackRight, Calls, FrameRight, n
    <2>6. \A i, j \in 1..(n - 1) : stack[i].name = stack[j].name => i = j
      BY <1>4, <2>1 DEF StackRight, n
    <2> QED
      BY <1>3, <2>3, <2>4, <2>5, <2>6 DEF StackRight
  <1>15. c \subseteq DOMAIN w
    BY <1>4, <1>6, <1>8
  <1>16. WorkRight'
    BY <1>1, <1>11, <1>13, <1>14, <1>15 DEF WorkRight
  <1> QED
    BY <1>1, <1>3, <1>16 DEF LoadingInv

LEMMA NoSkipInSeq ==
    ASSUME NEW E, NEW s \in Lists(E)
    PROVE  NoSkip(s) \in Lists(E)
  <1> DEFINE S == {f \in ToSet(s) : f.key # "skip"}
             k == Keep(s, S)
  <1>1. s \in Seq(E) /\ NoSkip(s) = k
    BY DEF Lists, NoSkip
  <1> HIDE DEF S
  <1>2. k \in Seq(E \cap S)
    BY <1>1, KeepInSeq
  <1> HIDE DEF k
  <1>3. k \in Seq(E)
    BY <1>2
  <1> QED
    BY <1>1, <1>3 DEF Lists

(* The presets of a template among those of the model. *)
LEMMA MergedPresets ==
    ASSUME NEW m, Loaded(m.presets), NEW relations, NEW presets, Loaded(presets)
    PROVE  LET both == MergeTemplate(m, relations, presets).presets
           IN  /\ Loaded(both)
               /\ DOMAIN both = DOMAIN m.presets \cup DOMAIN presets
               /\ \A p \in DOMAIN both : both[p] =
                     IF p \notin DOMAIN presets THEN m.presets[p]
                     ELSE IF p \notin DOMAIN m.presets THEN presets[p]
                     ELSE Preset(m.presets[p].extends,
                                 mergeFields(NoSkip(presets[p].fields), NoSkip(m.presets[p].fields)))
  <1> DEFINE D == DOMAIN m.presets \cup DOMAIN presets
             merged(p) == mergeFields(NoSkip(presets[p].fields), NoSkip(m.presets[p].fields))
             one(p) == IF p \notin DOMAIN presets THEN m.presets[p]
                       ELSE IF p \notin DOMAIN m.presets THEN presets[p]
                       ELSE Preset(m.presets[p].extends, merged(p))
             both == MergeTemplate(m, relations, presets).presets
  <1>1. ASSUME NEW p \in DOMAIN m.presets, p \in DOMAIN presets
        PROVE  /\ merged(p) \in Lists(AllFields)
               /\ [m.presets[p] EXCEPT !.fields = mergeFields(NoSkip(presets[p].fields), NoSkip(@))]
                     = Preset(m.presets[p].extends, merged(p))
    <2>1. m.presets[p].fields \in Lists(AllFields) /\ presets[p].fields \in Lists(AllFields)
      BY <1>1 DEF Loaded
    <2>2. merged(p) \in Lists(AllFields)
      BY <2>1, NoSkipInSeq, MergeInSeq
    <2>3. m.presets[p] = Preset(m.presets[p].extends, m.presets[p].fields)
      BY DEF Loaded
    <2>4. [m.presets[p] EXCEPT !.fields = merged(p)] = Preset(m.presets[p].extends, merged(p))
      <3> HIDE DEF merged
      <3> QED
        BY <2>3 DEF Preset
    <2> QED
      BY <2>2, <2>4
  <1>2. both = [p \in D |->
                  CASE p \notin DOMAIN presets   -> m.presets[p]
                    [] p \notin DOMAIN m.presets -> presets[p]
                    [] OTHER -> [m.presets[p] EXCEPT
                                  !.fields = mergeFields(NoSkip(presets[p].fields), NoSkip(@))]]
    BY DEF MergeTemplate
  <1>3. \A p \in D : both[p] = one(p)
    BY <1>1, <1>2
  <1>4. DOMAIN both = D /\ both = [p \in D |-> both[p]]
    BY <1>2
  <1> HIDE DEF both
  <1>5. \A p \in D :
           /\ both[p] = Preset(both[p].extends, both[p].fields)
           /\ both[p].extends \in Lists(AllNames)
           /\ both[p].fields \in Lists(AllFields)
    <2> SUFFICES ASSUME NEW p \in D
                 PROVE  /\ one(p) = Preset(one(p).extends, one(p).fields)
                        /\ one(p).extends \in Lists(AllNames)
                        /\ one(p).fields \in Lists(AllFields)
      BY <1>3
    <2>1. CASE p \notin DOMAIN presets
      <3>1. one(p) = m.presets[p] /\ p \in DOMAIN m.presets
        BY <2>1
      <3> QED
        BY <3>1 DEF Loaded
    <2>2. CASE p \in DOMAIN presets /\ p \notin DOMAIN m.presets
      <3>1. one(p) = presets[p]
        BY <2>2
      <3> QED
        BY <2>2, <3>1 DEF Loaded
    <2>3. CASE p \in DOMAIN presets /\ p \in DOMAIN m.presets
      <3>1. one(p) = Preset(m.presets[p].extends, merged(p)) /\ merged(p) \in Lists(AllFields)
        BY <1>1, <2>3
      <3>2. m.presets[p].extends \in Lists(AllNames)
        BY <2>3 DEF Loaded
      <3> HIDE DEF one, merged
      <3>3. one(p).extends = m.presets[p].extends /\ one(p).fields = merged(p)
        BY <3>1 DEF Preset
      <3> QED
        BY <3>1, <3>2, <3>3
    <2> QED
      BY <2>1, <2>2, <2>3
  <1>6. IsFiniteSet(D) /\ D \subseteq AllNames
    BY FS_Union DEF Loaded
  <1> HIDE DEF D
  <1>7. both = [p \in D |-> Preset(both[p].extends, both[p].fields)]
    BY <1>4, <1>5
  <1>8. Loaded(both)
    BY <1>4, <1>5, <1>6, <1>7 DEF Loaded
  <1> QED
    BY <1>3, <1>4, <1>8 DEF both, D

LEMMA IncludedText ==
    ASSUME LoadingInv, More
    PROVE  Included \in Texts(file) /\ Loaded(Included.presets) /\ next \in 1..Len(file.includes)
  <1>1. file \in Files /\ next \in 1..(Len(file.includes) + 1)
    BY DEF LoadingInv
  <1>2. Len(file.includes) \in Nat
    BY <1>1, TextsLoaded
  <1>3. next \in 1..Len(file.includes)
    BY <1>1, <1>2 DEF More
  <1> QED
    BY <1>1, <1>3, TextsLoaded DEF Included

LEMMA IncludeTemplateStep ==
    ASSUME LoadingInv, IncludeTemplate
    PROVE  LoadingInv'
  <1>1. phase = "resolve" /\ stack = <<>> /\ More /\ phase' = "include" /\ next' = next + 1
        /\ model' = MergeTemplate(model, Included.relations, work)
        /\ UNCHANGED <<file, status, work, cache, stack>>
    BY DEF IncludeTemplate, Resolved, Loading
  <1>2. Loaded(work) /\ Loaded(model.presets)
    BY <1>1 DEF LoadingInv, WorkRight
  <1>3. Loaded(MergeTemplate(model, Included.relations, work).presets)
    <2> DEFINE both == MergeTemplate(model, Included.relations, work).presets
    <2>1. Loaded(both)
      BY <1>2, MergedPresets
    <2> QED
      BY <2>1
  <1>5. model' = [relations |-> model'.relations, presets |-> model'.presets]
    <2>1. PICK r, ps : model' = [relations |-> r, presets |-> ps]
      BY <1>1 DEF MergeTemplate
    <2> QED
      BY <2>1
  <1>4. next' \in 1..(Len(file.includes) + 1)
    <2>1. next \in 1..Len(file.includes) /\ Len(file.includes) \in Nat
      BY <1>1, IncludedText, TextsLoaded DEF LoadingInv
    <2> QED
      BY <1>1, <2>1
  <1> QED
    BY <1>1, <1>3, <1>4, <1>5 DEF LoadingInv

LEMMA RegisterStep ==
    ASSUME LoadingInv, Register
    PROVE  LoadingInv'
  <1>1. phase = "resolve" /\ model' = [model EXCEPT !.presets = work]
        /\ UNCHANGED <<file, phase, next, work, cache, stack>>
    BY DEF Register, Resolved, Loading
  <1>2. WorkRight'
    BY <1>1 DEF LoadingInv, WorkRight
  <1>3. model' = [relations |-> model.relations, presets |-> work]
    BY <1>1 DEF LoadingInv
  <1>4. Loaded(model'.presets) /\ model' = [relations |-> model'.relations, presets |-> model'.presets]
    BY <1>1, <1>3 DEF LoadingInv, WorkRight
  <1> QED
    BY <1>1, <1>2, <1>4 DEF LoadingInv

(* An error stops where the loader is. *)
LEMMA FailStep ==
    ASSUME LoadingInv, UNCHANGED <<file, phase, next, model, work, cache, stack>>
    PROVE  LoadingInv'
  <1>1. phase = "resolve" => WorkRight'
    BY DEF LoadingInv, WorkRight
  <1> QED
    BY <1>1 DEF LoadingInv

LEMMA ReadFileStep ==
    ASSUME LoadingInv, ReadFile
    PROVE  LoadingInv'
  <1>1. CASE phase' = "include" /\ UNCHANGED <<file, status, next, model, work, cache, stack>>
    BY <1>1 DEF LoadingInv, ReadFile, Loading
  <1>2. CASE Fail("invalid")
    BY <1>2, FailStep DEF Fail
  <1> QED
    BY <1>1, <1>2 DEF ReadFile

LEMMA ReadTemplateStep ==
    ASSUME LoadingInv, ReadTemplate
    PROVE  LoadingInv'
  <1>1. phase = "include" /\ More
    BY DEF ReadTemplate, Loading
  <1>2. CASE Fail("unreadable") \/ Fail("invalid")
    BY <1>2, FailStep DEF Fail
  <1>3. CASE StartResolving(Included.presets)
    BY <1>1, <1>3, IncludedText, ResolvingStarts
  <1> QED
    BY <1>2, <1>3 DEF ReadTemplate

LEMMA AllIncludedStep ==
    ASSUME LoadingInv, AllIncluded
    PROVE  LoadingInv'
  <1>1. phase = "include" /\ StartResolving(model.presets) /\ Loaded(model.presets)
    BY DEF AllIncluded, Loading, LoadingInv
  <1> QED
    BY <1>1, ResolvingStarts

LEMMA PickStep ==
    ASSUME LoadingInv, Pick
    PROVE  LoadingInv'
  <1>1. PICK name \in DOMAIN work \ cache : Call(name)
    BY DEF Pick
  <1>2. phase = "resolve" /\ stack = <<>> /\ name \notin Names(stack)
    BY DEF Pick, Loading, Names
  <1> QED
    BY <1>1, <1>2, CallRight

LEMMA DescendStep ==
    ASSUME LoadingInv, Descend
    PROVE  LoadingInv'
  <1>1. phase = "resolve" /\ stack # <<>> /\ HasParentLeft /\ NextParent \notin cache
    BY DEF Descend, Loading
  <1>2. CASE Fail("cycle") \/ Fail("missing")
    BY <1>2, FailStep DEF Fail
  <1>3. CASE ~OnStack(NextParent) /\ NextParent \in DOMAIN work /\ Call(NextParent)
    BY <1>1, <1>3, CallRight DEF OnStack
  <1> QED
    BY <1>2, <1>3 DEF Descend

LEMMA LoadingKept ==
    ASSUME LoadingInv, [Next]_vars
    PROVE  LoadingInv'
  <1>1. CASE ReadFile
    BY <1>1, ReadFileStep
  <1>2. CASE ReadTemplate
    BY <1>2, ReadTemplateStep
  <1>3. CASE AllIncluded
    BY <1>3, AllIncludedStep
  <1>4. CASE Pick
    BY <1>4, PickStep
  <1>5. CASE Descend
    BY <1>5, DescendStep
  <1>6. CASE MergeParent
    BY <1>6, MergeParentStep
  <1>7. CASE Leave
    BY <1>7, LeaveStep
  <1>8. CASE IncludeTemplate
    BY <1>8, IncludeTemplateStep
  <1>9. CASE Register
    BY <1>9, RegisterStep
  <1>10. CASE UNCHANGED vars
    BY <1>10, FailStep DEF vars
  <1> QED
    BY <1>1, <1>2, <1>3, <1>4, <1>5, <1>6, <1>7, <1>8, <1>9, <1>10 DEF Next

LEMMA AlwaysLoading == Spec => []LoadingInv
  <1>1. Init => LoadingInv
    BY LoadingStarts
  <1>2. LoadingInv /\ [Next]_vars => LoadingInv'
    BY LoadingKept
  <1> QED
    BY <1>1, <1>2, PTL DEF Spec

(* Whatever the presets extend and in whatever order they are taken, no     *)
(* call of dfs is for a preset that a running call is for or that is        *)
(* resolved.  (resolvePresetInheritance)                                    *)
THEOREM PresetsNeverTwice == Spec => []NoPresetTwice
  <1>1. LoadingInv => NoPresetTwice
    <2> SUFFICES ASSUME LoadingInv PROVE NoPresetTwice
      OBVIOUS
    <2>1. CASE stack = <<>>
      BY <2>1 DEF NoPresetTwice, Names
    <2>2. CASE stack # <<>>
      <3>1. WorkRight /\ DOMAIN stack = 1..Len(stack)
        BY <2>2 DEF LoadingInv
      <3>2. \A i, j \in DOMAIN stack : stack[i].name = stack[j].name => i = j
        BY <3>1 DEF WorkRight, StackRight
      <3>3. \A i \in DOMAIN stack : stack[i].name \notin cache
        BY <3>1 DEF WorkRight, StackRight, FrameRight
      <3> QED
        BY <3>2, <3>3 DEF NoPresetTwice, Names
    <2> QED
      BY <2>1, <2>2
  <1> QED
    BY <1>1, AlwaysLoading, PTL

-----------------------------------------------------------------------------
(* Relations.                                                              *)

(* The file and its first n templates, and what they say of an attribute.  *)
Sources(f, n) == <<f>> \o SubSeq(f.includes, 1, n)
Said(f, s, r, a) ==
    LET sources == Keep(s, Giving(f, r, a))
    IN  IF sources = <<>> THEN "" ELSE sources[1].relations[r][a]

LEMMA SourcesGrow ==
    ASSUME NEW f \in Files, NEW n \in 0..Len(f.includes)
    PROVE  /\ Sources(f, n) \in Seq(Texts(f))
           /\ n < Len(f.includes) => Sources(f, n + 1) = Append(Sources(f, n), f.includes[n + 1])
           /\ Sources(f, 0) = <<f>>
           /\ Sources(f, Len(f.includes)) = <<f>> \o f.includes
  <1> DEFINE T == Texts(f)
             s == f.includes
  <1>1. Len(s) \in Nat /\ \A i \in 1..Len(s) : s[i] \in T
    BY TextsLoaded
  <1>2. s \in Seq(T)
    <2>1. s \in Seq(AllTexts)
      BY TextsLoaded
    <2> HIDE DEF s, T
    <2> QED
      BY <1>1, <2>1
  <1>3. <<f>> \in Seq(T)
    BY DEF Texts
  <1> HIDE DEF s, T
  <1>4. \A m \in 0..Len(s) : SubSeq(s, 1, m) \in Seq(T)
    BY <1>1, <1>2
  <1>5. Sources(f, n) \in Seq(T)
    BY <1>1, <1>3, <1>4, ConcatProperties DEF Sources, s
  <1>6. ASSUME n < Len(s)
        PROVE  Sources(f, n + 1) = Append(Sources(f, n), s[n + 1])
    <2> DEFINE a == SubSeq(s, 1, n)
               b == SubSeq(s, 1, n + 1)
    <2>1. a \in Seq(T) /\ Len(a) = n /\ (\A i \in 1..n : a[i] = s[i])
      <3>1. n \in 0..Len(s)
        BY DEF s
      <3> QED
        BY <1>2, <3>1
    <2>2. n + 1 \in 1..Len(s)
      BY <1>1, <1>6 DEF s
    <2>3. b \in Seq(T) /\ Len(b) = n + 1 /\ (\A i \in 1..(n + 1) : b[i] = s[i])
      BY <1>1, <1>2, <2>2
    <2> HIDE DEF a, b
    <2>4. a \in [1..n -> T] /\ b \in [1..(n + 1) -> T] /\ (\A i \in 1..n : b[i] = a[i])
      <3>1. \A i \in 1..n : i \in 1..(n + 1)
        OBVIOUS
      <3> QED
        BY <2>1, <2>3, <3>1
    <2>5. b = Append(a, b[n + 1])
      BY <2>4, AppendedFunction
    <2>6. b[n + 1] = s[n + 1] /\ s[n + 1] \in T
      BY <1>1, <2>2, <2>3
    <2>7. <<f>> \o Append(a, s[n + 1]) = Append(<<f>> \o a, s[n + 1])
      BY <1>3, <2>1, <2>6, ConcatAppend
    <2> QED
      BY <2>5, <2>6, <2>7 DEF Sources, a, b, s
  <1>7. SubSeq(s, 1, 0) = <<>>
    OBVIOUS
  <1>8. Sources(f, 0) = <<f>>
    <2>1. <<f>> \o <<>> = <<f>>
      BY <1>3
    <2> QED
      BY <1>7, <2>1 DEF Sources, s
  <1>9. SubSeq(s, 1, Len(s)) = s
    BY <1>2
  <1> QED
    BY <1>5, <1>6, <1>8, <1>9 DEF Sources, s, T

(* What was said before stays; else the next one may say it. *)
LEMMA SaidNext ==
    ASSUME NEW f, NEW s \in Seq(Texts(f)), NEW t \in Texts(f), NEW r, NEW a
    PROVE  /\ Said(f, Append(s, t), r, a) =
                IF Said(f, s, r, a) # "" THEN Said(f, s, r, a)
                ELSE IF r \in DOMAIN t.relations THEN t.relations[r][a] ELSE ""
           /\ (\A i \in 1..Len(s) : r \notin DOMAIN s[i].relations) => Said(f, s, r, a) = ""
  <1> DEFINE T == Texts(f)
             G == Giving(f, r, a)
             k == Keep(s, G)
  <1>1. \A u \in G : u.relations[r][a] # "" /\ r \in DOMAIN u.relations
    BY DEF Giving
  <1>2. t \in G <=> r \in DOMAIN t.relations /\ t.relations[r][a] # ""
    BY DEF Giving
  <1> HIDE DEF G, T
  <1>3. Keep(Append(s, t), G) = IF t \in G THEN Append(k, t) ELSE k
    BY KeepAppend DEF T
  <1>4. k \in Seq(T \cap G)
    BY KeepInSeq DEF T
  <1> HIDE DEF k
  <1>5. k # <<>> => k[1] \in T \cap G
    BY <1>4
  <1>6. Said(f, s, r, a) = IF k = <<>> THEN "" ELSE k[1].relations[r][a]
    BY DEF Said, k, G
  <1>7. Said(f, Append(s, t), r, a) = LET l == IF t \in G THEN Append(k, t) ELSE k
                                      IN  IF l = <<>> THEN "" ELSE l[1].relations[r][a]
    BY <1>3 DEF Said, G
  <1> DEFINE before == Said(f, s, r, a)
             after == Said(f, Append(s, t), r, a)
  <1>8. k = <<>> => before = "" /\ after = IF t \in G THEN t.relations[r][a] ELSE ""
    <2> SUFFICES ASSUME k = <<>> PROVE before = "" /\ after = IF t \in G THEN t.relations[r][a] ELSE ""
      OBVIOUS
    <2>1. Append(k, t) # <<>> /\ Append(k, t)[1] = t
      <3>1. <<>> \in Seq({t}) /\ t \in {t}
        OBVIOUS
      <3> QED
        BY <3>1, FirstAndTailOfAppend, OneMore
    <2> QED
      BY <1>6, <1>7, <2>1
  <1>9. k # <<>> => before # "" /\ after = before
    <2> SUFFICES ASSUME k # <<>> PROVE before # "" /\ after = before
      OBVIOUS
    <2>1. t \in G => Append(k, t) # <<>> /\ Append(k, t)[1] = k[1]
      <3>1. k \in Seq(T) /\ t \in T
        BY <1>4 DEF T
      <3> QED
        BY <3>1, FirstAndTailOfAppend, OneMore
    <2>2. k[1].relations[r][a] # ""
      BY <1>1, <1>5
    <2> QED
      BY <1>6, <1>7, <2>1, <2>2
  <1>10. ASSUME \A i \in 1..Len(s) : r \notin DOMAIN s[i].relations
         PROVE  Said(f, s, r, a) = ""
    <2>1. s \in Seq(ToSet(s)) /\ DOMAIN s = 1..Len(s)
      BY ElementsInSeq DEF T
    <2>2. ToSet(s) \cap G = {}
      BY <1>1, <1>10, <2>1 DEF ToSet
    <2>3. k = <<>>
      BY <2>1, <2>2, KeepAllOrNone DEF k
    <2> QED
      BY <1>6, <2>3
  <1> HIDE DEF before, after
  <1>11. after = IF before # "" THEN before
                 ELSE IF r \in DOMAIN t.relations THEN t.relations[r][a] ELSE ""
    BY <1>2, <1>8, <1>9
  <1> QED
    BY <1>10, <1>11 DEF before, after

(* Relations that have the attributes of relations of the texts, and what  *)
(* the first n templates say of them.                                      *)
RelationsFrom(f, relations, n) ==
    /\ \A r \in DOMAIN relations :
          \E t \in Texts(f) : \E q \in DOMAIN t.relations : DOMAIN relations[r] = DOMAIN t.relations[q]
    /\ \A i \in 1..Len(Sources(f, n)) : DOMAIN Sources(f, n)[i].relations \subseteq DOMAIN relations
    /\ \A r \in DOMAIN relations : \A a \in DOMAIN relations[r] :
          relations[r][a] = Said(f, Sources(f, n), r, a)

RelationsInv ==
    /\ RelationsFrom(file, model.relations, next - 1)
    /\ status = "ok" => ~More

LEMMA RelationsStart ==
    ASSUME NEW f \in Files
    PROVE  RelationsFrom(f, f.relations, 0)
  <1>1. Sources(f, 0) = <<f>> /\ f \in Texts(f)
    <2>1. 0 \in 0..Len(f.includes)
      BY TextsLoaded
    <2> QED
      BY <2>1, SourcesGrow DEF Texts
  <1>2. \A r \in DOMAIN f.relations : DOMAIN f.relations[r] = DOMAIN f.relations[r]
    OBVIOUS
  <1>3. ASSUME NEW r \in DOMAIN f.relations, NEW a
        PROVE  f.relations[r][a] = Said(f, <<f>>, r, a)
    <2>1. Keep(<<f>>, Giving(f, r, a)) = IF f \in Giving(f, r, a) THEN <<f>> ELSE <<>>
      BY KeepOne
    <2>2. f \in Giving(f, r, a) <=> f.relations[r][a] # ""
      BY <1>1 DEF Giving
    <2>3. CASE f.relations[r][a] = ""
      <3>1. Keep(<<f>>, Giving(f, r, a)) = <<>>
        BY <2>1, <2>2, <2>3
      <3> QED
        BY <2>3, <3>1 DEF Said
    <2>4. CASE f.relations[r][a] # ""
      <3>1. Keep(<<f>>, Giving(f, r, a)) = <<f>>
        BY <2>1, <2>2, <2>4
      <3>2. Said(f, <<f>>, r, a) = IF <<f>> = <<>> THEN "" ELSE <<f>>[1].relations[r][a]
        BY <3>1 DEF Said
      <3>3. <<f>> # <<>> /\ <<f>>[1] = f
        OBVIOUS
      <3> QED
        BY <3>2, <3>3
    <2> QED
      BY <2>3, <2>4
  <1>4. Len(<<f>>) = 1 /\ <<f>>[1] = f
    OBVIOUS
  <1>5. \A i \in 1..Len(<<f>>) : <<f>>[i] = f
    BY <1>4
  <1>6. \A r \in DOMAIN f.relations : \A a \in DOMAIN f.relations[r] :
           f.relations[r][a] = Said(f, Sources(f, 0), r, a)
    BY <1>1, <1>3
  <1> QED
    BY <1>1, <1>5, <1>6 DEF RelationsFrom

(* The relations of one more template. *)
LEMMA RelationsMerged ==
    ASSUME NEW f \in Files, NEW n \in Nat, n < Len(f.includes),
           NEW m, RelationsFrom(f, m.relations, n), NEW presets
    PROVE  RelationsFrom(f, MergeTemplate(m, f.includes[n + 1].relations, presets).relations, n + 1)
  <1> DEFINE t == f.includes[n + 1]
             old == m.relations
             add == t.relations
             s == Sources(f, n)
             u == Append(s, t)
             D == DOMAIN old \cup DOMAIN add
             new == MergeTemplate(m, add, presets).relations
  <1>1. t \in Texts(f) /\ s \in Seq(Texts(f)) /\ Sources(f, n + 1) = u
    <2>1. n \in 0..Len(f.includes) /\ n + 1 \in 1..Len(f.includes)
      BY TextsLoaded
    <2> QED
      BY <2>1, SourcesGrow, TextsLoaded
  <1>2. new = [r \in D |->
                  CASE r \notin DOMAIN add -> old[r]
                    [] r \notin DOMAIN old -> add[r]
                    [] OTHER               -> mergeRelation(old[r], add[r])]
    BY DEF MergeTemplate
  <1>3. /\ DOMAIN new = D
        /\ \A r \in D : new[r] = IF r \notin DOMAIN add THEN old[r]
                                 ELSE IF r \notin DOMAIN old THEN add[r]
                                 ELSE mergeRelation(old[r], add[r])
    BY <1>2
  <1>4. \A r, a : /\ Said(f, u, r, a) = IF Said(f, s, r, a) # "" THEN Said(f, s, r, a)
                                        ELSE IF r \in DOMAIN add THEN add[r][a] ELSE ""
                  /\ (\A i \in 1..Len(s) : r \notin DOMAIN s[i].relations) => Said(f, s, r, a) = ""
    BY <1>1, SaidNext
  <1>5. Len(s) \in Nat /\ Len(u) = Len(s) + 1 /\ u[Len(s) + 1] = t /\ \A i \in 1..Len(s) : u[i] = s[i]
    BY <1>1
  <1>6. \A i \in 1..Len(u) : i = Len(s) + 1 \/ i \in 1..Len(s)
    BY <1>5
  <1>7. \A i \in 1..Len(s) : DOMAIN s[i].relations \subseteq DOMAIN old
    BY DEF RelationsFrom
  <1>8. \A r \in DOMAIN old : \A a \in DOMAIN old[r] : old[r][a] = Said(f, s, r, a)
    BY DEF RelationsFrom
  <1>9. \A r \in DOMAIN old :
           \E v \in Texts(f) : \E q \in DOMAIN v.relations : DOMAIN old[r] = DOMAIN v.relations[q]
    BY DEF RelationsFrom
  <1>10. \A r \in DOMAIN old, q \in DOMAIN add : DOMAIN old[r] = DOMAIN add[q]
    <2> SUFFICES ASSUME NEW r \in DOMAIN old, NEW q \in DOMAIN add PROVE DOMAIN old[r] = DOMAIN add[q]
      OBVIOUS
    <2>1. PICK v \in Texts(f) : \E q2 \in DOMAIN v.relations : DOMAIN old[r] = DOMAIN v.relations[q2]
      BY <1>9
    <2>2. PICK q2 \in DOMAIN v.relations : DOMAIN old[r] = DOMAIN v.relations[q2]
      BY <2>1
    <2>3. DOMAIN v.relations[q2] = DOMAIN t.relations[q]
      BY <1>1, FilesAssumption
    <2> QED
      BY <2>2, <2>3
  <1> HIDE DEF t, old, add, s, u, new
  <1>11. \A i \in 1..Len(u) : DOMAIN u[i].relations \subseteq DOMAIN new
    BY <1>3, <1>5, <1>6, <1>7 DEF add
  <1>12. ASSUME NEW r \in D
         PROVE  /\ \E v \in Texts(f) : \E q \in DOMAIN v.relations : DOMAIN new[r] = DOMAIN v.relations[q]
                /\ \A a \in DOMAIN new[r] : new[r][a] = Said(f, u, r, a)
    <2>1. CASE r \notin DOMAIN add
      <3>1. new[r] = old[r] /\ r \in DOMAIN old
        BY <1>3, <2>1
      <3>2. \A a \in DOMAIN old[r] : old[r][a] = Said(f, u, r, a)
        <4>1. \A a : Said(f, u, r, a) = Said(f, s, r, a)
          BY <1>4, <2>1
        <4> QED
          BY <1>8, <3>1, <4>1
      <3> QED
        BY <1>9, <3>1, <3>2
    <2>2. CASE r \in DOMAIN add /\ r \notin DOMAIN old
      <3>1. new[r] = add[r]
        BY <1>3, <2>2
      <3>2. \A a : Said(f, s, r, a) = ""
        BY <1>4, <1>7, <2>2
      <3>3. \A a : Said(f, u, r, a) = add[r][a]
        BY <1>4, <2>2, <3>2
      <3> QED
        BY <1>1, <2>2, <3>1, <3>3 DEF add
    <2>3. CASE r \in DOMAIN add /\ r \in DOMAIN old
      <3>1. new[r] = [a \in DOMAIN old[r] |-> IF old[r][a] = "" THEN add[r][a] ELSE old[r][a]]
        BY <1>3, <2>3 DEF mergeRelation
      <3>2. DOMAIN new[r] = DOMAIN old[r]
        BY <3>1
      <3>3. \A a \in DOMAIN old[r] : new[r][a] = Said(f, u, r, a)
        BY <1>4, <1>8, <2>3, <3>1
      <3> QED
        BY <1>9, <2>3, <3>2, <3>3
    <2> QED
      BY <2>1, <2>2, <2>3
  <1>13. RelationsFrom(f, new, n + 1)
    BY <1>1, <1>3, <1>11, <1>12 DEF RelationsFrom
  <1> QED
    BY <1>13 DEF new, add, t

LEMMA RelationsKept ==
    ASSUME LoadingInv, RelationsInv, [Next]_vars
    PROVE  RelationsInv'
  <1>1. CASE IncludeTemplate
    <2>1. More /\ next' = next + 1 /\ model' = MergeTemplate(model, Included.relations, work)
          /\ file' = file /\ status' = "loading"
      BY <1>1 DEF IncludeTemplate, Resolved, Loading
    <2>2. file \in Files /\ next \in 1..Len(file.includes) /\ Len(file.includes) \in Nat
      BY <2>1, IncludedText, TextsLoaded DEF LoadingInv
    <2> DEFINE n == next - 1
    <2>3. n \in Nat /\ n < Len(file.includes) /\ n + 1 = next /\ (next + 1) - 1 = n + 1
      BY <2>2
    <2>4. RelationsFrom(file, model.relations, n)
      BY DEF RelationsInv
    <2> HIDE DEF n
    <2>5. RelationsFrom(file, MergeTemplate(model, file.includes[n + 1].relations, work).relations, n + 1)
      BY <2>2, <2>3, <2>4, RelationsMerged
    <2>6. RelationsFrom(file, model'.relations, next' - 1)
      BY <2>1, <2>3, <2>5 DEF Included
    <2> QED
      BY <2>1, <2>6 DEF RelationsInv
  <1>2. CASE Register
    <2>1. ~More /\ UNCHANGED <<file, next>> /\ model' = [model EXCEPT !.presets = work]
      BY <1>2 DEF Register, Resolved
    <2>2. model'.relations = model.relations
      BY <2>1 DEF LoadingInv
    <2> QED
      BY <2>1, <2>2 DEF RelationsInv, More
  <1>3. CASE ReadFile \/ ReadTemplate \/ AllIncluded \/ Pick \/ Descend \/ MergeParent \/ Leave
    <2>1. UNCHANGED <<file, next, model>>
      BY <1>3 DEF ReadFile, ReadTemplate, AllIncluded, Pick, Descend, MergeParent, Leave,
                  StartResolving, Call, Fail
    <2>2. status' # "ok"
      BY <1>3 DEF ReadFile, ReadTemplate, AllIncluded, Pick, Descend, MergeParent, Leave,
                  StartResolving, Call, Fail, Loading
    <2> QED
      BY <2>1, <2>2 DEF RelationsInv
  <1>4. CASE UNCHANGED vars
    BY <1>4 DEF vars, RelationsInv, More
  <1> QED
    BY <1>1, <1>2, <1>3, <1>4 DEF Next

(* Every attribute of a relation is the model's, else that of the first     *)
(* template to give it, for any number of templates.  (mergeRelation)       *)
THEOREM RelationsAlwaysDeclared == Spec => []RelationsAsDeclared
  <1>1. Init => RelationsInv
    <2> SUFFICES ASSUME Init PROVE RelationsInv
      OBVIOUS
    <2>1. file \in Files /\ model.relations = file.relations /\ next = 1 /\ status = "loading"
      BY DEF Init
    <2>2. RelationsFrom(file, model.relations, next - 1)
      <3>1. next - 1 = 0
        BY <2>1
      <3> QED
        BY <2>1, <3>1, RelationsStart
    <2> QED
      BY <2>1, <2>2 DEF RelationsInv
  <1>2. LoadingInv /\ RelationsInv /\ [Next]_vars => RelationsInv'
    BY RelationsKept
  <1>3. LoadingInv /\ RelationsInv => RelationsAsDeclared
    <2> SUFFICES ASSUME LoadingInv, RelationsInv, status = "ok" PROVE RelationsAsDeclared
      BY DEF RelationsAsDeclared
    <2>1. file \in Files /\ next \in 1..(Len(file.includes) + 1) /\ Len(file.includes) \in Nat
          /\ ~(next <= Len(file.includes))
      BY TextsLoaded DEF LoadingInv, RelationsInv, More
    <2>2. next - 1 = Len(file.includes) /\ Len(file.includes) \in 0..Len(file.includes)
      BY <2>1
    <2>3. Sources(file, next - 1) = <<file>> \o file.includes
      BY <2>1, <2>2, SourcesGrow
    <2> QED
      BY <2>3 DEF RelationsInv, RelationsFrom, RelationsAsDeclared, Said
  <1> QED
    BY <1>1, <1>2, <1>3, AlwaysLoading, PTL DEF Spec
-----------------------------------------------------------------------------
(* The fields of a preset.                                                 *)

(* Functions that agree on the elements of a sequence. *)
LEMMA MappedSame ==
    ASSUME NEW S, NEW s \in Seq(S), NEW f, NEW g, \A e \in S : f[e] = g[e]
    PROVE  Mapped(s, f) = Mapped(s, g)
  <1>1. \A i \in DOMAIN s : f[s[i]] = g[s[i]]
    OBVIOUS
  <1> QED
    BY <1>1 DEF Mapped

(* The fields of the first n of the presets named, one after the other.    *)
Above(names, n, fields) == FlattenSeq(Mapped(SubSeq(names, 1, n), fields))

LEMMA AboveIs ==
    ASSUME NEW E, NEW D, NEW fields, DOMAIN fields = D, \A e \in D : fields[e] \in Lists(E),
           NEW N, NEW names \in Seq(N), NEW n \in 0..Len(names), \A i \in 1..n : names[i] \in D
    PROVE  /\ Above(names, n, fields) \in Seq(E)
           /\ SubSeq(names, 1, n) \in Seq(D)
           /\ n < Len(names) /\ names[n + 1] \in D =>
                 Above(names, n + 1, fields) = Above(names, n, fields) \o fields[names[n + 1]]
  <1> DEFINE a == SubSeq(names, 1, n)
             b == SubSeq(names, 1, n + 1)
             e == names[n + 1]
             ls == Mapped(a, fields)
  <1>1. n \in Nat /\ n \in Int /\ 1 \in Int /\ Len(names) \in Nat
    OBVIOUS
  <1>2. a \in Seq(D)
    BY <1>1, SubSeqAgree
  <1>3. Len(a) = n /\ \A i \in 1..n : a[i] = names[i]
    BY <1>1
  <1> HIDE DEF a
  <1>4. ls \in Seq(Lists(E))
    <2>1. \A x \in DOMAIN fields : fields[x] \in Lists(E)
      OBVIOUS
    <2> QED
      BY <1>2, <2>1, MappedSeq
  <1> HIDE DEF ls
  <1>5. FlattenSeq(ls) \in Seq(E)
    BY <1>4, FlattenInSeq DEF Lists
  <1>6. ASSUME n < Len(names), e \in D
        PROVE  Above(names, n + 1, fields) = Above(names, n, fields) \o fields[e]
    <2>1. \A i \in 1..(n + 1) : i = n + 1 \/ i \in 1..n
      BY <1>1
    <2>2. \A i \in 1..(n + 1) : names[i] \in D
      BY <1>6, <2>1
    <2>3. n + 1 \in Int
      BY <1>1
    <2>4. b \in Seq(D)
      BY <1>1, <2>2, <2>3, SubSeqAgree
    <2>5. Len(b) = n + 1 /\ \A i \in 1..(n + 1) : b[i] = names[i]
      BY <1>1, <1>6
    <2> HIDE DEF b, e
    <2>6. a \in [1..n -> D] /\ b \in [1..(n + 1) -> D] /\ \A i \in 1..n : b[i] = a[i]
      <3>1. \A i \in 1..n : i \in 1..(n + 1)
        BY <1>1
      <3> QED
        BY <1>2, <1>3, <2>4, <2>5, <3>1
    <2>7. n + 1 \in 1..(n + 1)
      BY <1>1
    <2>8. b = Append(a, e)
      BY <1>1, <2>5, <2>6, <2>7, AppendedFunction DEF e
    <2>9. Mapped(b, fields) = Append(ls, fields[e])
      BY <1>2, <1>6, <2>8, MappedAppend DEF ls
    <2>10. fields[e] \in Lists(E)
      BY <1>6
    <2>11. FlattenSeq(Append(ls, fields[e])) = FlattenSeq(ls) \o fields[e]
      BY <1>4, <2>10, FlattenAppend
    <2> QED
      BY <2>9, <2>11 DEF Above, a, b, ls
  <1> QED
    BY <1>2, <1>5, <1>6 DEF Above, a, ls, e

LEMMA AboveEnds ==
    ASSUME NEW N, NEW names \in Seq(N), NEW fields
    PROVE  /\ Above(names, 0, fields) = <<>>
           /\ Above(names, Len(names), fields) = FlattenSeq(Mapped(names, fields))
  <1>1. SubSeq(names, 1, 0) = <<>> /\ SubSeq(names, 1, Len(names)) = names
    OBVIOUS
  <1>2. FlattenSeq(<<>>) = <<>>
    <2>1. PICK none \in Seq(Lists(N)) : none = <<>> /\ Len(none) = 0
      <3>1. <<>> \in Seq(Lists(N)) /\ Len(<<>>) = 0
        OBVIOUS
      <3> QED
        BY <3>1
    <2>2. none \in Seq(Lists(N)) =>
            \E g \in [0..Len(none) -> Lists(N)] : FlattenSeq(none) = g[Len(none)] /\ g[0] = <<>>
      BY FlattenIs
    <2>3. FlattenSeq(none) = <<>>
      BY <2>1, <2>2
    <2> QED
      BY <2>1, <2>3
  <1> QED
    BY <1>1, <1>2, MappedEmpty DEF Above

FieldsOf(w) == [q \in DOMAIN w |-> w[q].fields]

(* A call has the fields of the parents it has merged.                     *)
FrameMeans(fr, w) ==
    fr.result = Overridden(Above(ParentNames(w, fr.name), fr.parent - 1, FieldsOf(w)))

(* Presets that are resolved have the fields they mean, seen from as many   *)
(* levels up as there are resolved presets or more; others are untouched.   *)
WorkMeans ==
    /\ DOMAIN work = DOMAIN Base
    /\ \A q \in DOMAIN work : work[q].extends = Base[q].extends
    /\ \A q \in DOMAIN work \ cache : work[q].fields = Base[q].fields
    /\ \A q \in cache : \A d \in Cardinality(cache)..Cardinality(DOMAIN Base) :
          work[q].fields = MeaningTo(Base)[d][q]
    /\ \A i \in 1..Len(stack) : FrameMeans(stack[i], work)

MeaningInv ==
    /\ phase = "resolve" /\ status # "ok" => WorkMeans
    /\ status # "ok" => model.presets = MergedTo(file)[next - 1]
    /\ status = "ok" => model.presets = Meaning(Merged(file))

(* Where a call stands among the parents of its preset. *)
LEMMA FramePlace ==
    ASSUME NEW w, Loaded(w), NEW c, c \subseteq DOMAIN w, NEW fr, FrameRight(fr, w, c)
    PROVE  /\ ParentNames(w, fr.name) \in Seq(AllNames)
           /\ fr.parent - 1 \in 0..Len(ParentNames(w, fr.name))
           /\ fr.parent \in Nat
           /\ \A j \in 1..(fr.parent - 1) : ParentNames(w, fr.name)[j] \in c
           /\ SubSeq(ParentNames(w, fr.name), 1, fr.parent - 1) \in Seq(c)
  <1> DEFINE names == ParentNames(w, fr.name)
             n == fr.parent - 1
  <1>1. names \in Seq(AllNames)
    BY ParentsInSeq DEF ParentNames, FrameRight
  <1>2. fr.parent \in 1..(Len(names) + 1) /\ \A j \in 1..(fr.parent - 1) : names[j] \in c
    BY DEF FrameRight
  <1> HIDE DEF names
  <1>3. n \in 0..Len(names) /\ fr.parent \in Nat /\ n \in Int /\ 1 \in Int
    BY <1>1, <1>2
  <1>4. SubSeq(names, 1, n) \in Seq(c)
    BY <1>2, <1>3, SubSeqAgree
  <1> QED
    BY <1>1, <1>2, <1>3, <1>4 DEF names

(* Other presets do not concern a call. *)
LEMMA FrameKept ==
    ASSUME NEW w, Loaded(w), NEW c, c \subseteq DOMAIN w, NEW fr, FrameRight(fr, w, c),
           NEW x, DOMAIN x = DOMAIN w, \A q \in DOMAIN w : x[q].extends = w[q].extends,
           \A q \in c : x[q].fields = w[q].fields, FrameMeans(fr, w)
    PROVE  FrameMeans(fr, x)
  <1> DEFINE names == ParentNames(w, fr.name)
             n == fr.parent - 1
             part == SubSeq(names, 1, n)
             f == FieldsOf(w)
             g == FieldsOf(x)
  <1>1. part \in Seq(c)
    BY FramePlace
  <1>2. ParentNames(x, fr.name) = names
    BY DEF ParentNames, FrameRight
  <1>3. \A q \in c : f[q] = g[q]
    BY DEF FieldsOf
  <1> HIDE DEF part, f, g
  <1>4. Mapped(part, f) = Mapped(part, g)
    BY <1>1, <1>3, MappedSame
  <1>5. Above(names, n, f) = Above(names, n, g)
    BY <1>4 DEF Above, part
  <1> QED
    BY <1>2, <1>5 DEF FrameMeans, f, g

LEMMA FrameStarts ==
    ASSUME NEW w, Loaded(w), NEW p \in DOMAIN w
    PROVE  FrameMeans(Frame(p), w)
  <1> DEFINE names == ParentNames(w, p)
  <1>1. names \in Seq(AllNames)
    BY ParentsInSeq DEF ParentNames
  <1>2. Above(names, 0, FieldsOf(w)) = <<>>
    BY <1>1, AboveEnds
  <1>3. Overridden(<<>>) = <<>>
    <2>1. KeysOf(<<>>) = <<>>
      BY DEF KeysOf
    <2> QED
      BY <2>1, UnrepeatedEmpty DEF Overridden
  <1>4. Frame(p).name = p /\ Frame(p).parent - 1 = 0 /\ Frame(p).result = <<>>
    BY DEF Frame
  <1> QED
    BY <1>2, <1>3, <1>4 DEF FrameMeans

LEMMA FieldsOfIs ==
    ASSUME NEW w, Loaded(w)
    PROVE  DOMAIN FieldsOf(w) = DOMAIN w /\ \A q \in DOMAIN w : FieldsOf(w)[q] = w[q].fields
           /\ FieldsOf(w)[q] \in Lists(AllFields) /\ w[q].fields \in Seq(AllFields)
  BY DEF FieldsOf, Loaded, Lists

(* One more parent. *)
LEMMA FrameMerges ==
    ASSUME NEW w, Loaded(w), NEW c, c \subseteq DOMAIN w, NEW fr, FrameRight(fr, w, c), FrameMeans(fr, w),
           fr.parent <= Len(ParentNames(w, fr.name)), ParentNames(w, fr.name)[fr.parent] \in c
    PROVE  mergeFields(fr.result, w[ParentNames(w, fr.name)[fr.parent]].fields) =
              Overridden(Above(ParentNames(w, fr.name), fr.parent, FieldsOf(w)))
  <1> DEFINE names == ParentNames(w, fr.name)
             n == fr.parent - 1
             q == names[fr.parent]
             g == FieldsOf(w)
             D == DOMAIN w
  <1>1. names \in Seq(AllNames) /\ n \in 0..Len(names) /\ fr.parent \in Nat /\ \A j \in 1..n : names[j] \in D
    BY FramePlace
  <1>2. n + 1 = fr.parent /\ n < Len(names)
    BY <1>1
  <1>3. DOMAIN g = D /\ \A e \in D : g[e] \in Lists(AllFields)
    BY FieldsOfIs
  <1>4. q \in D /\ w[q].fields \in Seq(AllFields) /\ g[q] = w[q].fields
    BY FieldsOfIs
  <1>5. fr.result = Overridden(Above(names, n, g))
    BY DEF FrameMeans
  <1>6. names[n + 1] = q
    BY <1>2
  <1> HIDE DEF names, n, g, D, q
  <1>7. Above(names, n, g) \in Seq(AllFields) /\ Above(names, n + 1, g) = Above(names, n, g) \o g[q]
    <2>1. names \in Seq(AllNames) /\ n \in 0..Len(names) /\ \A j \in 1..n : names[j] \in D
      BY <1>1
    <2>2. n < Len(names) /\ names[n + 1] \in D
      BY <1>2, <1>4, <1>6
    <2>3. /\ Above(names, n, g) \in Seq(AllFields)
          /\ n < Len(names) /\ names[n + 1] \in D =>
                Above(names, n + 1, g) = Above(names, n, g) \o g[names[n + 1]]
      BY <1>3, <2>1, AboveIs
    <2> QED
      BY <1>6, <2>2, <2>3
  <1>8. mergeFields(Overridden(Above(names, n, g)), w[q].fields) = Overridden(Above(names, n, g) \o w[q].fields)
    BY <1>4, <1>7, MergeOverrides
  <1>9. mergeFields(fr.result, w[q].fields) = Overridden(Above(names, fr.parent, g))
    BY <1>2, <1>4, <1>5, <1>7, <1>8
  <1> QED
    BY <1>9 DEF names, g, q

-----------------------------------------------------------------------------
(* What a file means.                                                      *)

LEMMA MeaningLoaded ==
    ASSUME NEW presets, Loaded(presets)
    PROVE  /\ Loaded(Meaning(presets))
           /\ DOMAIN Meaning(presets) = DOMAIN presets
           /\ \A p \in DOMAIN presets :
                 /\ Meaning(presets)[p] =
                       Preset(presets[p].extends, MeaningTo(presets)[Cardinality(DOMAIN presets)][p])
                 /\ Distinct(KeysOf(Meaning(presets)[p].fields))
  <1> DEFINE D == DOMAIN presets
             n == Cardinality(D)
             M == MeaningTo(presets)
             all == Meaning(presets)
  <1>1. n \in Nat /\ \A d \in 0..n : M[d] \in [D -> Lists(AllFields)]
    BY MeaningIs
  <1>2. all = [p \in D |-> [presets[p] EXCEPT !.fields = M[n][p]]]
    BY DEF Meaning
  <1>3. \A p \in D : presets[p] = Preset(presets[p].extends, presets[p].fields)
    BY DEF Loaded
  <1>4. DOMAIN all = D /\ \A p \in D : all[p] = Preset(presets[p].extends, M[n][p])
    BY <1>2, <1>3 DEF Preset
  <1>5. all = [p \in D |-> all[p]]
    BY <1>2
  <1>6. \A p \in D : all[p].extends = presets[p].extends /\ all[p].fields = M[n][p]
    BY <1>4 DEF Preset
  <1>7. \A p \in D : M[n][p] \in Lists(AllFields)
    BY <1>1
  <1>8. ASSUME NEW p \in D
        PROVE  Distinct(KeysOf(M[n][p]))
    <2>1. n # 0
      BY <1>1, FS_EmptySet DEF Loaded
    <2>2. n \in 1..n /\ n - 1 \in 0..n
      BY <1>1, <2>1
    <2>3. M[n][p] = Inherited(presets, p, M[n - 1])
      BY <2>2, MeaningIs
    <2>4. M[n - 1] \in [DOMAIN presets -> Lists(AllFields)]
      BY <1>1, <2>2
    <2> QED
      BY <2>3, <2>4, InheritedInSeq
  <1> HIDE DEF all, M, n
  <1>9. all = [p \in DOMAIN all |-> Preset(all[p].extends, all[p].fields)]
    BY <1>4, <1>5, <1>6
  <1>10. Loaded(all)
    BY <1>4, <1>6, <1>7, <1>9 DEF Loaded
  <1> QED
    BY <1>4, <1>6, <1>8, <1>10 DEF all, M, n

(* A preset of a template that the model has too. *)
LEMMA NoSkipMerges ==
    ASSUME NEW E, NEW g \in Lists(E), NEW o \in Lists(E), Distinct(KeysOf(g))
    PROVE  mergeFields(NoSkip(g), NoSkip(o)) = Overridden(NoSkip(g) \o NoSkip(o))
  <1>1. NoSkip(g) \in Seq(E) /\ NoSkip(o) \in Seq(E)
    BY NoSkipInSeq DEF Lists
  <1>2. Distinct(KeysOf(NoSkip(g)))
    BY KeepDistinct DEF NoSkip, Lists
  <1>3. Overridden(NoSkip(g)) = NoSkip(g)
    BY <1>1, <1>2, OverriddenDistinct
  <1>4. mergeFields(Overridden(NoSkip(g)), NoSkip(o)) = Overridden(NoSkip(g) \o NoSkip(o))
    BY <1>1, MergeOverrides
  <1> QED
    BY <1>3, <1>4

LEMMA IncludingMerges ==
    ASSUME NEW m, Loaded(m.presets), NEW relations, NEW t, Loaded(t.presets)
    PROVE  /\ MergeTemplate(m, relations, Meaning(t.presets)).presets = Including(m.presets, t)
           /\ Loaded(Including(m.presets, t))
  <1> DEFINE own == m.presets
             given == Meaning(t.presets)
             D == DOMAIN own \cup DOMAIN given
             both == MergeTemplate(m, relations, given).presets
             fields(p) == Overridden(NoSkip(given[p].fields) \o NoSkip(own[p].fields))
  <1>1. Loaded(given) /\ \A p \in DOMAIN given : Distinct(KeysOf(given[p].fields))
    BY MeaningLoaded
  <1> HIDE DEF given
  <1>2. /\ Loaded(both) /\ DOMAIN both = D
        /\ \A p \in DOMAIN both : both[p] =
              IF p \notin DOMAIN given THEN own[p]
              ELSE IF p \notin DOMAIN own THEN given[p]
              ELSE Preset(own[p].extends, mergeFields(NoSkip(given[p].fields), NoSkip(own[p].fields)))
    BY <1>1, MergedPresets
  <1>3. ASSUME NEW p \in DOMAIN own, p \in DOMAIN given
        PROVE  /\ mergeFields(NoSkip(given[p].fields), NoSkip(own[p].fields)) = fields(p)
               /\ [own[p] EXCEPT !.fields = Overridden(NoSkip(given[p].fields) \o NoSkip(@))]
                     = Preset(own[p].extends, fields(p))
    <2>1. given[p].fields \in Lists(AllFields) /\ own[p].fields \in Lists(AllFields)
      BY <1>1, <1>3 DEF Loaded
    <2>2. own[p] = Preset(own[p].extends, own[p].fields)
      BY DEF Loaded
    <2> QED
      BY <1>1, <1>3, <2>1, <2>2, NoSkipMerges DEF Preset
  <1>4. Including(own, t) = [p \in D |->
            CASE p \notin DOMAIN given   -> own[p]
              [] p \notin DOMAIN own -> given[p]
              [] OTHER -> [own[p] EXCEPT !.fields = Overridden(NoSkip(given[p].fields) \o NoSkip(@))]]
    BY DEF Including, given
  <1>5. both = [p \in D |-> both[p]]
    BY DEF MergeTemplate
  <1> HIDE DEF both, own
  <1>6. ASSUME NEW p \in D
        PROVE  both[p] = CASE p \notin DOMAIN given   -> own[p]
                 [] p \notin DOMAIN own -> given[p]
                 [] OTHER -> [own[p] EXCEPT !.fields = Overridden(NoSkip(given[p].fields) \o NoSkip(@))]
    <2>1. CASE p \notin DOMAIN given
      BY <1>2, <2>1
    <2>2. CASE p \in DOMAIN given /\ p \notin DOMAIN own
      BY <1>2, <2>2
    <2>3. CASE p \in DOMAIN given /\ p \in DOMAIN own
      <3>1. both[p] = Preset(own[p].extends, fields(p))
        BY <1>2, <1>3, <2>3
      <3>2. both[p] = [own[p] EXCEPT !.fields = Overridden(NoSkip(given[p].fields) \o NoSkip(@))]
        BY <1>3, <2>3, <3>1
      <3> QED
        BY <2>3, <3>2
    <2> QED
      BY <2>1, <2>2, <2>3
  <1>7. both = Including(own, t)
    BY <1>4, <1>5, <1>6
  <1> QED
    BY <1>2, <1>7 DEF both, own, given

(* Presets that may be loaded. *)
Libraries == {m \in UNION {[D -> [extends : Lists(AllNames), fields : Lists(AllFields)]] : D \in SUBSET AllNames} :
                 IsFiniteSet(DOMAIN m)}

LEMMA LibrariesAre ==
    ASSUME NEW m
    PROVE  Loaded(m) <=> m \in Libraries
  <1> DEFINE R == [extends : Lists(AllNames), fields : Lists(AllFields)]
  <1>1. ASSUME Loaded(m)
        PROVE  m \in Libraries
    <2> DEFINE D == DOMAIN m
    <2>1. IsFiniteSet(D) /\ D \subseteq AllNames /\ m = [p \in D |-> Preset(m[p].extends, m[p].fields)]
          /\ \A p \in D : m[p].extends \in Lists(AllNames) /\ m[p].fields \in Lists(AllFields)
      BY <1>1 DEF Loaded
    <2>2. \A p \in D : Preset(m[p].extends, m[p].fields) \in R
      BY <2>1 DEF Preset
    <2>3. m \in [D -> R]
      BY <2>1, <2>2
    <2> QED
      BY <2>1, <2>3 DEF Libraries
  <1>2. ASSUME m \in Libraries
        PROVE  Loaded(m)
    <2>1. PICK D \in SUBSET AllNames : m \in [D -> R] /\ IsFiniteSet(DOMAIN m)
      BY <1>2 DEF Libraries
    <2>2. DOMAIN m = D /\ m = [p \in D |-> m[p]] /\ \A p \in D : m[p] \in R
      BY <2>1
    <2>3. \A p \in D : m[p] = Preset(m[p].extends, m[p].fields)
          /\ m[p].extends \in Lists(AllNames) /\ m[p].fields \in Lists(AllFields)
      BY <2>2 DEF Preset
    <2>4. m = [p \in D |-> Preset(m[p].extends, m[p].fields)]
      BY <2>2, <2>3
    <2> QED
      BY <2>1, <2>2, <2>3, <2>4 DEF Loaded
  <1> QED
    BY <1>1, <1>2

(* Template by template. *)
LEMMA MergedToIs ==
    ASSUME NEW f \in Files
    PROVE  /\ MergedTo(f)[0] = f.presets
           /\ \A i \in 1..Len(f.includes) :
                 MergedTo(f)[i] = Including(MergedTo(f)[i - 1], f.includes[i])
  <1> DEFINE n == Len(f.includes)
             t == f.includes
             step == [i \in 1..n |-> [presets \in Libraries |-> Including(presets, t[i])]]
             Some(m) == m = [i \in 0..n |-> IF i = 0 THEN f.presets ELSE Including(m[i - 1], t[i])]
  <1>1. n \in Nat /\ \A i \in 1..n : Loaded(t[i].presets)
    BY TextsLoaded
  <1>2. \A i \in 1..n : \A presets \in Libraries : Including(presets, t[i]) \in Libraries
    <2> SUFFICES ASSUME NEW i \in 1..n, NEW presets \in Libraries PROVE Including(presets, t[i]) \in Libraries
      OBVIOUS
    <2>1. PICK m : m = [presets |-> presets]
      OBVIOUS
    <2>2. m.presets = presets /\ Loaded(m.presets)
      BY <2>1, LibrariesAre
    <2>3. Loaded(Including(m.presets, t[i]))
      BY <1>1, <2>2, IncludingMerges
    <2> QED
      BY <2>2, <2>3, LibrariesAre
  <1>3. PICK base \in Libraries : base = f.presets
    BY TextsLoaded, LibrariesAre DEF Texts
  <1>4. MergedTo(f) = CHOOSE m : Some(m)
    BY DEF MergedTo
  <1> HIDE DEF n, t
  <1>5. step \in [1..n -> [Libraries -> Libraries]]
    BY <1>2
  <1>6. PICK m \in [0..n -> Libraries] : m[0] = base /\ \A i \in 1..n : m[i] = step[i][m[i - 1]]
    <2> HIDE DEF step, Some
    <2>1. \E m \in [0..n -> Libraries] : GoesOn(m, n, base, step)
      BY <1>1, <1>5, StepsExist
    <2> QED
      BY <2>1 DEF GoesOn
  <1>7. \A i \in 1..n : i - 1 \in 0..n /\ i \in 0..n /\ i # 0
    BY <1>1
  <1>8. \A i \in 1..n : m[i] = Including(m[i - 1], t[i])
    BY <1>6, <1>7
  <1>9. Some(m)
    <2> DEFINE one(i) == IF i = 0 THEN f.presets ELSE Including(m[i - 1], t[i])
    <2>1. \A i \in 0..n : i = 0 \/ i \in 1..n
      BY <1>1
    <2> HIDE DEF step
    <2>2. \A i \in 0..n : m[i] = one(i)
      BY <1>3, <1>6, <1>7, <1>8, <2>1
    <2> HIDE DEF one
    <2>3. m = [i \in 0..n |-> one(i)]
      BY <1>6, <2>2
    <2> QED
      BY <2>3 DEF one
  <1> DEFINE h == MergedTo(f)
  <1>10. Some(h)
    <2> HIDE DEF Some
    <2> QED
      BY <1>4, <1>9
  <1> HIDE DEF h, step
  <1>11. h[0] = f.presets
    <2>1. 0 \in 0..n
      BY <1>1
    <2>2. h[0] = IF 0 = 0 THEN f.presets ELSE Including(h[0 - 1], t[0])
      BY <1>10, <2>1
    <2> QED
      BY <2>2
  <1>12. \A i \in 1..n : h[i] = Including(h[i - 1], t[i])
    BY <1>7, <1>10
  <1> QED
    BY <1>11, <1>12 DEF h, n, t

(* When nothing is left to resolve, the presets are what they mean. *)
LEMMA ResolvedMeans ==
    ASSUME LoadingInv, MeaningInv, Resolved
    PROVE  work = Meaning(Base) /\ Loaded(Base)
  <1> DEFINE D == DOMAIN Base
             n == Cardinality(D)
             M == MeaningTo(Base)
  <1>1. phase = "resolve" /\ status # "ok" /\ cache = DOMAIN work
    BY DEF Resolved, Loading
  <1>2. Loaded(work) /\ WorkMeans
    BY <1>1 DEF LoadingInv, WorkRight, MeaningInv
  <1>3. Loaded(Base)
    BY IncludedText DEF Base, LoadingInv
  <1>4. n \in Nat
    BY <1>3, MeaningIs
  <1>5. DOMAIN work = D /\ cache = D
    BY <1>1, <1>2 DEF WorkMeans
  <1>6. \A q \in D : work[q].extends = Base[q].extends /\ work[q].fields = M[n][q]
    <2>1. \A q \in cache : \A d \in Cardinality(cache)..n : work[q].fields = M[d][q]
      BY <1>2 DEF WorkMeans
    <2>2. n \in Cardinality(cache)..n
      BY <1>4, <1>5
    <2>3. \A q \in DOMAIN work : work[q].extends = Base[q].extends
      BY <1>2 DEF WorkMeans
    <2> HIDE DEF n, M, D
    <2> QED
      BY <1>5, <2>1, <2>2, <2>3
  <1>7. DOMAIN Meaning(Base) = D /\ \A q \in D : Meaning(Base)[q] = Preset(Base[q].extends, M[n][q])
    BY <1>3, MeaningLoaded
  <1>8. work = [q \in DOMAIN work |-> Preset(work[q].extends, work[q].fields)]
    BY <1>2 DEF Loaded
  <1>9. Meaning(Base) = [q \in D |-> Meaning(Base)[q]]
    BY DEF Meaning
  <1> HIDE DEF n, M, D
  <1>10. \A q \in D : Preset(work[q].extends, work[q].fields) = Meaning(Base)[q]
    BY <1>6, <1>7
  <1>11. work = Meaning(Base)
    BY <1>5, <1>8, <1>9, <1>10
  <1> QED
    BY <1>3, <1>11

-----------------------------------------------------------------------------
(* Steps of loading.                                                       *)

LEMMA BaseStays ==
    ASSUME UNCHANGED <<file, next, model>>
    PROVE  Base' = Base
  BY DEF Base, More, Included

LEMMA MeaningStays ==
    ASSUME MeaningInv, UNCHANGED <<file, phase, next, model, work, cache, stack>>,
           status' = "ok" <=> status = "ok"
    PROVE  MeaningInv'
  <1>1. Base' = Base
    BY BaseStays
  <1>2. WorkMeans => WorkMeans'
    BY <1>1 DEF WorkMeans
  <1> QED
    BY <1>2 DEF MeaningInv

LEMMA ResolvingMeant ==
    ASSUME LoadingInv, MeaningInv, phase # "resolve", StartResolving(Base), status # "ok"
    PROVE  MeaningInv'
  <1>1. work' = Base /\ cache' = {} /\ stack' = <<>> /\ UNCHANGED <<file, status, next, model>>
    BY DEF StartResolving, LoadingInv
  <1>2. Base' = Base
    BY <1>1, BaseStays
  <1>3. WorkMeans'
    BY <1>1, <1>2 DEF WorkMeans
  <1> QED
    BY <1>1, <1>3 DEF MeaningInv

LEMMA CallMeant ==
    ASSUME LoadingInv, MeaningInv, phase = "resolve", status # "ok", NEW name \in DOMAIN work, Call(name)
    PROVE  MeaningInv'
  <1> DEFINE n == Len(stack)
             t == Append(stack, Frame(name))
             fr == Frame(name)
  <1>1. stack' = t /\ UNCHANGED <<file, status, phase, next, model, work, cache>>
    BY DEF Call
  <1>2. stack \in Seq(Frames) /\ Loaded(work) /\ WorkMeans
    BY DEF LoadingInv, WorkRight, MeaningInv
  <1>3. fr \in Frames
    <2>1. name \in AllNames /\ <<>> \in Lists(AllFields)
      BY <1>2 DEF Loaded, Lists
    <2> QED
      BY <2>1 DEF Frames, Frame
  <1>4. FrameMeans(fr, work)
    BY <1>2, FrameStarts
  <1> HIDE DEF fr
  <1>5. n \in Nat /\ Len(t) = n + 1 /\ t[n + 1] = fr /\ \A i \in 1..n : t[i] = stack[i]
    BY <1>2, <1>3, AppendProperties DEF fr
  <1> HIDE DEF t
  <1>6. \A i \in 1..(n + 1) : i = n + 1 \/ i \in 1..n
    BY <1>5
  <1>7. \A i \in 1..n : FrameMeans(stack[i], work)
    BY <1>2 DEF WorkMeans
  <1>8. \A i \in 1..Len(t) : FrameMeans(t[i], work)
    BY <1>4, <1>5, <1>6, <1>7
  <1>9. Base' = Base
    BY <1>1, BaseStays
  <1>10. WorkMeans'
    BY <1>1, <1>2, <1>8, <1>9 DEF WorkMeans
  <1> QED
    BY <1>1, <1>10 DEF MeaningInv

LEMMA MergeParentMeant ==
    ASSUME LoadingInv, MeaningInv, MergeParent
    PROVE  MeaningInv'
  <1> DEFINE n == Len(stack)
             names == ParentNames(work, Top.name)
             fields == work[NextParent].fields
             fr == [Top EXCEPT !.parent = @ + 1, !.result = mergeFields(@, fields)]
             t == Append(Below, fr)
  <1>1. phase = "resolve" /\ status # "ok" /\ stack # <<>> /\ HasParentLeft /\ NextParent \in cache
        /\ stack' = t /\ UNCHANGED <<file, status, phase, next, model, work, cache>>
    BY DEF MergeParent, Loading
  <1>2. WorkRight /\ WorkMeans /\ stack \in Seq(Frames)
    BY <1>1 DEF LoadingInv, MeaningInv
  <1>3. Loaded(work) /\ cache \subseteq DOMAIN work /\ StackRight(stack, work, cache)
    BY <1>2 DEF WorkRight
  <1>4. n \in Nat /\ n >= 1 /\ n \in 1..n /\ Top = stack[n] /\ Top \in Frames /\ Below \in Seq(Frames)
        /\ Len(Below) = n - 1 /\ \A i \in 1..(n - 1) : Below[i] = stack[i]
    BY <1>1, <1>2, FrontAndLast DEF Top, Below
  <1>5. FrameRight(Top, work, cache) /\ FrameMeans(Top, work)
    BY <1>2, <1>3, <1>4 DEF StackRight, WorkMeans
  <1>6. Top.parent <= Len(names) /\ names[Top.parent] = NextParent /\ names[Top.parent] \in cache
    BY <1>1 DEF HasParentLeft, NextParent, Parents, parseParents, ParentNames
  <1>7. mergeFields(Top.result, fields) = Overridden(Above(names, Top.parent, FieldsOf(work)))
    BY <1>3, <1>5, <1>6, FrameMerges
  <1>8. Top.parent \in Nat /\ Top.name \in AllNames
    BY <1>4 DEF Frames
  <1> HIDE DEF fields, names
  <1>9. fr = [name |-> Top.name, parent |-> Top.parent + 1, result |-> mergeFields(Top.result, fields)]
    BY <1>4, FrameGoesOn
  <1> HIDE DEF fr
  <1>10. FrameMeans(fr, work)
    <2>1. fr.name = Top.name /\ fr.parent - 1 = Top.parent /\ fr.result = mergeFields(Top.result, fields)
      BY <1>8, <1>9
    <2> QED
      BY <1>7, <2>1 DEF FrameMeans, names
  <1>11. Len(t) = n /\ t[n] = fr /\ \A i \in 1..(n - 1) : t[i] = stack[i]
    <2>1. PICK S : Below \in Seq(S) /\ fr \in S
      <3>1. PICK S : S = Frames \cup {fr}
        OBVIOUS
      <3> QED
        BY <1>4, <3>1
    <2>2. Len(t) = Len(Below) + 1 /\ t[Len(Below) + 1] = fr /\ \A i \in 1..Len(Below) : t[i] = Below[i]
      BY <2>1, AppendProperties
    <2> HIDE DEF t
    <2> QED
      BY <1>4, <2>2
  <1> HIDE DEF t
  <1>12. \A i \in 1..n : i = n \/ i \in 1..(n - 1)
    BY <1>4
  <1>13. \A i \in 1..n : FrameMeans(stack[i], work)
    BY <1>2 DEF WorkMeans
  <1>14. \A i \in 1..Len(t) : FrameMeans(t[i], work)
    BY <1>10, <1>11, <1>12, <1>13
  <1>15. Base' = Base
    BY <1>1, BaseStays
  <1>16. WorkMeans'
    BY <1>1, <1>2, <1>14, <1>15 DEF WorkMeans
  <1> QED
    BY <1>1, <1>16 DEF MeaningInv

(* The fields of a preset all of whose parents are resolved. *)
LEMMA LeftMeans ==
    ASSUME NEW base, Loaded(base), NEW w, Loaded(w), DOMAIN w = DOMAIN base,
           \A q \in DOMAIN w : w[q].extends = base[q].extends,
           NEW c, c \subseteq DOMAIN w, NEW d \in 1..Cardinality(DOMAIN base),
           \A q \in c : w[q].fields = MeaningTo(base)[d - 1][q],
           NEW fr, FrameRight(fr, w, c), FrameMeans(fr, w), ~(fr.parent <= Len(ParentNames(w, fr.name))),
           w[fr.name].fields = base[fr.name].fields
    PROVE  mergeFields(fr.result, w[fr.name].fields) = MeaningTo(base)[d][fr.name]
  <1> DEFINE p == fr.name
             names == ParentNames(w, p)
             own == base[p].fields
             f == FieldsOf(w)
             g == MeaningTo(base)[d - 1]
             l == Len(names)
             above == FlattenSeq(Mapped(names, f))
  <1>1. names \in Seq(AllNames) /\ fr.parent \in Nat /\ fr.parent - 1 \in 0..l
        /\ \A j \in 1..(fr.parent - 1) : names[j] \in c
    BY FramePlace
  <1>2. p \in DOMAIN w
    BY DEF FrameRight
  <1>3. fr.parent - 1 = l /\ l \in Nat
    BY <1>1
  <1>4. names \in Seq(c)
    <2>1. SubSeq(names, 1, l) \in Seq(c)
      BY <1>3, FramePlace
    <2>2. SubSeq(names, 1, l) = names
      BY <1>1
    <2> QED
      BY <2>1, <2>2
  <1>5. own \in Seq(AllFields) /\ w[p].fields = own
    BY <1>2 DEF Loaded, Lists
  <1>6. fr.result = Overridden(above)
    <2>1. Above(names, l, f) = above
      BY <1>1, AboveEnds
    <2> QED
      BY <1>3, <2>1 DEF FrameMeans
  <1>7. DOMAIN f = DOMAIN w /\ \A q \in DOMAIN w : f[q] = w[q].fields /\ f[q] \in Lists(AllFields)
    BY FieldsOfIs
  <1>8. above \in Seq(AllFields)
    <2>1. \A q \in DOMAIN f : f[q] \in Lists(AllFields)
      BY <1>7
    <2>2. names \in Seq(DOMAIN f)
      <3>1. \A j \in 1..l : names[j] \in DOMAIN f
        BY <1>3, <1>1, <1>7
      <3> HIDE DEF names, f
      <3> QED
        BY <1>1, <3>1
    <2> HIDE DEF names, f
    <2>3. Mapped(names, f) \in Seq(Lists(AllFields))
      BY <2>1, <2>2, MappedSeq
    <2> QED
      BY <2>3, FlattenInSeq DEF Lists
  <1>9. mergeFields(Overridden(above), own) = Overridden(above \o own)
    <2> HIDE DEF above, own
    <2> QED
      BY <1>5, <1>8, MergeOverrides
  <1>10. ParentsIn(base, p) = names
    <2>1. names = Unrepeated(base[p].extends)
      BY <1>2 DEF ParentNames
    <2>2. ToSet(names) \subseteq c
      <3> HIDE DEF names
      <3> QED
        BY <1>4, ElementsInSeq
    <2>3. ToSet(base[p].extends) \subseteq DOMAIN base
      BY <1>2, <2>1, <2>2, ParentsInSeq
    <2> QED
      BY <1>2, <2>1, <2>3, ParentsInSeq
  <1>11. Mapped(names, f) = Mapped(names, g)
    <2>1. \A q \in c : f[q] = g[q]
      BY <1>7
    <2> HIDE DEF names, f, g
    <2> QED
      BY <1>4, <2>1, MappedSame
  <1>12. MeaningTo(base)[d][p] = Inherited(base, p, g)
    BY <1>2, MeaningIs
  <1>13. Inherited(base, p, g) = Overridden(above \o own)
    BY <1>10, <1>11 DEF Inherited
  <1> QED
    BY <1>5, <1>6, <1>9, <1>12, <1>13

LEMMA LeaveMeant ==
    ASSUME LoadingInv, MeaningInv, Leave
    PROVE  MeaningInv'
  <1> DEFINE n == Len(stack)
             p == Top.name
             merged == mergeFields(Top.result, work[p].fields)
             w == [work EXCEPT ![p].fields = mergeFields(Top.result, @)]
             c == cache \cup {p}
             N == Cardinality(DOMAIN Base)
  <1>1. phase = "resolve" /\ status # "ok" /\ stack # <<>> /\ ~HasParentLeft
        /\ stack' = Below /\ work' = w /\ cache' = c /\ UNCHANGED <<file, status, phase, next, model>>
    BY DEF Leave, Loading, Cached
  <1>2. WorkRight /\ WorkMeans /\ stack \in Seq(Frames)
    BY <1>1 DEF LoadingInv, MeaningInv
  <1>3. Loaded(work) /\ cache \subseteq DOMAIN work /\ StackRight(stack, work, cache)
    BY <1>2 DEF WorkRight
  <1>4. n \in Nat /\ n >= 1 /\ n \in 1..n /\ Top = stack[n] /\ Top \in Frames
        /\ Len(Below) = n - 1 /\ \A i \in 1..(n - 1) : Below[i] = stack[i]
    BY <1>1, <1>2, FrontAndLast DEF Top, Below
  <1>5. FrameRight(Top, work, cache) /\ FrameMeans(Top, work)
    BY <1>2, <1>3, <1>4 DEF StackRight, WorkMeans
  <1>6. p \in DOMAIN work /\ p \notin cache
    BY <1>5 DEF FrameRight
  <1>7. /\ DOMAIN w = DOMAIN work
        /\ \A q \in DOMAIN work : w[q].extends = work[q].extends
                                  /\ w[q].fields = IF q = p THEN merged ELSE work[q].fields
    <2>1. work[p] = Preset(work[p].extends, work[p].fields)
      BY <1>3, <1>6 DEF Loaded
    <2>2. [work[p] EXCEPT !.fields = mergeFields(Top.result, @)] = Preset(work[p].extends, merged)
      BY <2>1 DEF Preset
    <2>3. \A q \in DOMAIN work : w[q] = IF q = p THEN [work[p] EXCEPT !.fields = mergeFields(Top.result, @)]
                                                 ELSE work[q]
      BY <1>6
    <2> HIDE DEF merged, p
    <2>4. DOMAIN w = DOMAIN work
      OBVIOUS
    <2> HIDE DEF w
    <2>5. \A q \in DOMAIN work : w[q] = IF q = p THEN Preset(work[p].extends, merged) ELSE work[q]
      BY <2>2, <2>3
    <2> QED
      BY <2>4, <2>5 DEF Preset
  <1> HIDE DEF w
  <1>8. Loaded(Base) /\ N \in Nat
    BY IncludedText, MeaningIs DEF Base, LoadingInv
  <1>9. IsFiniteSet(cache) /\ Cardinality(c) = Cardinality(cache) + 1 /\ Cardinality(cache) \in Nat
    <2>1. IsFiniteSet(cache)
      BY <1>3, FS_Subset DEF Loaded
    <2> QED
      BY <1>6, <2>1, FS_AddElement, FS_CardinalityType
  <1>10. /\ DOMAIN work = DOMAIN Base
         /\ \A q \in DOMAIN work : work[q].extends = Base[q].extends
         /\ \A q \in DOMAIN work \ cache : work[q].fields = Base[q].fields
         /\ \A q \in cache : \A d \in Cardinality(cache)..N : work[q].fields = MeaningTo(Base)[d][q]
         /\ \A i \in 1..n : FrameMeans(stack[i], work)
    BY <1>2 DEF WorkMeans
  <1> HIDE DEF N
  <1>11. \A d \in Cardinality(c)..N : merged = MeaningTo(Base)[d][p]
    <2> SUFFICES ASSUME NEW d \in Cardinality(c)..N PROVE merged = MeaningTo(Base)[d][p]
      OBVIOUS
    <2>1. d \in 1..N /\ d - 1 \in Cardinality(cache)..N
      BY <1>8, <1>9
    <2>2. \A q \in cache : work[q].fields = MeaningTo(Base)[d - 1][q]
      BY <1>10, <2>1
    <2>3. ~(Top.parent <= Len(ParentNames(work, Top.name)))
      BY <1>1 DEF HasParentLeft, Parents, parseParents, ParentNames
    <2>4. work[p].fields = Base[p].fields
      BY <1>6, <1>10
    <2> QED
      BY <1>3, <1>5, <1>8, <1>10, <2>1, <2>2, <2>3, <2>4, LeftMeans DEF N
  <1> HIDE DEF merged
  <1>12. \A q \in c : \A d \in Cardinality(c)..N : w[q].fields = MeaningTo(Base)[d][q]
    <2> SUFFICES ASSUME NEW q \in c, NEW d \in Cardinality(c)..N PROVE w[q].fields = MeaningTo(Base)[d][q]
      OBVIOUS
    <2>1. CASE q = p
      BY <1>6, <1>7, <1>11, <2>1
    <2>2. CASE q # p
      <3>1. q \in cache /\ q \in DOMAIN work
        BY <1>3, <2>2
      <3>2. d \in Cardinality(cache)..N
        BY <1>8, <1>9
      <3> QED
        BY <1>7, <1>10, <2>2, <3>1, <3>2
    <2> QED
      BY <2>1, <2>2
  <1>13. \A q \in DOMAIN w \ c : w[q].fields = Base[q].fields
    BY <1>7, <1>10
  <1>14. \A i \in 1..(n - 1) : FrameMeans(Below[i], w)
    <2> SUFFICES ASSUME NEW i \in 1..(n - 1) PROVE FrameMeans(stack[i], w)
      BY <1>4
    <2>1. i \in 1..n
      BY <1>4
    <2>2. FrameRight(stack[i], work, cache) /\ FrameMeans(stack[i], work)
      BY <1>3, <1>10, <2>1 DEF StackRight
    <2>3. \A q \in DOMAIN work : w[q].extends = work[q].extends
      BY <1>7
    <2>4. \A q \in cache : w[q].fields = work[q].fields
      BY <1>3, <1>6, <1>7
    <2> QED
      BY <1>3, <1>7, <2>2, <2>3, <2>4, FrameKept
  <1>15. Base' = Base
    BY <1>1, BaseStays
  <1>16. WorkMeans'
    BY <1>1, <1>4, <1>7, <1>10, <1>12, <1>13, <1>14, <1>15 DEF WorkMeans, N
  <1> QED
    BY <1>1, <1>16 DEF MeaningInv

LEMMA IncludeTemplateMeant ==
    ASSUME LoadingInv, MeaningInv, IncludeTemplate
    PROVE  MeaningInv'
  <1>1. Resolved /\ More /\ phase' = "include" /\ status # "ok" /\ next' = next + 1
        /\ model' = MergeTemplate(model, Included.relations, work) /\ UNCHANGED <<file, status>>
    BY DEF IncludeTemplate, Resolved, Loading
  <1>2. work = Meaning(Included.presets)
    BY <1>1, ResolvedMeans DEF Base
  <1>3. Loaded(model.presets) /\ Loaded(Included.presets) /\ next \in 1..Len(file.includes) /\ file \in Files
    BY <1>1, IncludedText DEF LoadingInv
  <1>4. model'.presets = Including(model.presets, Included)
    BY <1>1, <1>2, <1>3, IncludingMerges
  <1>5. MergedTo(file)[next] = Including(MergedTo(file)[next - 1], Included)
    BY <1>3, MergedToIs DEF Included
  <1>6. model.presets = MergedTo(file)[next - 1]
    BY <1>1 DEF MeaningInv
  <1>7. next' - 1 = next
    BY <1>1, <1>3
  <1> QED
    BY <1>1, <1>4, <1>5, <1>6, <1>7 DEF MeaningInv

LEMMA RegisterMeant ==
    ASSUME LoadingInv, MeaningInv, Register
    PROVE  MeaningInv'
  <1>1. Resolved /\ ~More /\ status # "ok" /\ status' = "ok" /\ model' = [model EXCEPT !.presets = work]
        /\ UNCHANGED <<file, next>>
    BY DEF Register, Resolved, Loading
  <1>2. work = Meaning(model.presets)
    BY <1>1, ResolvedMeans DEF Base
  <1>3. model'.presets = work
    BY <1>1 DEF LoadingInv
  <1>4. next - 1 = Len(file.includes)
    BY <1>1, TextsLoaded DEF LoadingInv, More
  <1>5. model.presets = Merged(file)
    BY <1>1, <1>4 DEF MeaningInv, Merged
  <1> QED
    BY <1>1, <1>2, <1>3, <1>5 DEF MeaningInv

LEMMA MeaningKept ==
    ASSUME LoadingInv, MeaningInv, [Next]_vars
    PROVE  MeaningInv'
  <1>1. CASE ReadFile
    <2>1. CASE validateYAML(file.paths)
      <3>1. status # "ok" /\ phase' = "include" /\ UNCHANGED <<file, status, next, model>>
        BY <1>1, <2>1 DEF ReadFile, Loading
      <3> QED
        BY <3>1 DEF MeaningInv
    <2>2. CASE ~validateYAML(file.paths)
      BY <1>1, <2>2, MeaningStays DEF ReadFile, Loading, Fail
    <2> QED
      BY <2>1, <2>2
  <1>2. CASE ReadTemplate
    <2>1. status # "ok" /\ phase # "resolve" /\ Base = Included.presets
      BY <1>2 DEF ReadTemplate, Loading, Base
    <2>2. Fail("unreadable") \/ Fail("invalid") \/ StartResolving(Included.presets)
      BY <1>2 DEF ReadTemplate
    <2>3. CASE StartResolving(Included.presets)
      BY <2>1, <2>3, ResolvingMeant
    <2>4. CASE Fail("unreadable") \/ Fail("invalid")
      BY <2>1, <2>4, MeaningStays DEF Fail
    <2> QED
      BY <2>2, <2>3, <2>4
  <1>3. CASE AllIncluded
    BY <1>3, ResolvingMeant DEF AllIncluded, Loading, Base
  <1>4. CASE Pick
    <2>1. PICK name \in DOMAIN work \ cache : Call(name)
      BY <1>4 DEF Pick
    <2> QED
      BY <1>4, <2>1, CallMeant DEF Pick, Loading
  <1>5. CASE Descend
    <2>1. phase = "resolve" /\ status # "ok"
      BY <1>5 DEF Descend, Loading
    <2>2. Fail("cycle") \/ Fail("missing") \/ (NextParent \in DOMAIN work /\ Call(NextParent))
      BY <1>5 DEF Descend
    <2>3. CASE Fail("cycle") \/ Fail("missing")
      BY <2>1, <2>3, MeaningStays DEF Fail
    <2>4. CASE NextParent \in DOMAIN work /\ Call(NextParent)
      BY <2>1, <2>4, CallMeant
    <2> QED
      BY <2>2, <2>3, <2>4
  <1>6. CASE MergeParent
    BY <1>6, MergeParentMeant
  <1>7. CASE Leave
    BY <1>7, LeaveMeant
  <1>8. CASE IncludeTemplate
    BY <1>8, IncludeTemplateMeant
  <1>9. CASE Register
    BY <1>9, RegisterMeant
  <1>10. CASE UNCHANGED vars
    BY <1>10, MeaningStays DEF vars
  <1> QED
    BY <1>1, <1>2, <1>3, <1>4, <1>5, <1>6, <1>7, <1>8, <1>9, <1>10 DEF Next

(* The presets of a file that loads mean what their text says: whatever     *)
(* they extend, in whatever order they are resolved, and for any number of  *)
(* templates.  (mergeFields and the write-back into presets other presets   *)
(* still read)                                                              *)
THEOREM FieldsAlwaysDeclared == Spec => []FieldsAsDeclared
  <1>1. Init => MeaningInv
    <2> SUFFICES ASSUME Init PROVE MeaningInv
      OBVIOUS
    <2>1. file \in Files /\ model.presets = file.presets /\ next - 1 = 0 /\ status = "loading" /\ phase = "read"
      BY DEF Init
    <2>2. model.presets = MergedTo(file)[next - 1]
      BY <2>1, MergedToIs
    <2> QED
      BY <2>1, <2>2 DEF MeaningInv
  <1>2. LoadingInv /\ MeaningInv /\ [Next]_vars => MeaningInv'
    BY MeaningKept
  <1>3. MeaningInv => FieldsAsDeclared
    BY DEF MeaningInv, FieldsAsDeclared
  <1> QED
    BY <1>1, <1>2, <1>3, AlwaysLoading, PTL DEF Spec

-----------------------------------------------------------------------------
(* Keys of a file.                                                         *)

ContextNames == {"model", "relation", "preset", "field", "field value", "computable", "aggregatable"}
                  \cup {MapsOf[key] : key \in DOMAIN MapsOf}

LEMMA ContextsAre ==
    ASSUME NEW path, Len(path) \in Nat
    PROVE  /\ Contexts(path)[0] = "model"
           /\ \A i \in 1..Len(path) : Contexts(path)[i] = NextContext(Contexts(path)[i - 1], path[i])
  <1> DEFINE n == Len(path)
             S == ContextNames
             step == [i \in 1..n |-> [context \in S |-> NextContext(context, path[i])]]
             Some(m) == m = [i \in 0..n |-> IF i = 0 THEN "model" ELSE NextContext(m[i - 1], path[i])]
  <1>1. "model" \in S
    BY DEF ContextNames
  <1>2. \A context \in S : \A key : NextContext(context, key) \in S
    <2> SUFFICES ASSUME NEW context \in S, NEW key PROVE NextContext(context, key) \in S
      OBVIOUS
    <2>1. CASE key \in DOMAIN MapsOf
      <3>1. MapsOf[key] \in S
        BY <2>1 DEF ContextNames
      <3> HIDE DEF S
      <3>2. {"relation", "preset", "field", "field value", "computable", "aggregatable"} \subseteq S
        BY DEF S, ContextNames
      <3> QED
        BY <3>1, <3>2 DEF NextContext
    <2>2. CASE key \notin DOMAIN MapsOf
      <3>1. {"relation", "preset", "field", "field value", "computable", "aggregatable"} \subseteq S
        BY DEF ContextNames
      <3> HIDE DEF S
      <3> QED
        BY <2>2, <3>1 DEF NextContext
    <2> QED
      BY <2>1, <2>2
  <1>3. Contexts(path) = CHOOSE m : Some(m)
    BY DEF Contexts
  <1> HIDE DEF n, S
  <1>4. n \in Nat
    BY DEF n
  <1>5. step \in [1..n -> [S -> S]]
    BY <1>2
  <1>6. PICK m \in [0..n -> S] : m[0] = "model" /\ \A i \in 1..n : m[i] = step[i][m[i - 1]]
    <2> HIDE DEF step, Some
    <2>1. \E m \in [0..n -> S] : GoesOn(m, n, "model", step)
      BY <1>1, <1>4, <1>5, StepsExist
    <2> QED
      BY <2>1 DEF GoesOn
  <1>7. \A i \in 1..n : i - 1 \in 0..n /\ i \in 0..n /\ i # 0
    BY <1>4
  <1>8. \A i \in 1..n : m[i] = NextContext(m[i - 1], path[i])
    BY <1>6, <1>7
  <1>9. Some(m)
    <2> DEFINE one(i) == IF i = 0 THEN "model" ELSE NextContext(m[i - 1], path[i])
    <2>1. \A i \in 0..n : i = 0 \/ i \in 1..n
      BY <1>4
    <2> HIDE DEF step
    <2>2. \A i \in 0..n : m[i] = one(i)
      BY <1>6, <1>7, <1>8, <2>1
    <2> HIDE DEF one
    <2>3. m = [i \in 0..n |-> one(i)]
      BY <1>6, <2>2
    <2> QED
      BY <2>3 DEF one
  <1> DEFINE h == Contexts(path)
  <1>10. Some(h)
    <2> HIDE DEF Some
    <2> QED
      BY <1>3, <1>9
  <1> HIDE DEF h, step
  <1>11. h[0] = "model"
    <2>1. 0 \in 0..n
      BY <1>4
    <2>2. h[0] = IF 0 = 0 THEN "model" ELSE NextContext(h[0 - 1], path[0])
      BY <1>10, <2>1
    <2> QED
      BY <2>2
  <1>12. \A i \in 1..n : h[i] = NextContext(h[i - 1], path[i])
    BY <1>7, <1>10
  <1> QED
    BY <1>11, <1>12 DEF h, n

(* What steps keep, once it is there. *)
LEMMA StepsStay ==
    ASSUME NEW h, NEW n \in Nat, NEW k \in Nat, NEW S, h[k] \in S,
           \A i \in (k + 1)..n : h[i - 1] \in S => h[i] \in S
    PROVE  \A i \in k..n : h[i] \in S
  <1> DEFINE P == {j \in Nat : k + j <= n => h[k + j] \in S}
  <1>1. 0 \in P
    OBVIOUS
  <1>2. ASSUME NEW j \in Nat, j \in P
        PROVE  j + 1 \in P
    <2>1. ASSUME k + (j + 1) <= n
          PROVE  h[k + (j + 1)] \in S
      <3>1. k + (j + 1) \in (k + 1)..n /\ (k + (j + 1)) - 1 = k + j /\ k + j <= n
        BY <2>1
      <3>2. h[k + j] \in S
        BY <1>2, <3>1
      <3> QED
        BY <3>1, <3>2
    <2> QED
      BY <2>1
  <1> HIDE DEF P
  <1>3. \A j \in Nat : j \in P
    BY <1>1, <1>2, InductionOnNats
  <1>4. ASSUME NEW i \in k..n
        PROVE  h[i] \in S
    <2>1. i - k \in Nat /\ k + (i - k) = i /\ i <= n
      OBVIOUS
    <2>2. i - k \in P
      BY <1>3, <2>1
    <2> QED
      BY <2>1, <2>2 DEF P
  <1> QED
    BY <1>4

(* A file's text has no key its context does not allow exactly if it        *)
(* follows the grammar.                                                     *)
PathAllowed(path) ==
    \A i \in DOMAIN path :
        LET context == Contexts(path)
            isType == i > 1 /\ path[i - 1] = "type" /\ context[i - 2] \in {"field", "computable"}
        IN  IF isType THEN path[i] \in AllowedTypes
            ELSE context[i - 1] \in DOMAIN AllowedKeys => path[i] \in AllowedKeys[context[i - 1]]

(* The same, with the contexts as h. *)
KeyAllowed(path, h, i) ==
    IF i > 1 /\ path[i - 1] = "type" /\ h[i - 2] \in {"field", "computable"} THEN path[i] \in AllowedTypes
    ELSE h[i - 1] \in DOMAIN AllowedKeys => path[i] \in AllowedKeys[h[i - 1]]

LEMMA FirstKeys ==
    ASSUME NEW path, path \in Seq(ToSet(path)), path # <<>>
    PROVE  \E h : /\ h[0] = "model" /\ \A i \in 1..Len(path) : h[i] = NextContext(h[i - 1], path[i])
                  /\ PathAllowed(path) <=> \A i \in 1..Len(path) : KeyAllowed(path, h, i)
                  /\ Len(path) \in Nat /\ Len(path) >= 1
  <1>1. Len(path) \in Nat /\ DOMAIN path = 1..Len(path) /\ Len(path) >= 1
    <2>1. PICK E : E = ToSet(path)
      OBVIOUS
    <2>2. path \in Seq(E)
      BY <2>1
    <2> QED
      BY <2>2
  <1>2. PICK h : h = Contexts(path)
    OBVIOUS
  <1>3. h[0] = "model" /\ \A i \in 1..Len(path) : h[i] = NextContext(h[i - 1], path[i])
    BY <1>1, <1>2, ContextsAre
  <1>4. PathAllowed(path) <=> \A i \in 1..Len(path) : KeyAllowed(path, h, i)
    BY <1>1, <1>2 DEF PathAllowed, KeyAllowed
  <1> QED
    BY <1>1, <1>3, <1>4

LEMMA MapsAre ==
    /\ NextContext("model", "relations") = "map of relations"
    /\ NextContext("model", "presets") = "map of presets"
    /\ NextContext("model", "computable") = "map of computable"
    /\ NextContext("model", "aggregatable") = "map of aggregatable"
    /\ NextContext("model", "aliases") = "map of aliases"
  <1>1. /\ DOMAIN MapsOf = {"relations", "presets", "computable", "aggregatable", "aliases"}
        /\ MapsOf["relations"] = "map of relations" /\ MapsOf["presets"] = "map of presets"
        /\ MapsOf["computable"] = "map of computable" /\ MapsOf["aggregatable"] = "map of aggregatable"
        /\ MapsOf["aliases"] = "map of aliases"
    BY DEF MapsOf
  <1> QED
    BY <1>1 DEF NextContext

LEMMA NextContexts ==
    \A key : /\ NextContext("map of relations", key) = "relation"
             /\ NextContext("map of presets", key) = "preset"
             /\ NextContext("map of computable", key) = "computable"
             /\ NextContext("map of aggregatable", key) = "aggregatable"
             /\ NextContext("map of aliases", key) = "map of aliases"
             /\ NextContext("preset", key) = IF key = "fields" THEN "field" ELSE "preset"
             /\ NextContext("computable", key) = "computable"
             /\ NextContext("field", key) = "field value"
             /\ NextContext("field value", key) = "field value"
  BY DEF NextContext

LEMMA KeysAllowed ==
    /\ DOMAIN AllowedKeys = {"model", "relation", "preset", "field", "computable", "aggregatable"}
    /\ AllowedKeys.model = {"table", "relations", "presets", "include", "computable", "aggregatable", "aliases"}
    /\ AllowedKeys.preset = {"extends", "fields"}
  BY DEF AllowedKeys

LEMMA KeyChecks ==
    ASSUME NEW path, NEW h
    PROVE  /\ KeyAllowed(path, h, 2) <=>
                IF path[1] = "type" /\ h[0] \in {"field", "computable"} THEN path[2] \in AllowedTypes
                ELSE h[1] \in DOMAIN AllowedKeys => path[2] \in AllowedKeys[h[1]]
           /\ KeyAllowed(path, h, 3) <=>
                IF path[2] = "type" /\ h[1] \in {"field", "computable"} THEN path[3] \in AllowedTypes
                ELSE h[2] \in DOMAIN AllowedKeys => path[3] \in AllowedKeys[h[2]]
           /\ KeyAllowed(path, h, 4) <=>
                IF path[3] = "type" /\ h[2] \in {"field", "computable"} THEN path[4] \in AllowedTypes
                ELSE h[3] \in DOMAIN AllowedKeys => path[4] \in AllowedKeys[h[3]]
           /\ KeyAllowed(path, h, 5) <=>
                IF path[4] = "type" /\ h[3] \in {"field", "computable"} THEN path[5] \in AllowedTypes
                ELSE h[4] \in DOMAIN AllowedKeys => path[5] \in AllowedKeys[h[4]]
  <1>1. 2 - 1 = 1 /\ 2 - 2 = 0 /\ 2 > 1 /\ 3 - 1 = 2 /\ 3 - 2 = 1 /\ 3 > 1
        /\ 4 - 1 = 3 /\ 4 - 2 = 2 /\ 4 > 1 /\ 5 - 1 = 4 /\ 5 - 2 = 3 /\ 5 > 1
    OBVIOUS
  <1>2. KeyAllowed(path, h, 2) <=>
                IF path[1] = "type" /\ h[0] \in {"field", "computable"} THEN path[2] \in AllowedTypes
                ELSE h[1] \in DOMAIN AllowedKeys => path[2] \in AllowedKeys[h[1]]
    BY <1>1 DEF KeyAllowed
  <1>3. KeyAllowed(path, h, 3) <=>
                IF path[2] = "type" /\ h[1] \in {"field", "computable"} THEN path[3] \in AllowedTypes
                ELSE h[2] \in DOMAIN AllowedKeys => path[3] \in AllowedKeys[h[2]]
    BY <1>1 DEF KeyAllowed
  <1>4. KeyAllowed(path, h, 4) <=>
                IF path[3] = "type" /\ h[2] \in {"field", "computable"} THEN path[4] \in AllowedTypes
                ELSE h[3] \in DOMAIN AllowedKeys => path[4] \in AllowedKeys[h[3]]
    BY <1>1 DEF KeyAllowed
  <1>5. KeyAllowed(path, h, 5) <=>
                IF path[4] = "type" /\ h[3] \in {"field", "computable"} THEN path[5] \in AllowedTypes
                ELSE h[4] \in DOMAIN AllowedKeys => path[5] \in AllowedKeys[h[4]]
    BY <1>1 DEF KeyAllowed
  <1> QED
    BY <1>2, <1>3, <1>4, <1>5

(* Below a map there is a name, and then the keys of what has it.          *)
LEMMA NamesAllowed ==
    ASSUME NEW path, NEW h, h[0] = "model",
           h[1] \in {"map of relations", "map of presets", "map of computable", "map of aggregatable"}
    PROVE  /\ KeyAllowed(path, h, 2)
           /\ h[2] \in DOMAIN AllowedKeys => (KeyAllowed(path, h, 3) <=> path[3] \in AllowedKeys[h[2]])
  <1>1. h[1] \notin DOMAIN AllowedKeys /\ h[1] \notin {"field", "computable"} /\ h[0] \notin {"field", "computable"}
    BY KeysAllowed
  <1> QED
    BY <1>1, KeyChecks

LEMMA Lengths ==
    ASSUME NEW n \in Nat
    PROVE  /\ n > 2 => n > 1
           /\ n > 3 => n > 2
           /\ n > 4 => n > 3
           /\ n <= 3 \/ n > 3
           /\ n <= 3 => ~(n > 3) /\ ~(n > 4)
           /\ n = 4 => n > 3 /\ ~(n > 4)
           /\ n > 3 => n = 4 \/ n > 4
           /\ n > 1 => 2 \in 2..n
           /\ n > 2 => 3 \in 1..n /\ 3 \in 2..n
           /\ n > 3 => 4 \in 2..n
           /\ 2 - 1 = 1 /\ 3 - 1 = 2 /\ 4 - 1 = 3
           /\ \A i \in (4 + 1)..n : i \in 2..n
           /\ \A i \in 6..n : i - 1 \in 4..n /\ i - 2 \in 4..n
  OBVIOUS

(* What is allowed up to a length. *)
LEMMA KeysTo ==
    ASSUME NEW path, NEW h, NEW n \in Nat, n >= 1
    PROVE  LET K(i) == KeyAllowed(path, h, i)
           IN  /\ n <= 3 => ((\A i \in 1..n : K(i)) <=> K(1) /\ (n > 1 => K(2)) /\ (n > 2 => K(3)))
               /\ n = 4 => ((\A i \in 1..n : K(i)) <=> K(1) /\ K(2) /\ K(3) /\ K(4))
               /\ n > 4 => ((\A i \in 1..n : K(i)) <=> K(1) /\ K(2) /\ K(3) /\ K(4) /\ K(5) /\ \A i \in 6..n : K(i))
  OBVIOUS

LEMMA RelationKeys ==
    ASSUME NEW path, NEW h, h[0] = "model", NEW n \in Nat, n >= 1, n <= 3,
           NEW map \in {"map of relations", "map of aggregatable"}, h[1] = map,
           NEW context \in DOMAIN AllowedKeys, n > 1 => h[2] = context
    PROVE  (\A i \in 1..n : KeyAllowed(path, h, i)) <=>
              KeyAllowed(path, h, 1) /\ (n > 2 => path[3] \in AllowedKeys[context])
  <1>1. KeyAllowed(path, h, 2) /\ (h[2] = context => (KeyAllowed(path, h, 3) <=> path[3] \in AllowedKeys[context]))
    BY NamesAllowed
  <1>2. n > 2 => n > 1
    BY Lengths
  <1>3. (\A i \in 1..n : KeyAllowed(path, h, i)) <=>
           KeyAllowed(path, h, 1) /\ (n > 1 => KeyAllowed(path, h, 2)) /\ (n > 2 => KeyAllowed(path, h, 3))
    BY KeysTo
  <1> QED
    BY <1>1, <1>2, <1>3

LEMMA ComputableKeys ==
    ASSUME NEW path, NEW h, h[0] = "model", NEW n \in Nat, n >= 1, n > 3 => path[3] = "type" /\ n = 4,
           h[1] = "map of computable",
           n > 1 => h[2] = "computable", n > 2 => h[3] = "computable"
    PROVE  (\A i \in 1..n : KeyAllowed(path, h, i)) <=>
              /\ KeyAllowed(path, h, 1)
              /\ n > 2 => path[3] \in AllowedKeys.computable
              /\ n > 3 => path[4] \in AllowedTypes
  <1>1. KeyAllowed(path, h, 2) /\ (n > 1 => (KeyAllowed(path, h, 3) <=> path[3] \in AllowedKeys.computable))
    BY NamesAllowed, KeysAllowed
  <1>2. CASE n <= 3
    <2>1. (\A i \in 1..n : KeyAllowed(path, h, i)) <=>
             KeyAllowed(path, h, 1) /\ (n > 1 => KeyAllowed(path, h, 2)) /\ (n > 2 => KeyAllowed(path, h, 3))
      BY <1>2, KeysTo
    <2>2. (n > 2 => n > 1) /\ ~(n > 3)
      BY <1>2, Lengths
    <2> QED
      BY <1>1, <2>1, <2>2
  <1>3. CASE n > 3
    <2>1. n = 4 /\ path[3] = "type" /\ n > 1 /\ n > 2
      BY <1>3, Lengths
    <2>2. (\A i \in 1..n : KeyAllowed(path, h, i)) <=>
             KeyAllowed(path, h, 1) /\ KeyAllowed(path, h, 2) /\ KeyAllowed(path, h, 3) /\ KeyAllowed(path, h, 4)
      BY <2>1, KeysTo
    <2>3. KeyAllowed(path, h, 4) <=> path[4] \in AllowedTypes
      BY <2>1, KeyChecks
    <2> QED
      BY <1>1, <1>3, <2>1, <2>2, <2>3
  <1> QED
    BY <1>2, <1>3, Lengths

LEMMA PresetKeys ==
    ASSUME NEW path, NEW h, h[0] = "model", NEW n \in Nat, n >= 1, n > 3 => path[3] # "extends",
           h[1] = "map of presets", \A i \in 2..n : h[i] = NextContext(h[i - 1], path[i])
    PROVE  (\A i \in 1..n : KeyAllowed(path, h, i)) <=>
              /\ KeyAllowed(path, h, 1)
              /\ n > 2 => path[3] \in AllowedKeys.preset
              /\ n > 3 /\ path[3] = "fields" => path[4] \in AllowedKeys.field
              /\ n > 4 /\ path[4] = "type" => path[5] \in AllowedTypes
  <1> DEFINE K(i) == KeyAllowed(path, h, i)
  <1>1. n > 1 => h[2] = "preset"
    <2>1. n > 1 => 2 \in 2..n /\ 2 - 1 = 1
      BY Lengths
    <2>2. n > 1 => h[2] = NextContext(h[1], path[2])
      BY <2>1
    <2>3. NextContext("map of presets", path[2]) = "preset"
      BY NextContexts
    <2> QED
      BY <2>2, <2>3
  <1>2. K(2) /\ (n > 1 => (K(3) <=> path[3] \in AllowedKeys.preset))
    BY <1>1, NamesAllowed, KeysAllowed
  <1>3. CASE n <= 3
    <2>1. (\A i \in 1..n : K(i)) <=> K(1) /\ (n > 1 => K(2)) /\ (n > 2 => K(3))
      BY <1>3, KeysTo
    <2>2. (n > 2 => n > 1) /\ ~(n > 3) /\ ~(n > 4)
      BY <1>3, Lengths
    <2> QED
      BY <1>2, <2>1, <2>2
  <1>4. CASE n > 3 /\ path[3] \notin AllowedKeys.preset
    <2>1. ~K(3) /\ n > 2 /\ 3 \in 1..n
      BY <1>2, <1>4, Lengths
    <2> QED
      BY <1>4, <2>1
  <1>5. CASE n > 3 /\ path[3] \in AllowedKeys.preset
    <2>1. path[3] = "fields"
      BY <1>5, KeysAllowed
    <2>2. /\ 3 \in 2..n /\ 3 - 1 = 2 /\ 4 \in 2..n /\ 4 - 1 = 3
          /\ n > 2 /\ n > 1
      BY <1>5, Lengths
    <2>3. h[3] = "field" /\ h[4] = "field value"
      <3>1. h[3] = NextContext(h[2], path[3]) /\ h[4] = NextContext(h[3], path[4])
        BY <2>2
      <3>2. NextContext("preset", "fields") = "field" /\ NextContext("field", path[4]) = "field value"
        BY NextContexts
      <3>3. h[3] = "field"
        BY <1>1, <2>1, <2>2, <3>1, <3>2
      <3> QED
        BY <3>1, <3>2, <3>3
    <2>4. K(4) <=> path[4] \in AllowedKeys.field
      BY <1>1, <2>1, <2>3, KeyChecks, KeysAllowed
    <2>5. K(5) <=> (path[4] = "type" => path[5] \in AllowedTypes)
      BY <2>3, KeyChecks, KeysAllowed
    <2>6. \A i \in 4..n : h[i] \in {"field value"}
      <3>1. \A i \in (4 + 1)..n : i \in 2..n
        BY Lengths
      <3>2. \A i \in (4 + 1)..n : h[i - 1] \in {"field value"} => h[i] \in {"field value"}
        <4> SUFFICES ASSUME NEW i \in (4 + 1)..n, h[i - 1] = "field value" PROVE h[i] = "field value"
          OBVIOUS
        <4>1. h[i] = NextContext(h[i - 1], path[i])
          BY <3>1
        <4>2. NextContext("field value", path[i]) = "field value"
          BY NextContexts
        <4> QED
          BY <4>1, <4>2
      <3>3. h[4] \in {"field value"}
        BY <2>3
      <3> QED
        BY <3>2, <3>3, StepsStay
    <2>7. \A i \in 6..n : K(i)
      <3> SUFFICES ASSUME NEW i \in 6..n PROVE K(i)
        OBVIOUS
      <3>1. i - 1 \in 4..n /\ i - 2 \in 4..n
        BY Lengths
      <3>2. h[i - 1] = "field value" /\ h[i - 2] = "field value"
        BY <2>6, <3>1
      <3> QED
        BY <3>2, KeysAllowed DEF KeyAllowed
    <2>8. CASE n = 4
      <3>1. (\A i \in 1..n : K(i)) <=> K(1) /\ K(2) /\ K(3) /\ K(4)
        BY <2>8, KeysTo
      <3>2. ~(n > 4)
        BY <2>8, Lengths
      <3> QED
        BY <1>2, <1>5, <2>1, <2>2, <2>4, <3>1, <3>2
    <2>9. CASE n > 4
      <3>1. (\A i \in 1..n : K(i)) <=> K(1) /\ K(2) /\ K(3) /\ K(4) /\ K(5) /\ \A i \in 6..n : K(i)
        BY <2>9, KeysTo
      <3> QED
        BY <1>2, <1>5, <2>1, <2>2, <2>4, <2>5, <2>7, <2>9, <3>1
    <2>10. n = 4 \/ n > 4
      BY <1>5, Lengths
    <2> QED
      BY <2>8, <2>9, <2>10
  <1>6. n <= 3 \/ n > 3
    BY Lengths
  <1> QED
    BY <1>3, <1>4, <1>5, <1>6

LEMMA PathsAllowed ==
    ASSUME NEW path, IsPath(path)
    PROVE  PathAllowed(path) <=> WellFormed(path)
  <1> DEFINE n == Len(path)
  <1>1. PICK h : /\ h[0] = "model" /\ \A i \in 1..n : h[i] = NextContext(h[i - 1], path[i])
                 /\ PathAllowed(path) <=> \A i \in 1..n : KeyAllowed(path, h, i)
                 /\ n \in Nat /\ n >= 1
    BY FirstKeys DEF IsPath
  <1>2. /\ path[1] \in {"table", "include"} => n = 1
        /\ path[1] \in {"relations", "aggregatable"} => n <= 3
        /\ path[1] = "computable" /\ n > 3 => path[3] = "type" /\ n = 4
        /\ path[1] = "presets" /\ n > 3 => path[3] # "extends"
    BY DEF IsPath
  <1>3. WellFormed(path) <=>
              /\ path[1] \in AllowedKeys.model
              /\ path[1] = "relations" /\ n > 2 => path[3] \in AllowedKeys.relation
              /\ path[1] = "computable" /\ n > 2 => path[3] \in AllowedKeys.computable
              /\ path[1] = "aggregatable" /\ n > 2 => path[3] \in AllowedKeys.aggregatable
              /\ path[1] = "presets" /\ n > 2 => path[3] \in AllowedKeys.preset
              /\ path[1] = "presets" /\ n > 3 /\ path[3] = "fields" => path[4] \in AllowedKeys.field
              /\ path[1] = "computable" /\ n > 3 /\ path[3] = "type" => path[4] \in AllowedTypes
              /\ path[1] = "presets" /\ n > 4 /\ path[4] = "type" => path[5] \in AllowedTypes
    BY DEF WellFormed
  <1> HIDE DEF n
  <1>4. 1 \in 1..n /\ (n > 1 => 2 \in 1..n /\ 2 - 1 = 1) /\ (n > 2 => 3 \in 1..n /\ 3 - 1 = 2) /\ 1 - 1 = 0
        /\ (\A i \in 2..n : i \in 1..n) /\ (\A i \in (1 + 1)..n : i \in 2..n) /\ (n = 1 => \A i \in 1..n : i = 1)
    <2>1. n \in Nat /\ n >= 1
      BY <1>1
    <2> QED
      BY <2>1
  <1>5. /\ h[1] = NextContext("model", path[1])
        /\ n > 1 => h[2] = NextContext(h[1], path[2])
        /\ n > 2 => h[3] = NextContext(h[2], path[3])
        /\ \A i \in 2..n : h[i] = NextContext(h[i - 1], path[i])
    BY <1>1, <1>4
  <1>6. KeyAllowed(path, h, 1) <=> path[1] \in AllowedKeys.model
    <2>1. ~(1 > 1)
      OBVIOUS
    <2>2. KeyAllowed(path, h, 1) <=> (h[0] \in DOMAIN AllowedKeys => path[1] \in AllowedKeys[h[0]])
      BY <1>4, <2>1 DEF KeyAllowed
    <2> QED
      BY <1>1, <2>2, KeysAllowed
  <1>7. CASE path[1] \notin AllowedKeys.model
    BY <1>1, <1>3, <1>4, <1>6, <1>7
  <1>8. CASE path[1] \in {"table", "include"}
    <2>1. path[1] \in AllowedKeys.model /\ path[1] \notin {"relations", "computable", "aggregatable", "presets"}
      BY <1>8, KeysAllowed
    <2>2. n = 1
      BY <1>2, <1>8
    <2>3. PathAllowed(path)
      BY <1>1, <1>4, <1>6, <2>1, <2>2
    <2>4. WellFormed(path)
      BY <1>3, <2>1
    <2> QED
      BY <2>3, <2>4
  <1>9. CASE path[1] = "relations"
    <2>1. path[1] \in AllowedKeys.model /\ n <= 3 /\ "relation" \in DOMAIN AllowedKeys
      BY <1>2, <1>9, KeysAllowed
    <2>2. h[1] = "map of relations"
      BY <1>5, <1>9, MapsAre
    <2>3. NextContext("map of relations", path[2]) = "relation"
      BY NextContexts
    <2>4. n > 1 => h[2] = "relation"
      BY <1>5, <2>2, <2>3
    <2>5. (\A i \in 1..n : KeyAllowed(path, h, i)) <=>
              KeyAllowed(path, h, 1) /\ (n > 2 => path[3] \in AllowedKeys["relation"])
      BY <1>1, <2>1, <2>2, <2>4, RelationKeys
    <2> QED
      BY <1>1, <1>3, <1>6, <1>9, <2>1, <2>5
  <1>10. CASE path[1] = "aggregatable"
    <2>1. path[1] \in AllowedKeys.model /\ n <= 3 /\ "aggregatable" \in DOMAIN AllowedKeys
      BY <1>2, <1>10, KeysAllowed
    <2>2. h[1] = "map of aggregatable"
      BY <1>5, <1>10, MapsAre
    <2>3. NextContext("map of aggregatable", path[2]) = "aggregatable"
      BY NextContexts
    <2>4. n > 1 => h[2] = "aggregatable"
      BY <1>5, <2>2, <2>3
    <2>5. (\A i \in 1..n : KeyAllowed(path, h, i)) <=>
              KeyAllowed(path, h, 1) /\ (n > 2 => path[3] \in AllowedKeys["aggregatable"])
      BY <1>1, <2>1, <2>2, <2>4, RelationKeys
    <2> QED
      BY <1>1, <1>3, <1>6, <1>10, <2>1, <2>5
  <1>11. CASE path[1] = "computable"
    <2>1. path[1] \in AllowedKeys.model /\ (n > 3 => path[3] = "type" /\ n = 4)
      BY <1>2, <1>11, KeysAllowed
    <2>2. h[1] = "map of computable"
      BY <1>5, <1>11, MapsAre
    <2>3. NextContext("map of computable", path[2]) = "computable" /\ NextContext("computable", path[3]) = "computable"
      BY NextContexts
    <2>4. n > 1 => h[2] = "computable"
      BY <1>5, <2>2, <2>3
    <2>5. n > 2 => h[3] = "computable"
      <3>1. n > 2 => n > 1
        BY <1>1, Lengths
      <3> QED
        BY <1>5, <2>3, <2>4, <3>1
    <2>6. (\A i \in 1..n : KeyAllowed(path, h, i)) <=>
              /\ KeyAllowed(path, h, 1)
              /\ n > 2 => path[3] \in AllowedKeys.computable
              /\ n > 3 => path[4] \in AllowedTypes
      BY <1>1, <2>1, <2>2, <2>4, <2>5, ComputableKeys
    <2> QED
      BY <1>1, <1>3, <1>6, <1>11, <2>1, <2>6
  <1>12. CASE path[1] = "aliases"
    <2>1. path[1] \in AllowedKeys.model
      BY <1>12, KeysAllowed
    <2>2. h[1] \in {"map of aliases"}
      BY <1>5, <1>12, MapsAre
    <2>3. \A i \in (1 + 1)..n : h[i - 1] \in {"map of aliases"} => h[i] \in {"map of aliases"}
      <3> SUFFICES ASSUME NEW i \in (1 + 1)..n, h[i - 1] = "map of aliases" PROVE h[i] = "map of aliases"
        OBVIOUS
      <3>1. i \in 2..n
        BY <1>4
      <3>2. h[i] = NextContext(h[i - 1], path[i])
        BY <1>5, <3>1
      <3>3. NextContext("map of aliases", path[i]) = "map of aliases"
        BY NextContexts
      <3> QED
        BY <3>2, <3>3
    <2>4. \A i \in 1..n : h[i] \in {"map of aliases"}
      BY <1>1, <2>2, <2>3, StepsStay
    <2>5. ASSUME NEW i \in 1..n, i # 1
          PROVE  KeyAllowed(path, h, i)
      <3>1. (i - 2 = 0 \/ i - 2 \in 1..n) /\ i - 1 \in 1..n
        <4>1. n \in Nat
          BY <1>1
        <4> QED
          BY <4>1, <2>5
      <3>2. h[i - 2] \notin {"field", "computable"}
        BY <1>1, <2>4, <3>1
      <3>3. h[i - 1] \notin DOMAIN AllowedKeys
        BY <2>4, <3>1, KeysAllowed
      <3> QED
        BY <3>2, <3>3 DEF KeyAllowed
    <2>6. PathAllowed(path)
      BY <1>1, <1>6, <2>1, <2>5
    <2>7. WellFormed(path)
      BY <1>3, <1>12, <2>1
    <2> QED
      BY <2>6, <2>7
  <1>13. CASE path[1] = "presets"
    <2>1. path[1] \in AllowedKeys.model /\ (n > 3 => path[3] # "extends")
      BY <1>2, <1>13, KeysAllowed
    <2>2. h[1] = "map of presets"
      BY <1>5, <1>13, MapsAre
    <2>3. (\A i \in 1..n : KeyAllowed(path, h, i)) <=>
              /\ KeyAllowed(path, h, 1)
              /\ n > 2 => path[3] \in AllowedKeys.preset
              /\ n > 3 /\ path[3] = "fields" => path[4] \in AllowedKeys.field
              /\ n > 4 /\ path[4] = "type" => path[5] \in AllowedTypes
      BY <1>1, <1>5, <2>1, <2>2, PresetKeys
    <2> QED
      BY <1>1, <1>3, <1>6, <1>13, <2>1, <2>3
  <1> QED
    BY <1>7, <1>8, <1>9, <1>10, <1>11, <1>12, <1>13, KeysAllowed

LEMMA TextsAllowed ==
    ASSUME NEW f \in Files, NEW t \in Texts(f)
    PROVE  validateYAML(t.paths) <=> \A path \in t.paths : WellFormed(path)
  <1>1. \A path \in t.paths : IsPath(path)
    BY FilesAssumption
  <1>2. validateYAML(t.paths) <=> \A path \in t.paths : PathAllowed(path)
    BY DEF validateYAML, PathAllowed
  <1> QED
    BY <1>1, <1>2, PathsAllowed

-----------------------------------------------------------------------------
(* Cycles and missing parents.                                             *)

(* What these presets extend. *)
Higher(presets, S) == UNION {ToSet(presets[q].extends) : q \in S \cap DOMAIN presets}

(* Level by level: reach[i] is what p extends through at most i others.    *)
AreAncestors(reach, presets, p) ==
    /\ reach[0] = ToSet(presets[p].extends)
    /\ \A i \in 1..Cardinality(DOMAIN presets) : reach[i] = reach[i - 1] \cup Higher(presets, reach[i - 1])
    /\ reach[Cardinality(DOMAIN presets)] = Ancestors(presets, p)

LEMMA AncestorsAre ==
    ASSUME NEW presets, Loaded(presets), NEW p \in DOMAIN presets
    PROVE  \E reach : AreAncestors(reach, presets, p)
  <1> DEFINE n == Cardinality(DOMAIN presets)
             S == SUBSET AllNames
             own == ToSet(presets[p].extends)
             step == [i \in 1..n |-> [X \in S |-> X \cup Higher(presets, X)]]
             Some(m) == m = [i \in 0..n |->
                               IF i = 0 THEN own
                               ELSE m[i - 1] \cup UNION {ToSet(presets[q].extends) : q \in m[i - 1] \cap DOMAIN presets}]
  <1>1. n \in Nat
    BY MeaningIs
  <1>2. \A q \in DOMAIN presets : ToSet(presets[q].extends) \subseteq AllNames
    BY ElementsInSeq DEF Loaded, Lists
  <1>3. own \in S /\ \A X \in S : X \cup Higher(presets, X) \in S
    BY <1>2 DEF Higher
  <1>4. PICK h : h = CHOOSE m : Some(m)
    OBVIOUS
  <1>5. Ancestors(presets, p) = h[n]
    BY <1>4 DEF Ancestors
  <1> HIDE DEF n, own, S
  <1>6. step \in [1..n -> [S -> S]]
    BY <1>3
  <1>7. PICK m \in [0..n -> S] : m[0] = own /\ \A i \in 1..n : m[i] = step[i][m[i - 1]]
    <2> HIDE DEF step, Some
    <2>1. \E m \in [0..n -> S] : GoesOn(m, n, own, step)
      BY <1>1, <1>3, <1>6, StepsExist
    <2> QED
      BY <2>1 DEF GoesOn
  <1>8. \A i \in 1..n : i - 1 \in 0..n /\ i \in 0..n /\ i # 0
    BY <1>1
  <1>9. \A i \in 1..n : m[i] = m[i - 1] \cup Higher(presets, m[i - 1])
    BY <1>7, <1>8
  <1>10. Some(m)
    <2> DEFINE one(i) == IF i = 0 THEN own ELSE m[i - 1] \cup Higher(presets, m[i - 1])
    <2>1. \A i \in 0..n : i = 0 \/ i \in 1..n
      BY <1>1
    <2> HIDE DEF step
    <2>2. \A i \in 0..n : m[i] = one(i)
      BY <1>7, <1>8, <1>9, <2>1
    <2> HIDE DEF one
    <2>3. m = [i \in 0..n |-> one(i)]
      BY <1>7, <2>2
    <2> QED
      BY <2>3 DEF one, Higher
  <1>11. Some(h)
    <2> HIDE DEF Some
    <2> QED
      BY <1>4, <1>10
  <1> HIDE DEF step
  <1>12. h[0] = own
    <2>1. 0 \in 0..n
      BY <1>1
    <2> QED
      BY <1>11, <2>1
  <1>13. \A i \in 1..n : h[i] = h[i - 1] \cup Higher(presets, h[i - 1])
    BY <1>8, <1>11 DEF Higher
  <1>14. AreAncestors(h, presets, p)
    BY <1>5, <1>12, <1>13 DEF AreAncestors, n, own
  <1> QED
    BY <1>14

(* A preset is settled by a set of others that has all they extend.        *)
Settled(presets, p, c) ==
    \E C \in SUBSET c :
        /\ p \notin C /\ ToSet(presets[p].extends) \subseteq C
        /\ \A q \in C : ToSet(presets[q].extends) \subseteq C

LEMMA SettledHasNoCycle ==
    ASSUME NEW presets, Loaded(presets), NEW p \in DOMAIN presets, NEW c, Settled(presets, p, c)
    PROVE  p \notin Ancestors(presets, p)
  <1> DEFINE n == Cardinality(DOMAIN presets)
  <1>1. PICK reach : AreAncestors(reach, presets, p)
    BY AncestorsAre
  <1>2. PICK C \in SUBSET c : /\ p \notin C /\ ToSet(presets[p].extends) \subseteq C
                              /\ \A q \in C : ToSet(presets[q].extends) \subseteq C
    BY DEF Settled
  <1>3. n \in Nat
    BY MeaningIs
  <1>4. reach[0] = ToSet(presets[p].extends) /\ reach[n] = Ancestors(presets, p)
        /\ \A i \in 1..n : reach[i] = reach[i - 1] \cup Higher(presets, reach[i - 1])
    BY <1>1 DEF AreAncestors
  <1>5. \A X \in SUBSET C : X \cup Higher(presets, X) \in SUBSET C
    BY <1>2 DEF Higher
  <1> HIDE DEF n
  <1>6. reach[0] \in SUBSET C
    BY <1>2, <1>4
  <1>7. \A i \in (0 + 1)..n : reach[i - 1] \in SUBSET C => reach[i] \in SUBSET C
    <2>1. \A i \in (0 + 1)..n : i \in 1..n
      OBVIOUS
    <2> QED
      BY <1>4, <1>5, <2>1
  <1>8. \A i \in 0..n : reach[i] \in SUBSET C
    BY <1>3, <1>6, <1>7, StepsStay
  <1>9. n \in 0..n
    BY <1>3
  <1> QED
    BY <1>2, <1>4, <1>8, <1>9

NoFaults(presets) == ~HasCycle(presets) /\ ~HasMissing(presets)

LEMMA SettledIsRight ==
    ASSUME NEW presets, Loaded(presets), \A p \in DOMAIN presets : Settled(presets, p, DOMAIN presets)
    PROVE  NoFaults(presets)
  <1>1. ~HasCycle(presets)
    BY SettledHasNoCycle DEF HasCycle
  <1>2. ~HasMissing(presets)
    BY DEF HasMissing, Settled
  <1> QED
    BY <1>1, <1>2 DEF NoFaults

(* A preset at the end of a chain from it is its own ancestor.             *)
LEMMA ChainIsCycle ==
    ASSUME NEW presets, Loaded(presets), NEW p \in DOMAIN presets,
           NEW m \in Nat, m <= Cardinality(DOMAIN presets), NEW a, a[0] = p,
           \A j \in 0..m : a[j] \in DOMAIN presets /\ a[j + 1] \in ToSet(presets[a[j]].extends)
    PROVE  a[m + 1] \in Ancestors(presets, p)
  <1> DEFINE n == Cardinality(DOMAIN presets)
             at(i) == IF i <= m THEN i + 1 ELSE m + 1
  <1>1. PICK reach : AreAncestors(reach, presets, p)
    BY AncestorsAre
  <1>2. n \in Nat /\ m <= n
    BY MeaningIs
  <1>3. reach[0] = ToSet(presets[p].extends) /\ reach[n] = Ancestors(presets, p)
        /\ \A i \in 1..n : reach[i] = reach[i - 1] \cup Higher(presets, reach[i - 1])
    BY <1>1 DEF AreAncestors
  <1> DEFINE P == {i \in Nat : i <= n => a[at(i)] \in reach[i]}
  <1> HIDE DEF n
  <1>4. 0 \in P
    <2>1. 0 \in 0..m /\ at(0) = 0 + 1
      OBVIOUS
    <2>2. a[0 + 1] \in ToSet(presets[a[0]].extends)
      BY <2>1
    <2> QED
      BY <1>3, <2>1, <2>2
  <1>5. ASSUME NEW i \in Nat, i \in P
        PROVE  i + 1 \in P
    <2> SUFFICES ASSUME i + 1 <= n PROVE a[at(i + 1)] \in reach[i + 1]
      OBVIOUS
    <2>1. i + 1 \in 1..n /\ (i + 1) - 1 = i /\ i <= n
      BY <1>2
    <2>2. a[at(i)] \in reach[i]
      BY <1>5, <2>1
    <2>3. reach[i + 1] = reach[i] \cup Higher(presets, reach[i])
      BY <1>3, <2>1
    <2>4. CASE i + 1 <= m
      <3>1. i + 1 \in 0..m /\ at(i) = i + 1 /\ at(i + 1) = (i + 1) + 1
        BY <2>4
      <3> HIDE DEF at, P
      <3>2. a[i + 1] \in DOMAIN presets /\ a[(i + 1) + 1] \in ToSet(presets[a[i + 1]].extends)
        BY <3>1
      <3>3. a[i + 1] \in reach[i]
        BY <2>2, <3>1
      <3>4. a[(i + 1) + 1] \in Higher(presets, reach[i])
        BY <3>2, <3>3 DEF Higher
      <3> QED
        BY <2>3, <3>1, <3>4
    <2>5. CASE ~(i + 1 <= m)
      <3>1. at(i) = m + 1 /\ at(i + 1) = m + 1
        BY <2>5
      <3> HIDE DEF at, P
      <3> QED
        BY <2>2, <2>3, <3>1
    <2> QED
      BY <2>4, <2>5
  <1> HIDE DEF P
  <1>6. \A i \in Nat : i \in P
    BY <1>4, <1>5, InductionOnNats
  <1>7. at(n) = m + 1 /\ n <= n
    BY <1>2
  <1> HIDE DEF at
  <1>8. a[at(n)] \in reach[n]
    BY <1>2, <1>6, <1>7 DEF P
  <1> QED
    BY <1>3, <1>7, <1>8

WellFormedText(t) == \A path \in t.paths : WellFormed(path)

(* What is read is well formed, what is included has no faults, and what is *)
(* resolved extends only what was resolved before.                          *)
FaultsInv ==
    /\ phase # "read" => WellFormedText(file)
    /\ \A i \in 1..(next - 1) : WellFormedText(file.includes[i]) /\ NoFaults(file.includes[i].presets)
    /\ phase = "resolve" /\ More => WellFormedText(Included)
    /\ phase = "resolve" => \A p \in cache : Settled(work, p, cache)
    /\ status = "ok" => ~More /\ phase # "read" /\ NoFaults(Merged(file))
    /\ status = "invalid" => \E t \in Texts(file) : ~WellFormedText(t)
    /\ status = "cycle" => HasCycle(work)
    /\ status = "missing" => HasMissing(work)

(* An error, with what it says. *)
LEMMA FaultReported ==
    ASSUME FaultsInv, NEW error, Fail(error), error # "ok",
           error = "invalid" => \E t \in Texts(file) : ~WellFormedText(t),
           error = "cycle" => HasCycle(work), error = "missing" => HasMissing(work)
    PROVE  FaultsInv'
  <1>1. UNCHANGED <<file, phase, next, model, work, cache, stack>> /\ status' = error
    BY DEF Fail
  <1>2. (More <=> More') /\ Included' = Included
    BY <1>1 DEF More, Included
  <1>3. (HasCycle(work) => HasCycle(work)') /\ (HasMissing(work) => HasMissing(work)')
    BY <1>1
  <1>4. \A p : Settled(work, p, cache) => Settled(work, p, cache)'
    BY <1>1
  <1> QED
    BY <1>1, <1>2, <1>3, <1>4 DEF FaultsInv

LEMMA FaultsStay ==
    ASSUME FaultsInv, UNCHANGED <<file, status, phase, next, work, cache>>
    PROVE  FaultsInv'
  <1>1. (More <=> More') /\ Included' = Included
    BY DEF More, Included
  <1>2. (HasCycle(work) => HasCycle(work)') /\ (HasMissing(work) => HasMissing(work)')
    OBVIOUS
  <1>3. \A p : Settled(work, p, cache) => Settled(work, p, cache)'
    OBVIOUS
  <1> QED
    BY <1>1, <1>2, <1>3 DEF FaultsInv

LEMMA ReadFileFaults ==
    ASSUME LoadingInv, FaultsInv, ReadFile
    PROVE  FaultsInv'
  <1>1. file \in Files /\ file \in Texts(file) /\ status = "loading" /\ phase = "read"
    BY DEF LoadingInv, ReadFile, Loading, Texts
  <1>2. validateYAML(file.paths) <=> WellFormedText(file)
    BY <1>1, TextsAllowed DEF WellFormedText
  <1>3. CASE WellFormedText(file)
    <2>1. phase' = "include" /\ UNCHANGED <<file, status, next, model, work, cache, stack>>
      BY <1>2, <1>3 DEF ReadFile
    <2> QED
      BY <1>1, <1>3, <2>1 DEF FaultsInv
  <1>4. CASE ~WellFormedText(file)
    <2>1. Fail("invalid")
      BY <1>2, <1>4 DEF ReadFile
    <2> QED
      BY <1>1, <1>4, <2>1, FaultReported
  <1> QED
    BY <1>3, <1>4

LEMMA ResolvingHasNoFaults ==
    ASSUME LoadingInv, FaultsInv, phase = "include", status = "loading", NEW presets, StartResolving(presets),
           More => WellFormedText(Included)
    PROVE  FaultsInv'
  <1>1. phase' = "resolve" /\ cache' = {} /\ UNCHANGED <<file, status, next>>
    BY DEF StartResolving
  <1>2. (More <=> More') /\ Included' = Included
    BY <1>1 DEF More, Included
  <1> QED
    BY <1>1, <1>2 DEF FaultsInv

LEMMA ReadTemplateFaults ==
    ASSUME LoadingInv, FaultsInv, ReadTemplate
    PROVE  FaultsInv'
  <1>1. file \in Files /\ Included \in Texts(file) /\ status = "loading" /\ phase = "include" /\ More
    BY IncludedText DEF LoadingInv, ReadTemplate, Loading
  <1>2. validateYAML(Included.paths) <=> WellFormedText(Included)
    BY <1>1, TextsAllowed DEF WellFormedText
  <1>3. CASE Fail("unreadable")
    BY <1>3, FaultReported
  <1>4. CASE Fail("invalid") /\ ~validateYAML(Included.paths)
    BY <1>1, <1>2, <1>4, FaultReported
  <1>5. CASE StartResolving(Included.presets) /\ validateYAML(Included.paths)
    BY <1>1, <1>2, <1>5, ResolvingHasNoFaults
  <1> QED
    BY <1>3, <1>4, <1>5 DEF ReadTemplate

LEMMA AllIncludedFaults ==
    ASSUME LoadingInv, FaultsInv, AllIncluded
    PROVE  FaultsInv'
  BY ResolvingHasNoFaults DEF AllIncluded, Loading

(* The running calls are no more than there are presets. *)
LEMMA CallsAreFew ==
    ASSUME LoadingInv, phase = "resolve"
    PROVE  Len(stack) <= Cardinality(DOMAIN work)
  <1> DEFINE n == Len(stack)
             D == DOMAIN work
             names == [i \in 1..n |-> stack[i].name]
  <1>1. n \in Nat /\ IsFiniteSet(D)
    BY DEF LoadingInv, WorkRight, Loaded
  <1>2. \A i \in 1..n : stack[i].name \in D
    BY DEF LoadingInv, WorkRight, StackRight, FrameRight
  <1>3. \A i, j \in 1..n : stack[i].name = stack[j].name => i = j
    BY DEF LoadingInv, WorkRight, StackRight
  <1> HIDE DEF n, D
  <1>4. names \in Injection(1..n, D)
    BY <1>2, <1>3 DEF Injection, IsInjective
  <1>5. Cardinality(1..n) = n
    BY <1>1, FS_Interval
  <1> HIDE DEF names
  <1>6. Cardinality(1..n) <= Cardinality(D)
    BY <1>1, <1>4, FS_Injection
  <1> QED
    BY <1>5, <1>6 DEF n, D

(* Where the call on top goes next. *)
LEMMA NextParentIs ==
    ASSUME LoadingInv, phase = "resolve", stack # <<>>, HasParentLeft
    PROVE  /\ Len(stack) \in Nat /\ Len(stack) >= 1 /\ Top = stack[Len(stack)]
           /\ Top.name \in DOMAIN work /\ NextParent \in ToSet(work[Top.name].extends)
  <1> DEFINE n == Len(stack)
             names == ParentNames(work, Top.name)
  <1>1. WorkRight /\ stack \in Seq(Frames)
    BY DEF LoadingInv
  <1>2. n \in Nat /\ n >= 1 /\ Top = stack[n]
    BY <1>1, FrontAndLast DEF Top
  <1> HIDE DEF n
  <1>3. FrameRight(Top, work, cache)
    BY <1>1, <1>2 DEF WorkRight, StackRight, n
  <1>4. Top.name \in DOMAIN work /\ Loaded(work)
    BY <1>1, <1>3 DEF FrameRight, WorkRight
  <1>5. names \in Seq(AllNames) /\ ToSet(names) = ToSet(work[Top.name].extends)
    BY <1>4, ParentsInSeq DEF ParentNames
  <1>6. Top.parent <= Len(names) /\ NextParent = names[Top.parent] /\ Top.parent \in 1..(Len(names) + 1)
    BY <1>3 DEF FrameRight, HasParentLeft, NextParent, Parents, parseParents, ParentNames
  <1> HIDE DEF names
  <1>7. NextParent \in ToSet(names)
    <2>1. Top.parent \in DOMAIN names
      BY <1>5, <1>6
    <2> QED
      BY <1>6, <2>1 DEF ToSet
  <1> QED
    BY <1>2, <1>4, <1>5, <1>7 DEF n

(* Each call is for a parent of the preset of the call before it. *)
LEMMA CallsAreForParents ==
    ASSUME LoadingInv, phase = "resolve", NEW i \in 1..(Len(stack) - 1)
    PROVE  stack[i + 1].name \in ToSet(work[stack[i].name].extends)
  <1> DEFINE fr == stack[i]
             names == ParentNames(work, fr.name)
  <1>1. WorkRight /\ i \in 1..Len(stack)
    BY DEF LoadingInv
  <1>2. FrameRight(fr, work, cache) /\ Calls(fr, stack[i + 1], work) /\ Loaded(work)
    BY <1>1 DEF WorkRight, StackRight
  <1>3. fr.parent \in 1..(Len(names) + 1) /\ fr.parent <= Len(names) /\ names[fr.parent] = stack[i + 1].name
        /\ fr.name \in DOMAIN work
    BY <1>2 DEF FrameRight, Calls
  <1>4. names \in Seq(AllNames) /\ ToSet(names) = ToSet(work[fr.name].extends)
    BY <1>2, <1>3, ParentsInSeq DEF ParentNames
  <1> HIDE DEF names
  <1>5. fr.parent \in DOMAIN names
    BY <1>3, <1>4
  <1>6. names[fr.parent] \in ToSet(names)
    BY <1>5 DEF ToSet
  <1> QED
    BY <1>3, <1>4, <1>6

(* A call that would be for a preset on the stack: its preset is above      *)
(* itself.                                                                  *)
LEMMA CycleIsReal ==
    ASSUME LoadingInv, phase = "resolve", stack # <<>>, HasParentLeft, OnStack(NextParent)
    PROVE  HasCycle(work)
  <1> DEFINE n == Len(stack)
             p == NextParent
  <1>1. n \in Nat /\ n >= 1 /\ Top = stack[n] /\ p \in ToSet(work[Top.name].extends)
        /\ DOMAIN stack = 1..n /\ n <= Cardinality(DOMAIN work)
    BY NextParentIs, CallsAreFew DEF LoadingInv
  <1>2. PICK k \in 1..n : stack[k].name = p
    BY <1>1 DEF OnStack, Names
  <1>3. Loaded(work) /\ \A i \in 1..n : stack[i].name \in DOMAIN work
    BY DEF LoadingInv, WorkRight, StackRight, FrameRight
  <1>4. \A i \in 1..(n - 1) : stack[i + 1].name \in ToSet(work[stack[i].name].extends)
    BY CallsAreForParents
  <1> DEFINE m == n - k
             a == [j \in 0..(m + 1) |-> IF j <= m THEN stack[k + j].name ELSE p]
  <1> HIDE DEF n, p
  <1>5. m \in Nat /\ k + m = n /\ Cardinality(DOMAIN work) \in Nat /\ m <= Cardinality(DOMAIN work)
    <2>1. Cardinality(DOMAIN work) \in Nat
      BY <1>3, MeaningIs
    <2>2. n \in Nat /\ n <= Cardinality(DOMAIN work)
      BY <1>1
    <2> QED
      BY <2>1, <2>2
  <1> HIDE DEF m
  <1>6. /\ \A j \in 0..m : a[j] = stack[k + j].name
        /\ a[m + 1] = p
    <2>1. \A j \in 0..m : j \in 0..(m + 1) /\ j <= m
      BY <1>5
    <2>2. m + 1 \in 0..(m + 1) /\ ~(m + 1 <= m)
      BY <1>5
    <2> QED
      BY <2>1, <2>2
  <1> HIDE DEF a
  <1>7. a[0] = p
    <2>1. 0 \in 0..m /\ k + 0 = k
      BY <1>5
    <2> QED
      BY <1>2, <1>6, <2>1
  <1>8. ASSUME NEW j \in 0..m
        PROVE  a[j] \in DOMAIN work /\ a[j + 1] \in ToSet(work[a[j]].extends)
    <2>1. k + j \in 1..n
      BY <1>1, <1>5
    <2>2. a[j] = stack[k + j].name /\ a[j] \in DOMAIN work
      BY <1>3, <1>6, <2>1
    <2>3. CASE j = m
      <3>1. k + j = n
        BY <1>5, <2>3
      <3> QED
        BY <1>1, <1>6, <2>2, <2>3, <3>1
    <2>4. CASE j # m
      <3>1. k + j \in 1..(n - 1) /\ (k + j) + 1 = k + (j + 1) /\ j + 1 \in 0..m
        BY <1>1, <1>5, <2>4
      <3>2. a[j + 1] = stack[k + (j + 1)].name
        BY <1>6, <3>1
      <3>3. stack[(k + j) + 1].name \in ToSet(work[stack[k + j].name].extends)
        BY <1>4, <3>1
      <3> QED
        BY <2>2, <3>1, <3>2, <3>3
    <2> QED
      BY <2>3, <2>4
  <1>9. p \in DOMAIN work
    BY <1>2, <1>3
  <1>10. a[m + 1] \in Ancestors(work, p)
    BY <1>3, <1>5, <1>7, <1>8, <1>9, ChainIsCycle
  <1> QED
    BY <1>6, <1>9, <1>10 DEF HasCycle

LEMMA DescendFaults ==
    ASSUME LoadingInv, FaultsInv, Descend
    PROVE  FaultsInv'
  <1>1. phase = "resolve" /\ stack # <<>> /\ HasParentLeft
    BY DEF Descend, Loading
  <1>2. CASE Fail("cycle") /\ OnStack(NextParent)
    BY <1>1, <1>2, CycleIsReal, FaultReported
  <1>3. CASE Fail("missing") /\ NextParent \notin DOMAIN work
    <2>1. Top.name \in DOMAIN work /\ NextParent \in ToSet(work[Top.name].extends)
      BY <1>1, NextParentIs
    <2>2. HasMissing(work)
      BY <1>3, <2>1 DEF HasMissing
    <2> QED
      BY <1>3, <2>2, FaultReported
  <1>4. CASE Call(NextParent)
    BY <1>4, FaultsStay DEF Call
  <1> QED
    BY <1>2, <1>3, <1>4 DEF Descend

LEMMA LeaveFaults ==
    ASSUME LoadingInv, FaultsInv, Leave
    PROVE  FaultsInv'
  <1> DEFINE n == Len(stack)
             p == Top.name
             names == ParentNames(work, p)
             w == [work EXCEPT ![p].fields = mergeFields(Top.result, @)]
             c == cache \cup {p}
  <1>1. phase = "resolve" /\ status = "loading" /\ stack # <<>> /\ ~HasParentLeft
        /\ work' = w /\ cache' = c /\ UNCHANGED <<file, status, phase, next, model>>
    BY DEF Leave, Loading, Cached
  <1>2. WorkRight /\ stack \in Seq(Frames)
    BY <1>1 DEF LoadingInv
  <1>3. n \in Nat /\ n >= 1 /\ Top = stack[n]
    BY <1>1, <1>2, FrontAndLast DEF Top
  <1>4. FrameRight(Top, work, cache) /\ Loaded(work) /\ cache \subseteq DOMAIN work
        /\ \A q \in cache : ToSet(work[q].extends) \subseteq cache
    BY <1>2, <1>3 DEF WorkRight, StackRight
  <1>5. p \in DOMAIN work /\ p \notin cache
    BY <1>4 DEF FrameRight
  <1>6. \A q \in DOMAIN work : w[q].extends = work[q].extends
    <2>1. work[p] = Preset(work[p].extends, work[p].fields)
      BY <1>4, <1>5 DEF Loaded
    <2> HIDE DEF p
    <2> QED
      BY <1>5, <2>1 DEF Preset
  <1> HIDE DEF w
  <1>7. ToSet(work[p].extends) \subseteq cache
    <2>1. names \in Seq(AllNames) /\ ToSet(names) = ToSet(work[p].extends)
      BY <1>4, <1>5, ParentsInSeq DEF ParentNames
    <2>2. Top.parent \in 1..(Len(names) + 1) /\ \A j \in 1..(Top.parent - 1) : names[j] \in cache
      BY <1>4 DEF FrameRight
    <2>3. ~(Top.parent <= Len(names))
      BY <1>1 DEF HasParentLeft, Parents, parseParents, ParentNames
    <2> HIDE DEF names
    <2>4. Top.parent - 1 = Len(names) /\ DOMAIN names = 1..Len(names)
      BY <2>1, <2>2, <2>3
    <2>5. \A j \in DOMAIN names : names[j] \in cache
      BY <2>2, <2>4
    <2> QED
      BY <2>1, <2>5 DEF ToSet
  <1> HIDE DEF p
  <1>8. Settled(w, p, c)
    BY <1>4, <1>5, <1>6, <1>7 DEF Settled
  <1>9. \A q \in cache : Settled(w, q, c)
    <2> SUFFICES ASSUME NEW q \in cache PROVE Settled(w, q, c)
      OBVIOUS
    <2>1. PICK C \in SUBSET cache : /\ q \notin C /\ ToSet(work[q].extends) \subseteq C
                                    /\ \A r \in C : ToSet(work[r].extends) \subseteq C
      BY <1>1 DEF FaultsInv, Settled
    <2>2. C \in SUBSET c /\ \A r \in C : r \in DOMAIN work
      BY <1>4, <2>1
    <2>3. ToSet(w[q].extends) \subseteq C /\ \A r \in C : ToSet(w[r].extends) \subseteq C
      BY <1>4, <1>6, <2>1, <2>2
    <2> QED
      BY <2>1, <2>2, <2>3 DEF Settled
  <1>10. \A q \in cache' : Settled(work', q, cache')
    BY <1>1, <1>8, <1>9
  <1>11. (More <=> More') /\ Included' = Included
    BY <1>1 DEF More, Included
  <1> QED
    BY <1>1, <1>10, <1>11 DEF FaultsInv

(* What is resolved had no faults. *)
LEMMA ResolvedHasNoFaults ==
    ASSUME LoadingInv, MeaningInv, FaultsInv, Resolved
    PROVE  NoFaults(Base)
  <1>1. phase = "resolve" /\ status = "loading" /\ cache = DOMAIN work
    BY DEF Resolved, Loading
  <1>2. DOMAIN work = DOMAIN Base /\ \A q \in DOMAIN work : work[q].extends = Base[q].extends
    BY <1>1 DEF MeaningInv, WorkMeans
  <1>3. Loaded(Base)
    BY ResolvedMeans
  <1>4. \A q \in DOMAIN Base : Settled(Base, q, DOMAIN Base)
    <2> SUFFICES ASSUME NEW q \in DOMAIN Base PROVE Settled(Base, q, DOMAIN Base)
      OBVIOUS
    <2>1. Settled(work, q, cache)
      BY <1>1, <1>2 DEF FaultsInv
    <2> QED
      BY <1>1, <1>2, <2>1 DEF Settled
  <1> QED
    BY <1>3, <1>4, SettledIsRight

LEMMA IncludeTemplateFaults ==
    ASSUME LoadingInv, MeaningInv, FaultsInv, IncludeTemplate
    PROVE  FaultsInv'
  <1>1. Resolved /\ More /\ phase = "resolve" /\ phase' = "include" /\ status = "loading" /\ next' = next + 1
        /\ UNCHANGED <<file, status>>
    BY DEF IncludeTemplate, Resolved, Loading
  <1>2. NoFaults(Included.presets) /\ WellFormedText(Included)
    BY <1>1, ResolvedHasNoFaults DEF FaultsInv, Base
  <1>3. next \in Nat /\ \A i \in 1..((next + 1) - 1) : i = next \/ i \in 1..(next - 1)
    <2>1. next \in 1..Len(file.includes) /\ Len(file.includes) \in Nat
      BY <1>1, IncludedText, TextsLoaded DEF LoadingInv
    <2> QED
      BY <2>1
  <1>4. \A i \in 1..((next + 1) - 1) : WellFormedText(file.includes[i]) /\ NoFaults(file.includes[i].presets)
    BY <1>2, <1>3 DEF FaultsInv, Included
  <1> QED
    BY <1>1, <1>4 DEF FaultsInv

LEMMA RegisterFaults ==
    ASSUME LoadingInv, MeaningInv, FaultsInv, Register
    PROVE  FaultsInv'
  <1>1. Resolved /\ ~More /\ phase = "resolve" /\ status = "loading" /\ status' = "ok"
        /\ UNCHANGED <<file, phase, next, work, cache, stack>>
    BY DEF Register, Resolved, Loading
  <1>2. next - 1 = Len(file.includes)
    BY <1>1, TextsLoaded DEF LoadingInv, More
  <1>3. Base = Merged(file)
    BY <1>1, <1>2 DEF MeaningInv, Merged, Base
  <1>4. NoFaults(Merged(file))
    BY <1>1, <1>3, ResolvedHasNoFaults
  <1>5. (More <=> More') /\ Included' = Included
    BY <1>1 DEF More, Included
  <1>6. \A p : Settled(work, p, cache) => Settled(work, p, cache)'
    BY <1>1
  <1>7. NoFaults(Merged(file))'
    BY <1>1, <1>4
  <1> QED
    BY <1>1, <1>5, <1>6, <1>7 DEF FaultsInv

LEMMA FaultsKept ==
    ASSUME LoadingInv, MeaningInv, FaultsInv, [Next]_vars
    PROVE  FaultsInv'
  <1>1. CASE ReadFile
    BY <1>1, ReadFileFaults
  <1>2. CASE ReadTemplate
    BY <1>2, ReadTemplateFaults
  <1>3. CASE AllIncluded
    BY <1>3, AllIncludedFaults
  <1>4. CASE Pick
    BY <1>4, FaultsStay DEF Pick, Call
  <1>5. CASE Descend
    BY <1>5, DescendFaults
  <1>6. CASE MergeParent
    BY <1>6, FaultsStay DEF MergeParent
  <1>7. CASE Leave
    BY <1>7, LeaveFaults
  <1>8. CASE IncludeTemplate
    BY <1>8, IncludeTemplateFaults
  <1>9. CASE Register
    BY <1>9, RegisterFaults
  <1>10. CASE UNCHANGED vars
    BY <1>10, FaultsStay DEF vars
  <1> QED
    BY <1>1, <1>2, <1>3, <1>4, <1>5, <1>6, <1>7, <1>8, <1>9, <1>10 DEF Next

(* Whatever the order of the map: a file that loads has no cycle, no        *)
(* missing parent and no unknown key, in no template either; one that does  *)
(* not load has the fault reported.  (LoadModelsFromDir)                    *)
THEOREM FaultsAlwaysFound == Spec => []FaultsFound
  <1>1. Init => MeaningInv /\ FaultsInv
    <2> SUFFICES ASSUME Init PROVE MeaningInv /\ FaultsInv
      OBVIOUS
    <2>1. file \in Files /\ model.presets = file.presets /\ next = 1 /\ status = "loading" /\ phase = "read"
      BY DEF Init
    <2>2. model.presets = MergedTo(file)[next - 1] /\ \A i \in 1..(next - 1) : FALSE
      BY <2>1, MergedToIs
    <2> QED
      BY <2>1, <2>2 DEF MeaningInv, FaultsInv
  <1>2. LoadingInv /\ MeaningInv /\ FaultsInv /\ [Next]_vars => MeaningInv' /\ FaultsInv'
    BY MeaningKept, FaultsKept
  <1>3. LoadingInv /\ FaultsInv => FaultsFound
    <2> SUFFICES ASSUME LoadingInv, FaultsInv PROVE FaultsFound
      OBVIOUS
    <2> DEFINE texts == {file.paths} \cup {file.includes[i].paths : i \in DOMAIN file.includes}
               IsWellFormed(paths) == \A path \in paths : WellFormed(path)
    <2>1. file.includes \in Seq(AllTexts) /\ DOMAIN file.includes = 1..Len(file.includes)
          /\ next \in 1..(Len(file.includes) + 1)
      BY TextsLoaded DEF LoadingInv
    <2>2. ASSUME status = "ok"
          PROVE  /\ \A paths \in texts : IsWellFormed(paths)
                 /\ \A presets \in Scopes(file) : ~HasCycle(presets) /\ ~HasMissing(presets)
      <3>1. next - 1 = Len(file.includes)
        BY <2>1, <2>2 DEF FaultsInv, More
      <3>2. \A i \in DOMAIN file.includes : WellFormedText(file.includes[i]) /\ NoFaults(file.includes[i].presets)
        BY <2>1, <3>1 DEF FaultsInv
      <3>3. WellFormedText(file) /\ NoFaults(Merged(file))
        BY <2>2 DEF FaultsInv
      <3>4. \A paths \in texts : IsWellFormed(paths)
        BY <3>2, <3>3 DEF WellFormedText
      <3>5. \A presets \in Scopes(file) : NoFaults(presets)
        BY <3>2, <3>3 DEF Scopes
      <3> QED
        BY <3>4, <3>5 DEF NoFaults
    <2>3. ASSUME status = "invalid"
          PROVE  \E paths \in texts : ~IsWellFormed(paths)
      <3>1. PICK t \in Texts(file) : ~WellFormedText(t)
        BY <2>3 DEF FaultsInv
      <3>2. t.paths \in texts
        <4>1. t = file \/ \E i \in DOMAIN file.includes : t = file.includes[i]
          BY DEF Texts, ToSet
        <4> QED
          BY <4>1
      <3> QED
        BY <3>1, <3>2 DEF WellFormedText
    <2>4. (status = "cycle" => HasCycle(work)) /\ (status = "missing" => HasMissing(work))
      BY DEF FaultsInv
    <2> QED
      BY <2>2, <2>3, <2>4 DEF FaultsFound
  <1> QED
    BY <1>1, <1>2, <1>3, AlwaysLoading, PTL DEF Spec
=============================================================================
