---------------------------- MODULE CommonLemmas ----------------------------
(***************************************************************************)
(* Facts about numbers, finite sets and sequences that several proofs need.*)
(*                                                                         *)
(* The induction theorems of the library take the predicate as a parameter,*)
(* which the provers at hand cannot instantiate.  Here induction is stated *)
(* about the set of numbers for which something holds.                     *)
(***************************************************************************)
EXTENDS Integers, Sequences, FiniteSets, FiniteSetsExt, Selections,
        FiniteSetTheorems, SequenceTheorems, TLAPS

-----------------------------------------------------------------------------
(* Least and greatest numbers.                                             *)

LEMMA MinOfNats ==
    ASSUME NEW S, S \subseteq Nat, S # {}
    PROVE  Min(S) \in S /\ \A y \in S : Min(S) <= y
  <1> DEFINE Upto == {0..y : y \in S}
  <1>1. Upto \subseteq FiniteSubsetsOf(Nat) /\ Upto # {}
    <2>1. \A y \in S : 0..y \in SUBSET Nat /\ IsFiniteSet(0..y)
      BY FS_Interval
    <2> QED
      BY <2>1 DEF FiniteSubsetsOf
  <1>2. PICK X \in Upto : \A Y \in Upto : <<Y, X>> \notin StrictSubsetOrdering(Nat)
    BY <1>1, WFMin, FS_StrictSubsetOrderingWellFounded
  <1>3. PICK x \in S : X = 0..x
    OBVIOUS
  <1>4. ASSUME NEW y \in S, y < x
        PROVE  FALSE
    <2>1. 0..y \subseteq 0..x /\ 0..y # 0..x
      <3>1. x \in 0..x /\ x \notin 0..y
        BY <1>4
      <3> QED
        BY <1>4, <3>1
    <2>2. 0..y \in SUBSET Nat /\ 0..x \in SUBSET Nat
      OBVIOUS
    <2>3. <<0..y, 0..x>> \in StrictSubsetOrdering(Nat)
      BY <2>1, <2>2 DEF StrictSubsetOrdering
    <2>4. 0..y \in Upto
      OBVIOUS
    <2> HIDE DEF Upto
    <2> QED
      BY <1>2, <1>3, <2>3, <2>4
  <1>5. \A y \in S : x <= y
    BY <1>4
  <1> QED
    BY <1>5 DEF Min

LEMMA MaxOfNats ==
    ASSUME NEW S, S \subseteq Nat, S # {}, NEW b \in Nat, \A y \in S : y <= b
    PROVE  Max(S) \in S /\ \A y \in S : y <= Max(S)
  <1> DEFINE Gaps == {b - y : y \in S}
             g == Min(Gaps)
  <1>1. Gaps \subseteq Nat
    BY \A y \in S : y \in Nat /\ b - y \in Nat
  <1>2. Gaps # {}
    OBVIOUS
  <1>3. g \in Gaps /\ \A z \in Gaps : g <= z
    BY <1>1, <1>2, MinOfNats
  <1> HIDE DEF g
  <1>4. PICK x \in S : b - x = g
    BY <1>3
  <1>5. \A y \in S : x >= y
    BY <1>3, <1>4
  <1>6. Max(S) \in S /\ \A y \in S : Max(S) >= y
    BY <1>5 DEF Max
  <1> QED
    BY <1>6

(* The image of a finite set is finite, and no larger. *)
LEMMA FiniteImage ==
    ASSUME NEW S, IsFiniteSet(S), NEW f, DOMAIN f = S, f \in [S -> {f[x] : x \in S}]
    PROVE  /\ IsFiniteSet({f[x] : x \in S})
           /\ Cardinality({f[x] : x \in S}) <= Cardinality(S)
  <1>1. f \in Surjection(S, {f[x] : x \in S})
    BY DEF Surjection
  <1> QED
    BY <1>1, FS_Surjection

(* Induction: n + 1 is in S whenever n is.                                 *)
LEMMA InductionOnNats ==
    ASSUME NEW S, 0 \in S, \A n \in Nat : n \in S => n + 1 \in S
    PROVE  \A n \in Nat : n \in S
  <1> DEFINE Left == Nat \ S
  <1>1. SUFFICES ASSUME Left # {} PROVE FALSE
    OBVIOUS
  <1> DEFINE n == Min(Left)
  <1>2. n \in Left /\ \A k \in Left : n <= k
    BY <1>1, MinOfNats
  <1> HIDE DEF n
  <1>3. n \in Nat /\ n # 0 /\ n \notin S
    BY <1>2
  <1>4. n - 1 \in Nat /\ n - 1 \notin Left
    BY <1>2, <1>3
  <1>5. (n - 1) + 1 \in S
    BY <1>4
  <1> QED
    BY <1>3, <1>5

(* A union of finitely many finite sets, given by a function. *)
LEMMA FiniteUnion ==
    ASSUME NEW S, IsFiniteSet(S), NEW g, DOMAIN g = S, g \in [S -> {g[x] : x \in S}],
           \A x \in S : IsFiniteSet(g[x])
    PROVE  IsFiniteSet(UNION {g[x] : x \in S})
  <1>1. IsFiniteSet({g[x] : x \in S})
    BY FiniteImage
  <1> QED
    BY <1>1, FS_UNION

-----------------------------------------------------------------------------
(* Sequences.                                                              *)

(* Induction: whatever holds of a sequence holds of one that is longer.    *)
LEMMA InductionOnSeqs ==
    ASSUME NEW E, NEW P, <<>> \in P, \A s \in Seq(E) : s \in P => \A e \in E : Append(s, e) \in P
    PROVE  \A s \in Seq(E) : s \in P
  <1> DEFINE Good == {n \in Nat : \A s \in Seq(E) : Len(s) = n => s \in P}
  <1>1. 0 \in Good
    <2>1. \A s \in Seq(E) : Len(s) = 0 => s = <<>>
      BY EmptySeq
    <2> QED
      BY <2>1
  <1>2. ASSUME NEW n \in Nat, n \in Good
        PROVE  n + 1 \in Good
    <2> SUFFICES ASSUME NEW s \in Seq(E), Len(s) = n + 1 PROVE s \in P
      OBVIOUS
    <2>1. s # <<>>
      BY EmptySeq
    <2>2. \E r \in Seq(E), e \in E : s = Append(r, e)
      BY <2>1, SequenceEmptyOrAppend
    <2>3. PICK r \in Seq(E), e \in E : s = Append(r, e)
      BY <2>2
    <2>4. Len(r) = n
      BY <2>3
    <2> QED
      BY <1>2, <2>3, <2>4
  <1> HIDE DEF Good
  <1>3. \A n \in Nat : n \in Good
    BY <1>1, <1>2, InductionOnNats
  <1>4. \A s \in Seq(E) : Len(s) \in Nat
    OBVIOUS
  <1> QED
    BY <1>3, <1>4 DEF Good

(* What is kept of the first i elements. *)
Keeps(seq, S, n, k) ==
    k = [i \in 0..n |-> IF i = 0 THEN <<>>
                        ELSE IF seq[i] \in S THEN Append(k[i - 1], seq[i]) ELSE k[i - 1]]

LEMMA KeepsExists ==
    ASSUME NEW seq, NEW S
    PROVE  \A n \in Nat : \E k : Keeps(seq, S, n, k)
  <1> DEFINE one(k, i) == IF i = 0 THEN <<>>
                          ELSE IF seq[i] \in S THEN Append(k[i - 1], seq[i]) ELSE k[i - 1]
             Good == {n \in Nat : \E k : Keeps(seq, S, n, k)}
  <1>1. 0 \in Good
    <2> DEFINE k == [i \in 0..0 |-> <<>>]
    <2>1. \A i \in 0..0 : one(k, i) = <<>>
      OBVIOUS
    <2>2. Keeps(seq, S, 0, k)
      BY <2>1 DEF Keeps
    <2> QED
      BY <2>2
  <1>2. ASSUME NEW n \in Nat, n \in Good
        PROVE  n + 1 \in Good
    <2>1. PICK k : Keeps(seq, S, n, k)
      BY <1>2
    <2> DEFINE k2 == [i \in 0..(n + 1) |-> IF i = n + 1 THEN one(k, i) ELSE k[i]]
    <2>2. \A i \in 0..n : k[i] = one(k, i)
      BY <2>1 DEF Keeps
    <2>3. \A i \in 0..(n + 1) : k2[i] = one(k2, i)
      <3>1. \A i \in 1..(n + 1) : i - 1 \in 0..n /\ i - 1 \in 0..(n + 1) /\ i - 1 # n + 1
        OBVIOUS
      <3>2. \A i \in 1..(n + 1) : k2[i - 1] = k[i - 1]
        BY <3>1
      <3>3. \A i \in 0..(n + 1) : i = 0 \/ i \in 1..(n + 1)
        OBVIOUS
      <3>4. \A i \in 0..(n + 1) : one(k2, i) = one(k, i)
        <4> HIDE DEF k2
        <4> QED
          BY <3>2, <3>3
      <3>5. \A i \in 0..(n + 1) : k2[i] = one(k, i)
        BY <2>2
      <3> HIDE DEF k2, one
      <3> QED
        BY <3>4, <3>5
    <2>4. k2 = [i \in 0..(n + 1) |-> k2[i]]
      OBVIOUS
    <2>5. Keeps(seq, S, n + 1, k2)
      <3>1. k2 = [i \in 0..(n + 1) |-> one(k2, i)]
        <4> HIDE DEF k2, one
        <4> QED
          BY <2>3, <2>4
      <3> HIDE DEF k2
      <3> QED
        BY <3>1 DEF Keeps
    <2> HIDE DEF k2
    <2> QED
      BY <2>5
  <1> HIDE DEF Good
  <1>3. \A n \in Nat : n \in Good
    BY <1>1, <1>2, InductionOnNats
  <1> QED
    BY <1>3 DEF Good

(* Selecting goes from element to element. *)
LEMMA KeepIsKeeps ==
    ASSUME NEW s, NEW S, Len(s) \in Nat
    PROVE  \E k : Keeps(s, S, Len(s), k) /\ Keep(s, S) = k[Len(s)]
  <1> DEFINE k == CHOOSE k : Keeps(s, S, Len(s), k)
  <1>1. Keeps(s, S, Len(s), k)
    BY KeepsExists
  <1>2. Keep(s, S) = k[Len(s)]
    BY DEF Keep, Keeps
  <1> QED
    BY <1>1, <1>2

LEMMA KeepEmpty ==
    ASSUME NEW S
    PROVE  Keep(<<>>, S) = <<>>
  <1>1. PICK k : Keeps(<<>>, S, 0, k) /\ Keep(<<>>, S) = k[0]
    <2>1. Len(<<>>) = 0
      OBVIOUS
    <2> QED
      BY <2>1, KeepIsKeeps
  <1> QED
    BY <1>1 DEF Keeps

LEMMA KeepAppend ==
    ASSUME NEW E, NEW S, NEW s \in Seq(E), NEW e \in E
    PROVE  Keep(Append(s, e), S) = IF e \in S THEN Append(Keep(s, S), e) ELSE Keep(s, S)
  <1> DEFINE n == Len(s)
             t == Append(s, e)
  <1>1. n \in Nat /\ Len(t) = n + 1 /\ t[n + 1] = e /\ \A i \in 1..n : t[i] = s[i]
    OBVIOUS
  <1>2. PICK k : Keeps(s, S, n, k) /\ Keep(s, S) = k[n]
    BY KeepIsKeeps, <1>1
  <1>3. PICK m : Keeps(t, S, n + 1, m) /\ Keep(t, S) = m[n + 1]
    <2> HIDE DEF n, t
    <2>1. PICK m : Keeps(t, S, Len(t), m) /\ Keep(t, S) = m[Len(t)]
      <3>1. Len(t) \in Nat
        BY <1>1
      <3> QED
        BY KeepIsKeeps, <3>1
    <2>2. Len(t) = n + 1
      BY <1>1
    <2> QED
      BY <2>1, <2>2
  <1> HIDE DEF n, t
  <1> DEFINE Good == {i \in Nat : i <= n => m[i] = k[i]}
  <1>4. 0 \in Good
    BY <1>1, <1>2, <1>3 DEF Keeps
  <1>5. ASSUME NEW i \in Nat, i \in Good
        PROVE  i + 1 \in Good
    <2> SUFFICES ASSUME i + 1 <= n PROVE m[i + 1] = k[i + 1]
      OBVIOUS
    <2>1. m[i] = k[i] /\ i + 1 \in 1..n /\ i + 1 \in 0..n /\ i + 1 \in 0..(n + 1)
          /\ (i + 1) - 1 = i /\ i + 1 # 0
      BY <1>1, <1>5
    <2>2. k[i + 1] = IF s[i + 1] \in S THEN Append(k[i], s[i + 1]) ELSE k[i]
      BY <1>2, <2>1 DEF Keeps
    <2>3. m[i + 1] = IF t[i + 1] \in S THEN Append(m[i], t[i + 1]) ELSE m[i]
      BY <1>3, <2>1 DEF Keeps
    <2> QED
      BY <1>1, <2>1, <2>2, <2>3
  <1>6. \A i \in Nat : i \in Good
    <2> HIDE DEF Good
    <2> QED
      BY <1>4, <1>5, InductionOnNats
  <1>7. m[n] = k[n]
    BY <1>1, <1>6
  <1>8. m[n + 1] = IF t[n + 1] \in S THEN Append(m[n], t[n + 1]) ELSE m[n]
    <2>1. n + 1 \in 0..(n + 1) /\ n + 1 # 0 /\ (n + 1) - 1 = n
      BY <1>1
    <2> QED
      BY <1>3, <2>1 DEF Keeps
  <1> QED
    BY <1>1, <1>2, <1>3, <1>7, <1>8 DEF t

(* What is kept is from both sets, and in the selection.                   *)
LEMMA KeepInSeq ==
    ASSUME NEW E, NEW S
    PROVE  \A s \in Seq(E) : Keep(s, S) \in Seq(E \cap S)
  <1> DEFINE P == {s \in Seq(E) : Keep(s, S) \in Seq(E \cap S)}
  <1>1. <<>> \in P
    <2>1. Keep(<<>>, S) = <<>> /\ <<>> \in Seq(E) /\ <<>> \in Seq(E \cap S)
      BY KeepEmpty
    <2> QED
      BY <2>1
  <1>2. ASSUME NEW s \in Seq(E), s \in P, NEW e \in E
        PROVE  Append(s, e) \in P
    <2>1. Keep(s, S) \in Seq(E \cap S)
      BY <1>2
    <2>2. Keep(Append(s, e), S) \in Seq(E \cap S)
      <3>1. Keep(Append(s, e), S) = IF e \in S THEN Append(Keep(s, S), e) ELSE Keep(s, S)
        BY KeepAppend
      <3>2. CASE e \in S
        <4>1. e \in E \cap S
          BY <3>2
        <4>2. Append(Keep(s, S), e) \in Seq(E \cap S)
          BY <2>1, <4>1
        <4> QED
          BY <3>1, <3>2, <4>2
      <3>3. CASE e \notin S
        BY <2>1, <3>1, <3>3
      <3> QED
        BY <3>2, <3>3
    <2>3. Append(s, e) \in Seq(E)
      OBVIOUS
    <2> QED
      BY <2>2, <2>3
  <1> HIDE DEF P
  <1>3. \A s \in Seq(E) : s \in P
    BY <1>1, <1>2, InductionOnSeqs
  <1> QED
    BY <1>3 DEF P

(* Two selections that agree on E. *)
LEMMA KeepSame ==
    ASSUME NEW E, NEW S, NEW T, E \cap S = E \cap T
    PROVE  \A s \in Seq(E) : Keep(s, S) = Keep(s, T)
  <1> DEFINE P == {s \in Seq(E) : Keep(s, S) = Keep(s, T)}
  <1>1. <<>> \in P
    BY KeepEmpty
  <1>2. ASSUME NEW s \in Seq(E), s \in P, NEW e \in E
        PROVE  Append(s, e) \in P
    <2>1. e \in S <=> e \in T
      OBVIOUS
    <2>2. Keep(Append(s, e), S) = Keep(Append(s, e), T)
      BY <1>2, <2>1, KeepAppend
    <2>3. Append(s, e) \in Seq(E)
      OBVIOUS
    <2> QED
      BY <2>2, <2>3
  <1> HIDE DEF P
  <1>3. \A s \in Seq(E) : s \in P
    BY <1>1, <1>2, InductionOnSeqs
  <1> QED
    BY <1>3 DEF P

(* Everything is kept, or nothing. *)
LEMMA KeepAllOrNone ==
    ASSUME NEW E, NEW S
    PROVE  /\ E \subseteq S => \A s \in Seq(E) : Keep(s, S) = s
           /\ E \cap S = {} => \A s \in Seq(E) : Keep(s, S) = <<>>
  <1>1. ASSUME E \subseteq S
        PROVE  \A s \in Seq(E) : Keep(s, S) = s
    <2> DEFINE P == {s \in Seq(E) : Keep(s, S) = s}
    <2>1. <<>> \in P
      BY KeepEmpty
    <2>2. ASSUME NEW s \in Seq(E), s \in P, NEW e \in E
          PROVE  Append(s, e) \in P
      <3>1. Keep(Append(s, e), S) = Append(Keep(s, S), e)
        BY <1>1, KeepAppend
      <3>2. Append(s, e) \in Seq(E)
        OBVIOUS
      <3> QED
        BY <2>2, <3>1, <3>2
    <2> HIDE DEF P
    <2>3. \A s \in Seq(E) : s \in P
      BY <2>1, <2>2, InductionOnSeqs
    <2> QED
      BY <2>3 DEF P
  <1>2. ASSUME E \cap S = {}
        PROVE  \A s \in Seq(E) : Keep(s, S) = <<>>
    <2> DEFINE P == {s \in Seq(E) : Keep(s, S) = <<>>}
    <2>1. <<>> \in P
      BY KeepEmpty
    <2>2. ASSUME NEW s \in Seq(E), s \in P, NEW e \in E
          PROVE  Append(s, e) \in P
      <3>1. Keep(Append(s, e), S) = Keep(s, S)
        <4>1. e \notin S
          BY <1>2
        <4> QED
          BY <4>1, KeepAppend
      <3>2. Append(s, e) \in Seq(E)
        OBVIOUS
      <3> QED
        BY <2>2, <3>1, <3>2
    <2> HIDE DEF P
    <2>3. \A s \in Seq(E) : s \in P
      BY <2>1, <2>2, InductionOnSeqs
    <2> QED
      BY <2>3 DEF P
  <1> QED
    BY <1>1, <1>2

(* Selecting twice is selecting by both. *)
LEMMA KeepTwice ==
    ASSUME NEW E, NEW S, NEW T
    PROVE  \A s \in Seq(E) : Keep(Keep(s, S), T) = Keep(s, S \cap T)
  <1> DEFINE P == {s \in Seq(E) : Keep(Keep(s, S), T) = Keep(s, S \cap T)}
  <1>1. <<>> \in P
    <2>1. Keep(<<>>, S) = <<>> /\ Keep(<<>>, T) = <<>> /\ Keep(<<>>, S \cap T) = <<>>
      BY KeepEmpty
    <2> QED
      BY <2>1
  <1>2. ASSUME NEW s \in Seq(E), s \in P, NEW e \in E
        PROVE  Append(s, e) \in P
    <2> DEFINE both == S \cap T
    <2>1. Keep(s, S) \in Seq(E)
      <3>1. Keep(s, S) \in Seq(E \cap S)
        BY KeepInSeq
      <3> QED
        BY <3>1
    <2>2. Keep(Append(s, e), S) = IF e \in S THEN Append(Keep(s, S), e) ELSE Keep(s, S)
      BY KeepAppend
    <2>3. Keep(Append(s, e), both) = IF e \in both THEN Append(Keep(s, both), e) ELSE Keep(s, both)
      <3> HIDE DEF both
      <3> QED
        BY KeepAppend
    <2>4. Keep(Append(Keep(s, S), e), T) =
             IF e \in T THEN Append(Keep(Keep(s, S), T), e) ELSE Keep(Keep(s, S), T)
      BY <2>1, KeepAppend
    <2>5. Keep(Keep(s, S), T) = Keep(s, both)
      BY <1>2
    <2>6. e \in both <=> e \in S /\ e \in T
      OBVIOUS
    <2>7. Append(s, e) \in Seq(E)
      OBVIOUS
    <2>8. Keep(Keep(Append(s, e), S), T) = Keep(Append(s, e), both)
      <3> HIDE DEF both
      <3> QED
        BY <2>2, <2>3, <2>4, <2>5, <2>6
    <2> QED
      BY <2>7, <2>8
  <1> HIDE DEF P
  <1>3. \A s \in Seq(E) : s \in P
    BY <1>1, <1>2, InductionOnSeqs
  <1> QED
    BY <1>3 DEF P

(* The beginning of a sequence gives the beginning of the selection. *)
LEMMA KeepBeginning ==
    ASSUME NEW E, NEW S, NEW s \in Seq(E)
    PROVE  \A t \in Seq(E) : Keep(s \o t, S) = Keep(s, S) \o Keep(t, S)
  <1> DEFINE P == {t \in Seq(E) : Keep(s \o t, S) = Keep(s, S) \o Keep(t, S)}
  <1>0. \A t \in Seq(E) : Keep(t, S) \in Seq(E)
    <2>1. \A t \in Seq(E) : Keep(t, S) \in Seq(E \cap S)
      BY KeepInSeq
    <2> QED
      BY <2>1
  <1>1. <<>> \in P
    <2>1. s \o <<>> = s /\ Keep(s, S) \o <<>> = Keep(s, S) /\ <<>> \in Seq(E)
      BY <1>0
    <2>2. Keep(<<>>, S) = <<>>
      BY KeepEmpty
    <2> QED
      BY <2>1, <2>2
  <1>2. ASSUME NEW t \in Seq(E), t \in P, NEW e \in E
        PROVE  Append(t, e) \in P
    <2>1. s \o Append(t, e) = Append(s \o t, e) /\ s \o t \in Seq(E) /\ Append(t, e) \in Seq(E)
      OBVIOUS
    <2> DEFINE st == s \o t
    <2>2. Keep(Append(s \o t, e), S) = IF e \in S THEN Append(Keep(s \o t, S), e) ELSE Keep(s \o t, S)
      <3>1. st \in Seq(E)
        BY <2>1
      <3> HIDE DEF st
      <3>2. Keep(Append(st, e), S) = IF e \in S THEN Append(Keep(st, S), e) ELSE Keep(st, S)
        BY <3>1, KeepAppend
      <3> QED
        BY <3>2 DEF st
    <2>3. Keep(Append(t, e), S) = IF e \in S THEN Append(Keep(t, S), e) ELSE Keep(t, S)
      BY KeepAppend
    <2>4. Keep(s, S) \o Append(Keep(t, S), e) = Append(Keep(s, S) \o Keep(t, S), e)
      BY <1>0
    <2>5. Keep(s \o t, S) = Keep(s, S) \o Keep(t, S)
      BY <1>2
    <2>6. Keep(s \o Append(t, e), S) = Keep(s, S) \o Keep(Append(t, e), S)
      BY <2>1, <2>2, <2>3, <2>4, <2>5
    <2> QED
      BY <2>1, <2>6
  <1> HIDE DEF P
  <1>3. \A t \in Seq(E) : t \in P
    BY <1>1, <1>2, InductionOnSeqs
  <1> QED
    BY <1>3 DEF P

(* A function applied to each element.                                     *)

LEMMA MappedEmpty ==
    ASSUME NEW f
    PROVE  Mapped(<<>>, f) = <<>>
  BY DEF Mapped

LEMMA MappedSeq ==
    ASSUME NEW F, NEW f, \A e \in DOMAIN f : f[e] \in F, NEW s \in Seq(DOMAIN f)
    PROVE  Mapped(s, f) \in Seq(F) /\ Len(Mapped(s, f)) = Len(s)
  <1>1. \A i \in 1..Len(s) : s[i] \in DOMAIN f /\ f[s[i]] \in F
    OBVIOUS
  <1>2. DOMAIN s = 1..Len(s) /\ Len(s) \in Nat
    OBVIOUS
  <1>3. Mapped(s, f) \in [1..Len(s) -> F]
    BY <1>1, <1>2 DEF Mapped
  <1> QED
    BY <1>2, <1>3, SeqDef

LEMMA MappedAppend ==
    ASSUME NEW f, NEW s \in Seq(DOMAIN f), NEW e \in DOMAIN f
    PROVE  Mapped(Append(s, e), f) = Append(Mapped(s, f), f[e])
  <1> DEFINE E == DOMAIN f
             F == {f[x] : x \in E}
  <1>0. ASSUME NEW t \in Seq(E)
        PROVE  Mapped(t, f) \in Seq(F) /\ Len(Mapped(t, f)) = Len(t)
    <2>1. \A x \in DOMAIN f : f[x] \in F
      OBVIOUS
    <2>2. t \in Seq(DOMAIN f)
      OBVIOUS
    <2> HIDE DEF E, F
    <2> QED
      BY <2>1, <2>2, MappedSeq
  <1>1. Mapped(s, f) \in Seq(F) /\ Len(Mapped(s, f)) = Len(s)
    BY <1>0
  <1>2. Mapped(Append(s, e), f) \in Seq(F) /\ Len(Mapped(Append(s, e), f)) = Len(s) + 1
    <2>1. Append(s, e) \in Seq(E) /\ Len(Append(s, e)) = Len(s) + 1
      OBVIOUS
    <2> QED
      BY <1>0, <2>1
  <1>3. Append(Mapped(s, f), f[e]) \in Seq(F) /\ Len(Append(Mapped(s, f), f[e])) = Len(s) + 1
    BY <1>1
  <1>4. ASSUME NEW i \in 1..(Len(s) + 1)
        PROVE  Mapped(Append(s, e), f)[i] = Append(Mapped(s, f), f[e])[i]
    <2>1. Mapped(Append(s, e), f)[i] = f[Append(s, e)[i]]
      BY DEF Mapped
    <2>2. CASE i = Len(s) + 1
      BY <1>1, <2>1, <2>2
    <2>3. CASE i # Len(s) + 1
      <3>1. i \in 1..Len(s) /\ i \in DOMAIN s
        BY <2>3
      <3>2. Append(s, e)[i] = s[i]
        BY <3>1
      <3>3. Append(Mapped(s, f), f[e])[i] = Mapped(s, f)[i]
        BY <1>1, <3>1
      <3>4. Mapped(s, f)[i] = f[s[i]]
        BY <3>1 DEF Mapped
      <3> QED
        BY <2>1, <3>2, <3>3, <3>4
    <2> QED
      BY <2>2, <2>3
  <1> HIDE DEF Mapped
  <1> QED
    BY <1>2, <1>3, <1>4, SeqEqual

(* Selecting after it is selecting before it by what the function gives.   *)
LEMMA KeepMapped ==
    ASSUME NEW f, NEW T, NEW seq \in Seq(DOMAIN f)
    PROVE  Keep(Mapped(seq, f), T) = Mapped(Keep(seq, {e \in DOMAIN f : f[e] \in T}), f)
  <1> DEFINE E == DOMAIN f
             F == {f[x] : x \in E}
             S == {e \in E : f[e] \in T}
             P == {s \in Seq(E) : Keep(Mapped(s, f), T) = Mapped(Keep(s, S), f)}
  <1>1. <<>> \in P
    <2>1. Keep(<<>>, S) = <<>> /\ Keep(<<>>, T) = <<>> /\ Mapped(<<>>, f) = <<>> /\ <<>> \in Seq(E)
      BY KeepEmpty, MappedEmpty
    <2> QED
      BY <2>1
  <1>2. ASSUME NEW s \in Seq(E), s \in P, NEW e \in E
        PROVE  Append(s, e) \in P
    <2>1. e \in S <=> f[e] \in T
      OBVIOUS
    <2> HIDE DEF S
    <2>2. Keep(s, S) \in Seq(E)
      <3>1. Keep(s, S) \in Seq(E \cap S)
        BY KeepInSeq
      <3> QED
        BY <3>1
    <2>3. Mapped(s, f) \in Seq(F) /\ f[e] \in F
      BY MappedSeq
    <2>4. Mapped(Append(s, e), f) = Append(Mapped(s, f), f[e])
      BY MappedAppend
    <2>5. Keep(Append(Mapped(s, f), f[e]), T) =
             IF f[e] \in T THEN Append(Keep(Mapped(s, f), T), f[e]) ELSE Keep(Mapped(s, f), T)
      <3> DEFINE m == Mapped(s, f)
                 x == f[e]
      <3>1. m \in Seq(F) /\ x \in F
        BY <2>3
      <3> HIDE DEF F, m, x
      <3>2. Keep(Append(m, x), T) = IF x \in T THEN Append(Keep(m, T), x) ELSE Keep(m, T)
        BY <3>1, KeepAppend
      <3> QED
        BY <3>2 DEF m, x
    <2>6. Keep(Append(s, e), S) = IF e \in S THEN Append(Keep(s, S), e) ELSE Keep(s, S)
      BY KeepAppend
    <2>7. Mapped(Append(Keep(s, S), e), f) = Append(Mapped(Keep(s, S), f), f[e])
      BY <2>2, MappedAppend
    <2>8. Keep(Mapped(s, f), T) = Mapped(Keep(s, S), f)
      BY <1>2
    <2>9. Append(s, e) \in Seq(E)
      OBVIOUS
    <2>10. Keep(Mapped(Append(s, e), f), T) = Mapped(Keep(Append(s, e), S), f)
      BY <2>1, <2>4, <2>5, <2>6, <2>7, <2>8
    <2> QED
      BY <2>9, <2>10
  <1> HIDE DEF P
  <1>3. \A s \in Seq(E) : s \in P
    BY <1>1, <1>2, InductionOnSeqs
  <1> QED
    BY <1>3 DEF P

(* One function after another. *)
LEMMA MappedTwice ==
    ASSUME NEW f, NEW g, NEW s \in Seq(DOMAIN f)
    PROVE  Mapped(Mapped(s, f), g) = Mapped(s, [e \in DOMAIN f |-> g[f[e]]])
  <1> DEFINE h == [e \in DOMAIN f |-> g[f[e]]]
  <1>1. \A i \in DOMAIN s : s[i] \in DOMAIN f
    OBVIOUS
  <1>2. DOMAIN Mapped(s, f) = DOMAIN s /\ \A i \in DOMAIN s : Mapped(s, f)[i] = f[s[i]]
    BY DEF Mapped
  <1>3. Mapped(Mapped(s, f), g) = [i \in DOMAIN s |-> g[Mapped(s, f)[i]]]
    BY <1>2 DEF Mapped
  <1>4. \A i \in DOMAIN s : g[Mapped(s, f)[i]] = h[s[i]]
    BY <1>1, <1>2
  <1> QED
    BY <1>3, <1>4 DEF Mapped

LEMMA MappedConcat ==
    ASSUME NEW f, NEW s \in Seq(DOMAIN f), NEW t \in Seq(DOMAIN f)
    PROVE  Mapped(s \o t, f) = Mapped(s, f) \o Mapped(t, f)
  <1> DEFINE E == DOMAIN f
             F == {f[x] : x \in E}
  <1>0. ASSUME NEW u \in Seq(E)
        PROVE  Mapped(u, f) \in Seq(F) /\ Len(Mapped(u, f)) = Len(u)
    <2>1. \A x \in DOMAIN f : f[x] \in F
      OBVIOUS
    <2>2. u \in Seq(DOMAIN f)
      OBVIOUS
    <2> HIDE DEF E, F
    <2> QED
      BY <2>1, <2>2, MappedSeq
  <1>1. \A u \in Seq(E) : \A i \in 1..Len(u) : Mapped(u, f)[i] = f[u[i]]
    <2>1. \A u \in Seq(E) : DOMAIN u = 1..Len(u)
      OBVIOUS
    <2> QED
      BY <2>1 DEF Mapped
  <1>2. s \o t \in Seq(E) /\ Len(s \o t) = Len(s) + Len(t) /\ Len(s) \in Nat /\ Len(t) \in Nat
    OBVIOUS
  <1>3. \A i \in 1..(Len(s) + Len(t)) : (s \o t)[i] = IF i <= Len(s) THEN s[i] ELSE t[i - Len(s)]
    OBVIOUS
  <1> DEFINE a == Mapped(s, f)
             b == Mapped(t, f)
             c == Mapped(s \o t, f)
             st == s \o t
             l == Len(s)
             m == Len(t)
  <1>4. a \in Seq(F) /\ Len(a) = Len(s) /\ b \in Seq(F) /\ Len(b) = Len(t)
        /\ c \in Seq(F) /\ Len(c) = Len(s) + Len(t)
    BY <1>0, <1>2
  <1>5. /\ \A i \in 1..l : a[i] = f[s[i]]
        /\ \A i \in 1..m : b[i] = f[t[i]]
        /\ \A i \in 1..(l + m) : c[i] = f[st[i]]
        /\ \A i \in 1..(l + m) : st[i] = IF i <= l THEN s[i] ELSE t[i - l]
        /\ l \in Nat /\ m \in Nat
    BY <1>1, <1>2, <1>3
  <1> HIDE DEF a, b, c
  <1>6. a \o b \in Seq(F) /\ Len(a \o b) = l + m
    <2>1. a \o b \in Seq(F) /\ Len(a \o b) = Len(a) + Len(b)
      BY <1>4, ConcatProperties
    <2> QED
      BY <1>4, <2>1
  <1>7. \A i \in 1..(l + m) : (a \o b)[i] = IF i <= l THEN a[i] ELSE b[i - l]
    BY <1>4
  <1> HIDE DEF a, b, c, st, l, m
  <1> DEFINE ab == a \o b
  <1> HIDE DEF ab
  <1>8. ASSUME NEW i \in 1..(l + m)
        PROVE  c[i] = ab[i]
    <2>1. i \in Int /\ (i <= l => i \in 1..l) /\ (~(i <= l) => i - l \in 1..m)
      BY <1>5
    <2>2. ab[i] = IF i <= l THEN a[i] ELSE b[i - l]
      BY <1>7 DEF ab
    <2>3. c[i] = f[st[i]] /\ st[i] = IF i <= l THEN s[i] ELSE t[i - l]
      BY <1>5
    <2>4. CASE i <= l
      BY <1>5, <2>1, <2>2, <2>3, <2>4
    <2>5. CASE ~(i <= l)
      <3>1. b[i - l] = f[t[i - l]]
        BY <1>5, <2>1, <2>5
      <3> QED
        BY <2>2, <2>3, <2>5, <3>1
    <2> QED
      BY <2>4, <2>5
  <1>9. c \in Seq(F) /\ ab \in Seq(F) /\ Len(c) = l + m /\ Len(ab) = l + m
    BY <1>4, <1>6 DEF ab, l, m
  <1>10. c = ab
    BY <1>8, <1>9, SeqEqual
  <1> QED
    BY <1>10 DEF a, b, c, ab

-----------------------------------------------------------------------------
(* Beginnings, and one element more.                                      *)

(* The beginning of a sequence; two sequences in one, by a name because the*)
(* provers unfold \o where it is written.                                  *)
Chained(s, t) == s \o t

Beginning(s, n) == SubSeq(s, 1, IF Len(s) < n THEN Len(s) ELSE n)

(* Parts of sequences that agree there are the same. *)
LEMMA SubSeqAgree ==
    ASSUME NEW E, NEW s, NEW t, NEW m \in Int, NEW n \in Int,
           \A i \in m..n : s[i] = t[i] /\ t[i] \in E
    PROVE  SubSeq(s, m, n) = SubSeq(t, m, n) /\ SubSeq(t, m, n) \in Seq(E)
  <1> DEFINE a == SubSeq(s, m, n)
             b == SubSeq(t, m, n)
             l == IF m <= n THEN (n - m) + 1 ELSE 0
  <1>1. a \in Seq(E) /\ Len(a) = l /\ \A i \in 1..((n - m) + 1) : a[i] = s[(m + i) - 1]
    BY SubSeqProperties
  <1>2. b \in Seq(E) /\ Len(b) = l /\ \A i \in 1..((n - m) + 1) : b[i] = t[(m + i) - 1]
    BY SubSeqProperties
  <1> HIDE DEF a, b
  <1>3. ASSUME NEW i \in 1..l
        PROVE  a[i] = b[i]
    <2>1. i \in 1..((n - m) + 1) /\ (m + i) - 1 \in m..n
      OBVIOUS
    <2> QED
      BY <1>1, <1>2, <2>1
  <1> HIDE DEF l
  <1>4. a = b
    BY <1>1, <1>2, <1>3, SeqEqual
  <1> QED
    BY <1>2, <1>4 DEF a, b

(* An element is appended. *)
LEMMA OneMore ==
    ASSUME NEW S, NEW s \in Seq(S), NEW e \in S
    PROVE  Append(s, e) \in Seq(S) /\ Append(s, e) # <<>> /\ <<e>> \in Seq(S) /\ <<e>> # <<>>
           /\ Append(<<>>, e) = <<e>>
  <1>1. Append(s, e) \in Seq(S)
    OBVIOUS
  <1>2. Append(s, e) # <<>>
    BY AppendProperties
  <1>3. <<e>> \in Seq(S) /\ <<e>> # <<>>
    OBVIOUS
  <1>4. Append(<<>>, e) = <<e>>
    OBVIOUS
  <1> QED
    BY <1>1, <1>2, <1>3, <1>4

(* What is appended to nothing. *)
LEMMA AppendIsOne ==
    ASSUME NEW S, NEW s \in Seq(S), NEW e \in S, NEW a, a = Append(s, e), Len(a) = 1
    PROVE  s = <<>> /\ a[1] = e
  <1>1. Len(s) \in Nat /\ Len(a) = Len(s) + 1 /\ a[Len(s) + 1] = e
    BY AppendProperties
  <1>2. Len(s) = 0
    BY <1>1
  <1>3. s = <<>>
    BY <1>2
  <1> QED
    BY <1>1, <1>2, <1>3

(* The first element and the others, when one is appended. *)
LEMMA FirstAndTailOfAppend ==
    ASSUME NEW S, NEW s \in Seq(S), NEW e \in S
    PROVE  /\ s = <<>> => Append(s, e)[1] = e /\ Tail(Append(s, e)) = <<>>
           /\ s # <<>> => /\ Append(s, e)[1] = s[1]
                          /\ Tail(Append(s, e)) = Append(Tail(s), e)
                          /\ s[1] \in S /\ Tail(s) \in Seq(S)
  <1>1. CASE s = <<>>
    BY <1>1
  <1>2. CASE s # <<>>
    <2> DEFINE a == Append(s, e)
               t == Tail(s)
               b == Append(t, e)
               c == Tail(a)
               l == Len(s)
    <2>1. l \in Nat /\ l # 0 /\ s[1] \in S
      BY <1>2
    <2>2. a \in Seq(S) /\ Len(a) = l + 1 /\ a[l + 1] = e /\ \A i \in 1..l : a[i] = s[i]
      OBVIOUS
    <2>3. t \in Seq(S) /\ Len(t) = l - 1 /\ \A i \in 1..(l - 1) : t[i] = s[i + 1]
      BY <1>2, HeadTailProperties
    <2> HIDE DEF a, t, l
    <2>4. b \in Seq(S) /\ Len(b) = l /\ b[l] = e /\ \A i \in 1..(l - 1) : b[i] = t[i]
      BY <2>1, <2>3
    <2>5. a # <<>>
      BY <2>1, <2>2
    <2>6. c \in Seq(S) /\ Len(c) = l /\ \A i \in 1..l : c[i] = a[i + 1]
      <3>1. c \in Seq(S) /\ Len(c) = Len(a) - 1 /\ \A i \in 1..Len(c) : c[i] = a[i + 1]
        BY <2>2, <2>5, HeadTailProperties
      <3> HIDE DEF c
      <3> QED
        BY <2>1, <2>2, <3>1
    <2> HIDE DEF b, c
    <2>7. ASSUME NEW i \in 1..l
          PROVE  c[i] = b[i]
      <3>1. CASE i = l
        BY <2>2, <2>4, <2>6, <3>1
      <3>2. CASE i # l
        <4>1. i \in 1..(l - 1) /\ i + 1 \in 1..l
          BY <2>1, <3>2
        <4> QED
          BY <2>2, <2>3, <2>4, <2>6, <4>1
      <3> QED
        BY <3>1, <3>2
    <2>8. c = b
      BY <2>4, <2>6, <2>7, SeqEqual
    <2>9. a[1] = s[1]
      <3>1. 1 \in 1..l
        BY <2>1
      <3> QED
        BY <2>2, <3>1
    <2> QED
      BY <1>2, <2>1, <2>3, <2>8, <2>9 DEF a, b, c, t
  <1> QED
    BY <1>1, <1>2

(* A sequence given by a function, and one that goes on from it.           *)
LEMMA AppendedFunction ==
    ASSUME NEW m \in Nat, NEW S, NEW f \in [1..m -> S], NEW g \in [1..(m + 1) -> S],
           \A k \in 1..m : g[k] = f[k]
    PROVE  g = Append(f, g[m + 1]) /\ f \in Seq(S) /\ Len(f) = m
  <1> DEFINE e == g[m + 1]
             h == Append(f, e)
  <1>1. f \in Seq(S) /\ Len(f) = m /\ g \in Seq(S) /\ Len(g) = m + 1 /\ e \in S
    OBVIOUS
  <1>2. h \in Seq(S) /\ Len(h) = m + 1 /\ h[m + 1] = e /\ \A k \in 1..m : h[k] = f[k]
    BY <1>1
  <1> HIDE DEF h
  <1>3. ASSUME NEW k \in 1..(m + 1)
        PROVE  g[k] = h[k]
    <2>1. CASE k = m + 1
      BY <1>2, <2>1
    <2>2. CASE k \in 1..m
      BY <1>2, <2>2
    <2> QED
      BY <2>1, <2>2
  <1>4. g = h
    BY <1>1, <1>2, <1>3, SeqEqual
  <1> QED
    BY <1>1, <1>4 DEF h

(* Appending to the second of two sequences. *)
LEMMA ConcatAppend ==
    ASSUME NEW S, NEW s \in Seq(S), NEW t \in Seq(S), NEW e \in S
    PROVE  s \o Append(t, e) = Append(s \o t, e) /\ s \o t \in Seq(S)
  <1>1. s \o t \in Seq(S)
    OBVIOUS
  <1>2. t \o <<e>> = Append(t, e)
    BY AppendIsConcat
  <1>3. (s \o t) \o <<e>> = Append(s \o t, e)
    <2>1. PICK u \in Seq(S) : u = s \o t
      BY <1>1
    <2>2. u \o <<e>> = Append(u, e)
      BY AppendIsConcat
    <2> QED
      BY <2>1, <2>2
  <1>4. <<e>> \in Seq(S)
    OBVIOUS
  <1>5. (s \o t) \o <<e>> = s \o (t \o <<e>>)
    BY <1>4, ConcatAssociative
  <1> QED
    BY <1>1, <1>2, <1>3, <1>5

(* The first n elements, or as many as there are. *)
LEMMA BeginningIs ==
    ASSUME NEW E, NEW s \in Seq(E), NEW n \in Nat
    PROVE  /\ Beginning(s, n) \in Seq(E)
           /\ Len(Beginning(s, n)) = IF Len(s) < n THEN Len(s) ELSE n
           /\ \A i \in 1..Len(Beginning(s, n)) : Beginning(s, n)[i] = s[i]
           /\ Len(Beginning(s, n)) \in Nat
  <1> DEFINE m == IF Len(s) < n THEN Len(s) ELSE n
  <1>1. m \in 0..Len(s) /\ Len(s) \in Nat
    OBVIOUS
  <1>2. Beginning(s, n) = SubSeq(s, 1, m)
    BY DEF Beginning
  <1> HIDE DEF m
  <1>3. SubSeq(s, 1, m) \in Seq(E) /\ Len(SubSeq(s, 1, m)) = m /\ m \in Nat
        /\ \A i \in 1..m : SubSeq(s, 1, m)[i] = s[i]
    BY <1>1
  <1> QED
    BY <1>2, <1>3 DEF m

(* Looking for n elements in one sequence and then in another. *)
LEMMA BeginningOfTwo ==
    ASSUME NEW E, NEW s \in Seq(E), NEW t \in Seq(E), NEW n \in Nat
    PROVE  Beginning(s \o t, n) = Beginning(s, n) \o Beginning(t, n - Len(Beginning(s, n)))
  <1> DEFINE a == Beginning(s, n)
             k == n - Len(a)
             b == Beginning(t, k)
             st == s \o t
             c == Beginning(st, n)
             ab == a \o b
  <1>1. a \in Seq(E) /\ Len(a) = (IF Len(s) < n THEN Len(s) ELSE n) /\ \A i \in 1..Len(a) : a[i] = s[i]
    BY BeginningIs
  <1>2. k \in Nat /\ Len(s) \in Nat /\ Len(t) \in Nat
    BY <1>1
  <1> HIDE DEF a, k
  <1>3. b \in Seq(E) /\ Len(b) = (IF Len(t) < k THEN Len(t) ELSE k) /\ \A i \in 1..Len(b) : b[i] = t[i]
    BY <1>2, BeginningIs
  <1> HIDE DEF b
  <1>4. st \in Seq(E) /\ Len(st) = Len(s) + Len(t)
        /\ \A i \in 1..(Len(s) + Len(t)) : st[i] = IF i <= Len(s) THEN s[i] ELSE t[i - Len(s)]
    BY ConcatProperties
  <1> HIDE DEF st
  <1>5. c \in Seq(E) /\ Len(c) = (IF Len(st) < n THEN Len(st) ELSE n) /\ \A i \in 1..Len(c) : c[i] = st[i]
    BY <1>4, BeginningIs
  <1> HIDE DEF c
  <1>6. ab \in Seq(E) /\ Len(ab) = Len(a) + Len(b)
        /\ \A i \in 1..(Len(a) + Len(b)) : ab[i] = IF i <= Len(a) THEN a[i] ELSE b[i - Len(a)]
    BY <1>1, <1>3, ConcatProperties
  <1> HIDE DEF ab
  <1> DEFINE ls == Len(s)
             lt == Len(t)
             la == Len(a)
             lb == Len(b)
             lc == Len(c)
  <1>7. /\ ls \in Nat /\ lt \in Nat /\ n \in Nat /\ k = n - la
        /\ la = (IF ls < n THEN ls ELSE n) /\ lb = (IF lt < k THEN lt ELSE k)
        /\ lc = (IF ls + lt < n THEN ls + lt ELSE n)
        /\ Len(ab) = la + lb
    BY <1>1, <1>2, <1>3, <1>4, <1>5, <1>6 DEF k
  <1>8. /\ \A i \in 1..la : a[i] = s[i]
        /\ \A i \in 1..lb : b[i] = t[i]
        /\ \A i \in 1..(ls + lt) : st[i] = IF i <= ls THEN s[i] ELSE t[i - ls]
        /\ \A i \in 1..lc : c[i] = st[i]
        /\ \A i \in 1..(la + lb) : ab[i] = IF i <= la THEN a[i] ELSE b[i - la]
    BY <1>1, <1>3, <1>4, <1>5, <1>6
  <1> HIDE DEF ls, lt, la, lb, lc
  <1>9. lc = la + lb
    BY <1>7
  <1>10. ASSUME NEW i \in 1..lc
         PROVE  c[i] = ab[i]
    <2>1. i \in 1..(ls + lt) /\ i \in 1..(la + lb) /\ c[i] = st[i]
      BY <1>7, <1>8, <1>9
    <2>2. CASE i <= ls
      <3>1. i \in 1..la /\ i <= la
        BY <1>7, <2>1, <2>2
      <3>2. st[i] = s[i]
        BY <1>8, <2>1, <2>2
      <3>3. ab[i] = a[i]
        BY <1>8, <2>1, <3>1
      <3> QED
        BY <1>8, <2>1, <3>1, <3>2, <3>3
    <2>3. CASE ~(i <= ls)
      <3>1. la = ls /\ i - ls \in 1..lb /\ ~(i <= la)
        BY <1>7, <1>9, <2>1, <2>3
      <3>2. st[i] = t[i - ls]
        BY <1>8, <2>1, <2>3
      <3>3. ab[i] = b[i - ls]
        BY <1>8, <2>1, <3>1
      <3> QED
        BY <1>8, <2>1, <3>1, <3>2, <3>3
    <2> QED
      BY <2>2, <2>3
  <1>11. c = ab
    <2>1. Len(c) = lc /\ Len(ab) = lc
      BY <1>7, <1>9 DEF lc
    <2> QED
      BY <1>5, <1>6, <1>10, <2>1, SeqEqual
  <1> QED
    BY <1>11 DEF c, ab, a, b, k, st

(* Selecting from one element. *)
LEMMA KeepOne ==
    ASSUME NEW e, NEW S
    PROVE  Keep(<<e>>, S) = IF e \in S THEN <<e>> ELSE <<>>
  <1>1. PICK E : E = {e}
    OBVIOUS
  <1>2. e \in E /\ <<>> \in Seq(E)
    BY <1>1
  <1>3. PICK none \in Seq(E) : none = <<>>
    BY <1>2
  <1>4. Keep(Append(none, e), S) = IF e \in S THEN Append(Keep(none, S), e) ELSE Keep(none, S)
    BY <1>2, KeepAppend
  <1>5. Keep(none, S) = <<>> /\ Append(none, e) = <<e>> /\ Append(<<>>, e) = <<e>>
    BY <1>3, KeepEmpty
  <1> QED
    BY <1>4, <1>5
-----------------------------------------------------------------------------
(* Going on step by step.                                                 *)

(* From base, with a step for each number. *)
GoesOn(g, n, base, step) ==
    g[0] = base /\ \A i \in 1..n : g[i] = step[i][g[i - 1]]

LEMMA StepsExist ==
    ASSUME NEW n \in Nat, NEW S, NEW base \in S, NEW step \in [1..n -> [S -> S]]
    PROVE  \E g \in [0..n -> S] : GoesOn(g, n, base, step)
  <1> DEFINE Right(g, m) == g[0] = base /\ \A i \in 1..m : g[i] = step[i][g[i - 1]]
             Good == {m \in Nat : m <= n => \E g \in [0..m -> S] : Right(g, m)}
  <1>1. 0 \in Good
    <2> DEFINE g == [i \in 0..0 |-> base]
    <2>1. g \in [0..0 -> S] /\ Right(g, 0)
      OBVIOUS
    <2> HIDE DEF g, Right
    <2> QED
      BY <2>1
  <1>2. ASSUME NEW m \in Nat, m \in Good
        PROVE  m + 1 \in Good
    <2> SUFFICES ASSUME m + 1 <= n PROVE \E g \in [0..(m + 1) -> S] : Right(g, m + 1)
      OBVIOUS
    <2>1. PICK g \in [0..m -> S] : Right(g, m)
      BY <1>2
    <2> DEFINE e == step[m + 1][g[m]]
               h == [i \in 0..(m + 1) |-> IF i = m + 1 THEN e ELSE g[i]]
    <2>2. e \in S
      <3>1. m + 1 \in 1..n /\ m \in 0..m
        OBVIOUS
      <3> QED
        BY <3>1
    <2>3. h \in [0..(m + 1) -> S] /\ h[m + 1] = e /\ \A i \in 0..m : h[i] = g[i]
      BY <2>2
    <2> HIDE DEF h
    <2>4. \A i \in 1..(m + 1) : h[i] = step[i][h[i - 1]]
      <3> SUFFICES ASSUME NEW i \in 1..(m + 1) PROVE h[i] = step[i][h[i - 1]]
        OBVIOUS
      <3>1. CASE i = m + 1
        <4>1. i - 1 = m /\ m \in 0..m
          BY <3>1
        <4> QED
          BY <2>3, <3>1, <4>1
      <3>2. CASE i # m + 1
        <4>1. i \in 1..m /\ i \in 0..m /\ i - 1 \in 0..m
          BY <3>2
        <4> QED
          BY <2>1, <2>3, <4>1
      <3> QED
        BY <3>1, <3>2
    <2>5. h[0] = base
      BY <2>1, <2>3
    <2> QED
      BY <2>3, <2>4, <2>5
  <1> HIDE DEF Good
  <1>3. \A m \in Nat : m \in Good
    BY <1>1, <1>2, InductionOnNats
  <1> QED
    BY <1>3 DEF Good, GoesOn

(* Two that start alike and go on alike. *)
Alike(g, h, n) ==
    g[0] = h[0] /\ \A i \in 1..n : g[i - 1] = h[i - 1] => g[i] = h[i]

LEMMA SameSteps ==
    ASSUME NEW n \in Nat, NEW g, NEW h, Alike(g, h, n)
    PROVE  \A i \in 0..n : g[i] = h[i]
  <1> DEFINE Good == {i \in Nat : i <= n => g[i] = h[i]}
  <1>1. 0 \in Good
    BY DEF Alike
  <1>2. ASSUME NEW i \in Nat, i \in Good
        PROVE  i + 1 \in Good
    <2> SUFFICES ASSUME i + 1 <= n PROVE g[i + 1] = h[i + 1]
      OBVIOUS
    <2>1. i + 1 \in 1..n /\ (i + 1) - 1 = i /\ g[i] = h[i]
      BY <1>2
    <2> QED
      BY <2>1 DEF Alike
  <1> HIDE DEF Good
  <1>3. \A i \in Nat : i \in Good
    BY <1>1, <1>2, InductionOnNats
  <1> QED
    BY <1>3 DEF Good
=============================================================================
