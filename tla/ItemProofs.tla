----------------------------- MODULE ItemProofs -----------------------------
(***************************************************************************)
(* Proofs about what becomes of items between the database and the         *)
(* response, for any tables, presets, rows and dictionaries.               *)
(*                                                                         *)
(* TailStitch: a branch is followed through the request as a selection of  *)
(* the page of rows: grouping and unwrapping select from a sequence and    *)
(* change each element on its own, so they can be done in any order.       *)
(*                                                                         *)
(* PolyStitch, where the branch is in the item itself: the order in which  *)
(* the types are fetched does not show, since what has been fetched is     *)
(* right for every type that is no longer in toFetch (Settled).            *)
(*                                                                         *)
(* Finalize: the item stays a tree of maps (ItemInv), in which each pass   *)
(* changes what lies under the source or the target of one field.  What a  *)
(* localized field is translated from is its column until its turn, and    *)
(* the translation from then on (LocalInv).  While containers are renamed, *)
(* contents first, every path is that of a field under its present names   *)
(* (KeysInv, over the containers renamed so far).  A container holds its   *)
(* columns until its turn to collapse, and is what they say from then on   *)
(* (DataInv).  A formatter reads what its template names (SameText), so    *)
(* what it has made stays right as long as nothing it names is written     *)
(* (FormatInv), which the order of the nodes sees to (MentionedDone).      *)
(***************************************************************************)
EXTENDS TailStitch, PolyStitch, Finalize, CommonLemmas, SequenceTheorems

-----------------------------------------------------------------------------
(* The rows of a branch, as a function of the relation, the page and a key.*)

FetchedRow(wrapped) == [l \in Link |-> Row(l.parent, l.final, wrapped)]
UnwrappedRow == [row \in AnyRow |-> Unwrapped(row)]

LinksOf(key) == {l \in Link : l.parent = key}
FilledLinks == {l \in Link : l.final # None}
FinalsOf(key) == {l \in Link : l.parent = key /\ l.final # None}

RowsIn(s, page) ==
    IF s.through /\ s.nested THEN UnwrapAll(Mapped(page, FetchedRow(s.through)))
    ELSE Mapped(page, FetchedRow(s.through))

GroupIn(seq, key) == Keep(seq, {row \in AnyRow : row.fk = key})

FirstIn(s, seq) == IF s.many \/ seq = <<>> THEN seq ELSE <<Head(seq)>>

UnwrappedIn(s, seq) ==
    IF s.through /\ (s.many \/ UnwrapAll(seq) # <<>>) THEN UnwrapAll(seq) ELSE seq

(* What an item with this key ends up with, and what it should.            *)
BranchRows(s, page, key) == UnwrappedIn(s, FirstIn(s, GroupIn(RowsIn(s, page), key)))
FinalRows(s, seq, key) == FirstIn(s, Mapped(Keep(seq, FinalsOf(key)), FetchedRow(FALSE)))

(* The relations that come out right: a has_one through a model with no    *)
(* further branches has a final row in every intermediate one; a has_many  *)
(* through is not unwrapped twice.                                         *)
KeepsPlace(s) == s.through /\ ~s.many /\ ~s.nested => ~s.nullable
UnwrapsOnce(s) == s.through /\ s.nested => ~s.many

LEMMA RowTypes ==
    /\ \A w \in BOOLEAN : FetchedRow(w) \in [Link -> AnyRow]
    /\ UnwrappedRow \in [AnyRow -> AnyRow]
    /\ \A w \in BOOLEAN : \A l \in Link : UnwrappedRow[FetchedRow(w)[l]] = FetchedRow(FALSE)[l]
    /\ \A w \in BOOLEAN : \A l \in Link : FetchedRow(w)[l] = Row(l.parent, l.final, w)
  <1>1. \A w \in BOOLEAN : \A l \in Link : Row(l.parent, l.final, w) \in AnyRow
    BY DEF Link, AnyRow, Row
  <1>2. \A row \in AnyRow : Unwrapped(row) \in AnyRow
    BY DEF AnyRow, Unwrapped, Row
  <1>3. \A w \in BOOLEAN : \A l \in Link : Unwrapped(Row(l.parent, l.final, w)) = Row(l.parent, l.final, FALSE)
    <2>1. ASSUME NEW w \in BOOLEAN, NEW l \in Link
          PROVE  Unwrapped(Row(l.parent, l.final, w)) = Row(l.parent, l.final, FALSE)
      BY DEF Row, Unwrapped
    <2> QED
      BY <2>1
  <1>4. \A w \in BOOLEAN : \A l \in Link : FetchedRow(w)[l] = Row(l.parent, l.final, w)
    BY DEF FetchedRow
  <1>5. \A w \in BOOLEAN : FetchedRow(w) \in [Link -> AnyRow]
    BY <1>1 DEF FetchedRow
  <1>6. UnwrappedRow \in [AnyRow -> AnyRow]
    BY <1>2 DEF UnwrappedRow
  <1>7. \A row \in AnyRow : UnwrappedRow[row] = Unwrapped(row)
    BY DEF UnwrappedRow
  <1>8. \A w \in BOOLEAN : \A l \in Link : UnwrappedRow[FetchedRow(w)[l]] = FetchedRow(FALSE)[l]
    <2>1. ASSUME NEW w \in BOOLEAN, NEW l \in Link
          PROVE  UnwrappedRow[FetchedRow(w)[l]] = FetchedRow(FALSE)[l]
      <3>1. FetchedRow(w)[l] = Row(l.parent, l.final, w) /\ FetchedRow(FALSE)[l] = Row(l.parent, l.final, FALSE)
        BY <1>4
      <3>2. UnwrappedRow[Row(l.parent, l.final, w)] = Unwrapped(Row(l.parent, l.final, w))
        BY <1>1, <1>7
      <3> QED
        BY <1>3, <3>1, <3>2
    <2> QED
      BY <2>1
  <1> QED
    BY <1>4, <1>5, <1>6, <1>8

(* Unwrapping selects the wrapped rows, and unwraps each.                  *)
LEMMA UnwrapIsMapped ==
    ASSUME NEW seq \in Seq(AnyRow)
    PROVE  UnwrapAll(seq) = Mapped(Keep(seq, HasPayload), UnwrappedRow)
  <1> DEFINE kept == Keep(seq, HasPayload)
  <1>1. kept \in Seq(AnyRow \cap HasPayload)
    BY KeepInSeq
  <1>2. \A i \in DOMAIN kept : kept[i] \in AnyRow
    BY <1>1
  <1>3. UnwrapAll(seq) = [i \in DOMAIN kept |-> Unwrapped(kept[i])]
    BY DEF UnwrapAll
  <1> HIDE DEF kept
  <1>4. \A i \in DOMAIN kept : UnwrappedRow[kept[i]] = Unwrapped(kept[i])
    BY <1>2 DEF UnwrappedRow
  <1>5. UnwrapAll(seq) = Mapped(kept, UnwrappedRow)
    BY <1>3, <1>4 DEF Mapped
  <1> QED
    BY <1>5 DEF kept

LEMMA UnwrapFetched ==
    ASSUME NEW page \in Seq(Link)
    PROVE  /\ UnwrapAll(Mapped(page, FetchedRow(TRUE)))
                = Mapped(Keep(page, FilledLinks), FetchedRow(FALSE))
           /\ UnwrapAll(Mapped(page, FetchedRow(FALSE))) = <<>>
  <1> DEFINE f(w) == FetchedRow(w)
             wrapped(w) == {l \in Link : f(w)[l] \in HasPayload}
  <1>1. ASSUME NEW w \in BOOLEAN
        PROVE  UnwrapAll(Mapped(page, f(w))) = Mapped(Keep(page, wrapped(w)), f(FALSE))
    <2> DEFINE fw == f(w)
               f0 == f(FALSE)
               S == wrapped(w)
    <2>1. /\ DOMAIN fw = Link /\ \A l \in Link : fw[l] \in AnyRow
          /\ \A l \in Link : UnwrappedRow[fw[l]] = f0[l]
      BY RowTypes
    <2>2. S = {l \in Link : fw[l] \in HasPayload}
      OBVIOUS
    <2> HIDE DEF fw, f0, S
    <2>3. Mapped(page, fw) \in Seq(AnyRow)
      <3>1. page \in Seq(DOMAIN fw) /\ \A l \in DOMAIN fw : fw[l] \in AnyRow
        BY <2>1
      <3> QED
        BY <3>1, MappedSeq
    <2>4. UnwrapAll(Mapped(page, fw)) = Mapped(Keep(Mapped(page, fw), HasPayload), UnwrappedRow)
      BY <2>3, UnwrapIsMapped
    <2>5. Keep(Mapped(page, fw), HasPayload) = Mapped(Keep(page, S), fw)
      <3>1. page \in Seq(DOMAIN fw)
        BY <2>1
      <3>2. Keep(Mapped(page, fw), HasPayload) = Mapped(Keep(page, {l \in DOMAIN fw : fw[l] \in HasPayload}), fw)
        BY <3>1, KeepMapped
      <3> QED
        BY <2>1, <2>2, <3>2
    <2>6. Keep(page, S) \in Seq(Link)
      <3>1. Keep(page, S) \in Seq(Link \cap S)
        BY KeepInSeq
      <3> QED
        BY <3>1
    <2>7. Mapped(Mapped(Keep(page, S), fw), UnwrappedRow) = Mapped(Keep(page, S), f0)
      <3> DEFINE s == Keep(page, S)
                 u == UnwrappedRow
      <3>1. s \in Seq(DOMAIN fw) /\ \A l \in DOMAIN fw : u[fw[l]] = f0[l]
        BY <2>1, <2>6
      <3> HIDE DEF s, u
      <3>2. f0 = [l \in DOMAIN fw |-> u[fw[l]]]
        <4>1. f0 = [l \in Link |-> f0[l]]
          BY RowTypes DEF f0
        <4> QED
          BY <2>1, <3>1, <4>1
      <3>3. Mapped(Mapped(s, fw), u) = Mapped(s, f0)
        BY <3>1, <3>2, MappedTwice
      <3> QED
        BY <3>3 DEF s, u
    <2>8. UnwrapAll(Mapped(page, fw)) = Mapped(Keep(page, S), f0)
      BY <2>4, <2>5, <2>7
    <2> QED
      BY <2>8 DEF fw, f0, S
  <1>2. \A w \in BOOLEAN : \A l \in Link : f(w)[l] \in HasPayload <=> w /\ l.final # None
    <2>1. ASSUME NEW w \in BOOLEAN, NEW l \in Link
          PROVE  f(w)[l] \in HasPayload <=> w /\ l.final # None
      <3>1. f(w)[l] = Row(l.parent, l.final, w) /\ f(w)[l] \in AnyRow
        BY RowTypes
      <3>2. Row(l.parent, l.final, w).wrapped = w /\ Row(l.parent, l.final, w).final = l.final
        BY DEF Row
      <3> QED
        BY <3>1, <3>2 DEF HasPayload
    <2> QED
      BY <2>1
  <1>3. wrapped(TRUE) = FilledLinks /\ wrapped(FALSE) = {}
    BY <1>2 DEF FilledLinks
  <1>4. Keep(page, {}) = <<>>
    <2>1. Link \cap {} = {}
      OBVIOUS
    <2> QED
      BY <2>1, KeepAllOrNone
  <1>5. Mapped(<<>>, f(FALSE)) = <<>>
    BY MappedEmpty
  <1> HIDE DEF wrapped
  <1>6. UnwrapAll(Mapped(page, f(TRUE))) = Mapped(Keep(page, FilledLinks), f(FALSE))
    BY <1>1, <1>3
  <1>7. UnwrapAll(Mapped(page, f(FALSE))) = <<>>
    BY <1>1, <1>3, <1>4, <1>5
  <1> QED
    BY <1>6, <1>7

(* The group of a key are the rows of that key.                            *)
LEMMA GroupFetched ==
    ASSUME NEW page \in Seq(Link), NEW w \in BOOLEAN, NEW key
    PROVE  GroupIn(Mapped(page, FetchedRow(w)), key) = Mapped(Keep(page, LinksOf(key)), FetchedRow(w))
  <1> DEFINE fw == FetchedRow(w)
             T == {row \in AnyRow : row.fk = key}
  <1>1. /\ DOMAIN fw = Link
        /\ \A l \in Link : fw[l] \in AnyRow /\ fw[l] = Row(l.parent, l.final, w)
    BY RowTypes
  <1>2. {l \in Link : fw[l] \in T} = LinksOf(key)
    <2>1. \A l \in Link : Row(l.parent, l.final, w).fk = l.parent
      BY DEF Row
    <2> HIDE DEF fw
    <2> QED
      BY <1>1, <2>1 DEF LinksOf
  <1> HIDE DEF fw, T
  <1>3. Keep(Mapped(page, fw), T) = Mapped(Keep(page, {l \in DOMAIN fw : fw[l] \in T}), fw)
    <2>1. page \in Seq(DOMAIN fw)
      BY <1>1
    <2> QED
      BY <2>1, KeepMapped
  <1>4. Keep(Mapped(page, fw), T) = Mapped(Keep(page, LinksOf(key)), fw)
    BY <1>1, <1>2, <1>3
  <1> QED
    BY <1>4 DEF GroupIn, fw, T

(* The first of the rows is the row of the first.                          *)
LEMMA FirstMapped ==
    ASSUME NEW s, NEW seq \in Seq(Link), NEW w \in BOOLEAN
    PROVE  /\ FirstIn(s, Mapped(seq, FetchedRow(w))) = Mapped(FirstIn(s, seq), FetchedRow(w))
           /\ FirstIn(s, seq) \in Seq(Link)
           /\ FirstIn(s, seq) = <<>> <=> seq = <<>>
  <1> DEFINE fw == FetchedRow(w)
  <1>1. DOMAIN fw = Link /\ \A l \in DOMAIN fw : fw[l] \in AnyRow
    BY RowTypes
  <1> HIDE DEF fw
  <1>2. Mapped(seq, fw) \in Seq(AnyRow) /\ Len(Mapped(seq, fw)) = Len(seq)
    <2>1. seq \in Seq(DOMAIN fw)
      BY <1>1
    <2> QED
      BY <1>1, <2>1, MappedSeq
  <1>3. CASE s.many \/ seq = <<>>
    <2>1. Mapped(<<>>, fw) = <<>>
      BY MappedEmpty
    <2> QED
      BY <1>3, <2>1 DEF FirstIn, fw
  <1>4. CASE ~s.many /\ seq # <<>>
    <2>1. Len(seq) \in Nat \ {0}
      BY <1>4, EmptySeq
    <2>2. Mapped(seq, fw) # <<>>
      BY <1>2, <2>1, EmptySeq
    <2>3. seq[1] \in Link /\ 1 \in DOMAIN seq
      BY <2>1
    <2>4. Head(seq) = seq[1] /\ Head(Mapped(seq, fw)) = Mapped(seq, fw)[1]
      BY <1>4, <2>2, <1>2
    <2>5. Mapped(seq, fw)[1] = fw[seq[1]]
      BY <2>3 DEF Mapped
    <2>6. Mapped(<<seq[1]>>, fw) = <<fw[seq[1]]>>
      BY DEF Mapped
    <2>7. FirstIn(s, Mapped(seq, fw)) = <<fw[seq[1]]>> /\ FirstIn(s, seq) = <<seq[1]>>
      BY <1>4, <2>2, <2>4, <2>5 DEF FirstIn
    <2>8. <<seq[1]>> \in Seq(Link) /\ <<seq[1]>> # <<>>
      BY <2>3
    <2> QED
      BY <1>4, <2>6, <2>7, <2>8 DEF fw
  <1> QED
    BY <1>3, <1>4

(* A branch that comes out right has the final rows of its key; one that   *)
(* is unwrapped twice has none.                                            *)
LEMMA BranchHasFinalRows ==
    ASSUME NEW s \in Shape, KeepsPlace(s), s.nullable => s.through,
           NEW page \in Seq(Link), s.nullable \/ page \in Seq(FilledLinks), NEW key
    PROVE  IF UnwrapsOnce(s) THEN BranchRows(s, page, key) = FinalRows(s, page, key)
           ELSE BranchRows(s, page, key) = <<>>
  <1> DEFINE f0 == FetchedRow(FALSE)
             f1 == FetchedRow(TRUE)
             ofKey == Keep(page, LinksOf(key))
             finals == Keep(page, FinalsOf(key))
  <1>1. /\ ofKey \in Seq(Link) /\ finals \in Seq(Link)
        /\ Keep(page, FilledLinks) \in Seq(Link)
    <2>1. \A S : Keep(page, S) \in Seq(Link \cap S)
      BY KeepInSeq
    <2>2. ASSUME NEW S
          PROVE  Keep(page, S) \in Seq(Link)
      <3> DEFINE kept == Keep(page, S)
      <3>1. kept \in Seq(Link \cap S)
        BY <2>1
      <3> HIDE DEF kept
      <3>2. kept \in Seq(Link)
        BY <3>1
      <3> QED
        BY <3>2 DEF kept
    <2> QED
      BY <2>2
  <1>2. Keep(ofKey, FilledLinks) = finals
    <2>1. LinksOf(key) \cap FilledLinks = FinalsOf(key)
      BY DEF LinksOf, FilledLinks, FinalsOf
    <2> QED
      BY <2>1, KeepTwice
  <1>3. Keep(Keep(page, FilledLinks), LinksOf(key)) = finals
    <2>1. FilledLinks \cap LinksOf(key) = FinalsOf(key)
      BY DEF LinksOf, FilledLinks, FinalsOf
    <2> QED
      BY <2>1, KeepTwice
  <1>4. ASSUME ~s.nullable
        PROVE  ofKey = finals /\ ofKey \in Seq(FilledLinks)
    <2>1. page \in Seq(FilledLinks)
      BY <1>4
    <2>2. FilledLinks \cap LinksOf(key) = FilledLinks \cap FinalsOf(key)
      BY DEF LinksOf, FilledLinks, FinalsOf
    <2>3. ofKey = finals
      BY <2>1, <2>2, KeepSame
    <2>4. ofKey \in Seq(FilledLinks \cap LinksOf(key))
      BY <2>1, KeepInSeq
    <2> QED
      BY <2>3, <2>4
  <1>5. FinalRows(s, page, key) = Mapped(FirstIn(s, finals), f0)
    BY <1>1, FirstMapped DEF FinalRows
  <1>6. \A q \in Seq(Link) : FirstIn(s, q) \in Seq(Link) /\ (FirstIn(s, q) = <<>> <=> q = <<>>)
    BY FirstMapped
  <1>7. \A q \in Seq(Link) : UnwrapAll(Mapped(q, f0)) = <<>>
                             /\ UnwrapAll(Mapped(q, f1)) = Mapped(Keep(q, FilledLinks), f0)
    BY UnwrapFetched
  <1>8. CASE ~s.through
    <2>1. RowsIn(s, page) = Mapped(page, f0)
      <3>1. s.through = FALSE
        BY <1>8 DEF Shape
      <3> QED
        BY <3>1 DEF RowsIn
    <2>2. GroupIn(Mapped(page, f0), key) = Mapped(ofKey, f0)
      BY GroupFetched
    <2>3. FirstIn(s, Mapped(finals, f0)) = Mapped(FirstIn(s, finals), f0)
      BY <1>1, FirstMapped
    <2>4. ofKey = finals
      BY <1>4, <1>8
    <2>5. BranchRows(s, page, key) = Mapped(FirstIn(s, finals), f0)
      BY <1>8, <2>1, <2>2, <2>3, <2>4 DEF BranchRows, UnwrappedIn
    <2> QED
      BY <1>5, <1>8, <2>5 DEF UnwrapsOnce
  <1>9. CASE s.through /\ s.nested
    <2>1. s.through = TRUE
      BY <1>9 DEF Shape
    <2>2. RowsIn(s, page) = Mapped(Keep(page, FilledLinks), f0)
      BY <1>7, <1>9, <2>1 DEF RowsIn
    <2>3. GroupIn(RowsIn(s, page), key) = Mapped(finals, f0)
      BY <1>1, <1>3, <2>2, GroupFetched
    <2>4. FirstIn(s, GroupIn(RowsIn(s, page), key)) = Mapped(FirstIn(s, finals), f0)
      BY <1>1, <2>3, FirstMapped
    <2>5. UnwrapAll(Mapped(FirstIn(s, finals), f0)) = <<>>
      BY <1>1, <1>6, <1>7
    <2>6. BranchRows(s, page, key) = IF s.many THEN <<>> ELSE Mapped(FirstIn(s, finals), f0)
      BY <1>9, <2>4, <2>5 DEF BranchRows, UnwrappedIn
    <2> QED
      BY <1>5, <1>9, <2>6 DEF UnwrapsOnce
  <1>10. CASE s.through /\ ~s.nested
    <2> DEFINE first == FirstIn(s, ofKey)
    <2>1. s.through = TRUE
      BY <1>10 DEF Shape
    <2>2. RowsIn(s, page) = Mapped(page, f1)
      BY <1>10, <2>1 DEF RowsIn
    <2>3. GroupIn(RowsIn(s, page), key) = Mapped(ofKey, f1)
      BY <2>2, GroupFetched
    <2>4. FirstIn(s, GroupIn(RowsIn(s, page), key)) = Mapped(first, f1)
      BY <1>1, <2>3, FirstMapped
    <2>5. UnwrapAll(Mapped(first, f1)) = Mapped(Keep(first, FilledLinks), f0)
      BY <1>1, <1>6, <1>7
    <2>6. Keep(first, FilledLinks) = FirstIn(s, finals)
      <3>1. CASE s.many
        BY <1>2, <3>1 DEF FirstIn
      <3>2. CASE ~s.many
        <4>1. ofKey = finals /\ ofKey \in Seq(FilledLinks)
          BY <1>4, <1>10, <3>2 DEF KeepsPlace
        <4>2. first \in Seq(FilledLinks)
          <5>1. CASE ofKey = <<>>
            BY <5>1 DEF FirstIn
          <5>2. CASE ofKey # <<>>
            <6>1. Head(ofKey) \in FilledLinks
              BY <4>1, <5>2, HeadTailProperties
            <6> QED
              BY <3>2, <5>2, <6>1 DEF FirstIn
          <5> QED
            BY <5>1, <5>2
        <4>3. Keep(first, FilledLinks) = first
          <5> HIDE DEF first
          <5> QED
            BY <4>2, KeepAllOrNone
        <4> QED
          BY <4>1, <4>3
      <3> QED
        BY <3>1, <3>2
    <2>7. UnwrapAll(Mapped(first, f1)) = Mapped(FirstIn(s, finals), f0)
      BY <2>5, <2>6
    <2>8. BranchRows(s, page, key) = Mapped(FirstIn(s, finals), f0)
      <3>1. CASE s.many \/ UnwrapAll(Mapped(first, f1)) # <<>>
        BY <1>10, <2>4, <2>7, <3>1 DEF BranchRows, UnwrappedIn
      <3>2. CASE ~s.many /\ UnwrapAll(Mapped(first, f1)) = <<>>
        <4>1. Mapped(first, f1) = <<>>
          <5>1. ofKey = finals
            BY <1>4, <1>10, <3>2 DEF KeepsPlace
          <5>2. Len(Mapped(first, f0)) = Len(first)
            <6>1. DOMAIN f0 = Link /\ \A l \in DOMAIN f0 : f0[l] \in AnyRow
              BY RowTypes
            <6>2. first \in Seq(DOMAIN f0)
              BY <1>1, <1>6, <6>1
            <6> HIDE DEF f0, first
            <6> QED
              BY <6>1, <6>2, MappedSeq
          <5>3. first = <<>>
            <6>1. first \in Seq(Link)
              BY <1>1, <1>6
            <6>2. Mapped(first, f0) = <<>>
              BY <2>7, <3>2, <5>1
            <6>3. Len(first) = 0
              BY <5>2, <6>2, EmptySeq
            <6> HIDE DEF first
            <6> QED
              BY <6>1, <6>3, EmptySeq
          <5> QED
            BY <5>3, MappedEmpty
        <4>2. UnwrappedIn(s, Mapped(first, f1)) = <<>>
          BY <3>2, <4>1 DEF UnwrappedIn
        <4> QED
          BY <2>4, <2>7, <3>2, <4>2 DEF BranchRows
      <3> QED
        BY <3>1, <3>2
    <2> QED
      BY <1>5, <1>10, <2>8 DEF UnwrapsOnce
  <1> QED
    BY <1>8, <1>9, <1>10

-----------------------------------------------------------------------------
(* The page is the beginning of what was requested.                        *)

RequestedIn(seq, keys) == Keep(seq, {l \in Link : l.parent \in keys})
PageIn(seq, keys) ==
    LET requested == RequestedIn(seq, keys)
    IN  SubSeq(requested, 1, IF Len(requested) < MaxLimit THEN Len(requested) ELSE MaxLimit)

LEMMA PageIsBeginning ==
    ASSUME NEW E, NEW seq \in Seq(E), NEW keys, E \subseteq Link
    PROVE  /\ RequestedIn(seq, keys) \in Seq(E)
           /\ PageIn(seq, keys) \in Seq(E)
           /\ \E rest \in Seq(E) : RequestedIn(seq, keys) = PageIn(seq, keys) \o rest
           /\ Len(RequestedIn(seq, keys)) <= MaxLimit => PageIn(seq, keys) = RequestedIn(seq, keys)
  <1> DEFINE req == RequestedIn(seq, keys)
             n == IF Len(req) < MaxLimit THEN Len(req) ELSE MaxLimit
             wanted == {l \in Link : l.parent \in keys}
  <1>1. req \in Seq(E)
    <2>1. req = Keep(seq, wanted)
      BY DEF RequestedIn
    <2> HIDE DEF req, wanted
    <2>2. Keep(seq, wanted) \in Seq(E \cap wanted)
      BY KeepInSeq
    <2> DEFINE kept == Keep(seq, wanted)
    <2>3. kept \in Seq(E \cap wanted)
      BY <2>2
    <2> HIDE DEF kept
    <2>4. kept \in Seq(E)
      BY <2>3
    <2> QED
      BY <2>1, <2>4 DEF kept
  <1>2. PageIn(seq, keys) = SubSeq(req, 1, n)
    BY DEF PageIn
  <1> HIDE DEF req
  <1>3. n \in 0..Len(req) /\ (Len(req) <= MaxLimit => n = Len(req)) /\ Len(req) \in Nat
    BY <1>1, BoundsAssumption
  <1> HIDE DEF n
  <1>4. SubSeq(req, 1, n) \in Seq(E) /\ SubSeq(req, n + 1, Len(req)) \in Seq(E)
    BY <1>1, <1>3
  <1>5. req = SubSeq(req, 1, n) \o SubSeq(req, n + 1, Len(req))
    <2>1. SubSeq(req, 1, n) \o SubSeq(req, n + 1, Len(req)) = SubSeq(req, 1, Len(req))
      <3>1. 1 \in 1..(Len(req) + 1) /\ n \in (1 - 1)..Len(req) /\ Len(req) \in n..Len(req)
        BY <1>3
      <3> QED
        BY <1>1, <3>1, ConcatAdjacentSubSeq
    <2>2. SubSeq(req, 1, Len(req)) = req
      BY <1>1, SubSeqFull
    <2> QED
      BY <2>1, <2>2
  <1>6. Len(req) <= MaxLimit => SubSeq(req, 1, n) = req
    BY <1>1, <1>3, SubSeqFull
  <1> QED
    BY <1>1, <1>2, <1>4, <1>5, <1>6 DEF req

(* What the page gives an item is the beginning of what all rows give.     *)
LEMMA PageGivesBeginning ==
    ASSUME NEW s, NEW seq \in Seq(Link), NEW keys, NEW key, key \in keys \/ key \notin Parents
    PROVE  /\ IsPrefix(FinalRows(s, PageIn(seq, keys), key), FinalRows(s, seq, key))
           /\ Len(RequestedIn(seq, keys)) <= MaxLimit =>
                 FinalRows(s, PageIn(seq, keys), key) = FinalRows(s, seq, key)
  <1> DEFINE page == PageIn(seq, keys)
             req == RequestedIn(seq, keys)
             f0 == FetchedRow(FALSE)
             wanted == {l \in Link : l.parent \in keys}
             all == Keep(seq, FinalsOf(key))
             some == Keep(page, FinalsOf(key))
  <1>1. PICK rest \in Seq(Link) : req = page \o rest
    BY PageIsBeginning
  <1>2. page \in Seq(Link) /\ (Len(req) <= MaxLimit => page = req)
    BY PageIsBeginning
  <1>3. Keep(req, FinalsOf(key)) = all
    <2>1. req = Keep(seq, wanted)
      BY DEF RequestedIn
    <2>2. Link \cap (wanted \cap FinalsOf(key)) = Link \cap FinalsOf(key)
      <3>1. \A l \in Link : l.parent \in Parents
        BY DEF Link
      <3> QED
        BY <3>1 DEF FinalsOf
    <2> HIDE DEF wanted
    <2>3. Keep(Keep(seq, wanted), FinalsOf(key)) = Keep(seq, wanted \cap FinalsOf(key))
      BY KeepTwice
    <2>4. Keep(seq, wanted \cap FinalsOf(key)) = all
      BY <2>2, KeepSame
    <2> QED
      BY <2>1, <2>3, <2>4
  <1> DEFINE others == Keep(rest, FinalsOf(key))
  <1> HIDE DEF page, req
  <1>4. all = some \o others
    <2>1. Keep(page \o rest, FinalsOf(key)) = some \o others
      BY <1>2, KeepBeginning
    <2> QED
      BY <1>1, <1>3, <2>1
  <1>5. some \in Seq(Link) /\ others \in Seq(Link) /\ all \in Seq(Link)
    <2>1. \A q \in Seq(Link) : Keep(q, FinalsOf(key)) \in Seq(Link \cap FinalsOf(key))
      BY KeepInSeq
    <2>2. Link \cap FinalsOf(key) \subseteq Link
      OBVIOUS
    <2>3. \A q \in Seq(Link \cap FinalsOf(key)) : q \in Seq(Link)
      BY <2>2, SeqMonotonic
    <2> QED
      BY <1>2, <2>1, <2>3
  <1> HIDE DEF all, some, others
  <1>6. DOMAIN f0 = Link /\ \A l \in DOMAIN f0 : f0[l] \in AnyRow
    BY RowTypes
  <1> HIDE DEF f0
  <1> DEFINE a == Mapped(some, f0)
             b == Mapped(others, f0)
  <1>7. Mapped(all, f0) = a \o b
    <2>1. some \in Seq(DOMAIN f0) /\ others \in Seq(DOMAIN f0)
      BY <1>5, <1>6
    <2> QED
      BY <1>4, <2>1, MappedConcat
  <1>8. a \in Seq(AnyRow) /\ b \in Seq(AnyRow)
    <2>1. some \in Seq(DOMAIN f0) /\ others \in Seq(DOMAIN f0)
      BY <1>5, <1>6
    <2> QED
      BY <1>6, <2>1, MappedSeq
  <1>9. /\ FinalRows(s, page, key) = FirstIn(s, a)
        /\ FinalRows(s, seq, key) = FirstIn(s, a \o b)
    <2>1. FinalRows(s, page, key) = FirstIn(s, a)
      BY DEF FinalRows, f0, some
    <2>2. FinalRows(s, seq, key) = FirstIn(s, Mapped(all, f0))
      BY DEF FinalRows, f0, all
    <2> QED
      BY <1>7, <2>1, <2>2
  <1> HIDE DEF a, b
  <1>10. \A q \in Seq(AnyRow) : IsPrefix(<<>>, q)
    BY DEF IsPrefix
  <1>11. IsPrefix(FirstIn(s, a), FirstIn(s, a \o b))
    <2>1. CASE s.many
      <3>1. FirstIn(s, a) = a /\ FirstIn(s, a \o b) = a \o b
        BY <2>1 DEF FirstIn
      <3>2. Len(a) <= Len(a \o b) /\ SubSeq(a, 1, Len(a)) = a /\ Len(a) \in Nat
        BY <1>8
      <3>3. SubSeq(a \o b, 1, Len(a)) = a
        <4> DEFINE c == SubSeq(a \o b, 1, Len(a))
        <4>1. a \o b \in Seq(AnyRow) /\ Len(a \o b) = Len(a) + Len(b) /\ Len(b) \in Nat
          BY <1>8
        <4>2. c \in Seq(AnyRow) /\ Len(c) = Len(a) /\ \A i \in 1..Len(a) : c[i] = (a \o b)[i]
          BY <3>2, <4>1
        <4>3. \A i \in 1..Len(a) : (a \o b)[i] = a[i]
          BY <1>8
        <4> HIDE DEF c
        <4>4. c = a
          BY <1>8, <4>2, <4>3, SeqEqual
        <4> QED
          BY <4>4 DEF c
      <3> QED
        BY <3>1, <3>2, <3>3 DEF IsPrefix
    <2>2. CASE ~s.many /\ a = <<>>
      <3>1. FirstIn(s, a) = <<>>
        BY <2>2 DEF FirstIn
      <3>2. FirstIn(s, a \o b) \in Seq(AnyRow)
        <4>1. a \o b \in Seq(AnyRow)
          BY <1>8
        <4> DEFINE c == a \o b
        <4>2. c \in Seq(AnyRow)
          BY <4>1
        <4> HIDE DEF c
        <4>3. FirstIn(s, c) \in Seq(AnyRow)
          <5>1. CASE c = <<>>
            BY <5>1 DEF FirstIn
          <5>2. CASE c # <<>>
            <6>1. Head(c) \in AnyRow
              BY <4>2, <5>2, HeadTailProperties
            <6> QED
              BY <2>2, <5>2, <6>1 DEF FirstIn
          <5> QED
            BY <5>1, <5>2
        <4> QED
          BY <4>3 DEF c
      <3> QED
        BY <1>10, <3>1, <3>2
    <2>3. CASE ~s.many /\ a # <<>>
      <3>1. Len(a) \in Nat \ {0}
        BY <1>8, <2>3, EmptySeq
      <3>2. a \o b # <<>> /\ Head(a \o b) = Head(a)
        BY <1>8, <3>1
      <3>3. FirstIn(s, a \o b) = FirstIn(s, a) /\ FirstIn(s, a) = <<Head(a)>>
        BY <2>3, <3>2 DEF FirstIn
      <3>4. IsPrefix(<<Head(a)>>, <<Head(a)>>)
        BY DEF IsPrefix
      <3> QED
        BY <3>3, <3>4
    <2> QED
      BY <2>1, <2>2, <2>3
  <1>12. ASSUME Len(req) <= MaxLimit
         PROVE  FinalRows(s, page, key) = FinalRows(s, seq, key)
    <2>1. some = all
      BY <1>2, <1>3, <1>12 DEF some
    <2> QED
      BY <2>1 DEF FinalRows, some, all
  <1> QED
    BY <1>9, <1>11, <1>12 DEF page, req

-----------------------------------------------------------------------------
(* The invariant: what the rows and the branches are in each phase.        *)

ItemBranch(i) == Branch(items[i] # None, FirstIn(shape, GroupIn(rows, items[i])))
FinalBranch(i) == Branch(items[i] # None, BranchRows(shape, PageIn(links, ids), items[i]))

InputsFit ==
    /\ shape \in Shapes
    /\ links \in Seq(Link)
    /\ shape.nullable \/ links \in Seq(FilledLinks)
    /\ items \in Seq(Parents \cup {None})

StitchInv ==
    /\ phase \in {"collect", "fetch", "stitch", "done"}
    /\ phase = "collect" => rows = <<>>
    /\ phase # "collect" => ids = ToSet(items) \ {None}
    /\ phase \in {"collect", "fetch"} => branches = <<>>
    /\ phase = "stitch" =>
         /\ rows = RowsIn(shape, PageIn(links, ids))
         /\ branches \in Seq({ItemBranch(i) : i \in DOMAIN items})
         /\ Len(branches) <= Len(items)
         /\ \A i \in 1..Len(branches) : branches[i] = ItemBranch(i)
    /\ phase = "done" =>
         /\ DOMAIN branches = DOMAIN items
         /\ \A i \in DOMAIN items : branches[i] = FinalBranch(i)

LEMMA SequencesUpTo ==
    ASSUME NEW E, NEW n \in Nat
    PROVE  BoundedSeq(E, n) \subseteq Seq(E)
  BY SeqDef DEF BoundedSeq, SeqOf

LEMMA InputsStart == Init => InputsFit
  <1> SUFFICES ASSUME Init PROVE InputsFit
    OBVIOUS
  <1>1. links \in Seq(Link) /\ items \in Seq(Parents \cup {None})
    BY SequencesUpTo, BoundsAssumption DEF Init
  <1>2. ASSUME ~shape.nullable
        PROVE  links \in Seq(FilledLinks)
    <2>1. \A i \in 1..Len(links) : links[i] \in FilledLinks
      BY <1>1, <1>2 DEF Init, FilledLinks
    <2>2. links \in [1..Len(links) -> FilledLinks] /\ Len(links) \in Nat
      BY <1>1, <2>1
    <2> QED
      BY <2>2, SeqDef
  <1> QED
    BY <1>1, <1>2 DEF Init, InputsFit

LEMMA InputsStay == Spec => []InputsFit
  <1>1. InputsFit /\ [Next]_vars => InputsFit'
    BY DEF InputsFit, Next, CollectIDs, Fetch, Stitch, Finalize, vars, inputs
  <1> QED
    BY InputsStart, <1>1, PTL DEF Spec

(* Nothing is on the page of a request without keys.                       *)
LEMMA NoKeysNoRows ==
    ASSUME NEW s, NEW seq \in Seq(Link)
    PROVE  RowsIn(s, PageIn(seq, {})) = <<>>
  <1>1. RequestedIn(seq, {}) = <<>>
    <2>1. Link \cap {l \in Link : l.parent \in {}} = {}
      OBVIOUS
    <2> QED
      BY <2>1, KeepAllOrNone DEF RequestedIn
  <1>2. PageIn(seq, {}) = <<>>
    <2> DEFINE page == PageIn(seq, {})
    <2>1. PICK rest \in Seq(Link) : RequestedIn(seq, {}) = page \o rest
      BY PageIsBeginning
    <2>2. page \in Seq(Link)
      BY PageIsBeginning
    <2> HIDE DEF page
    <2>3. page = <<>>
      BY <1>1, <2>1, <2>2, ConcatEqualIffEmpty, ConcatSimplifications
    <2> QED
      BY <2>3 DEF page
  <1>3. \A w : Mapped(<<>>, FetchedRow(w)) = <<>>
    BY MappedEmpty
  <1>4. UnwrapAll(<<>>) = <<>>
    <2>1. Keep(<<>>, HasPayload) = <<>>
      BY KeepEmpty
    <2> QED
      BY <2>1 DEF UnwrapAll
  <1> QED
    BY <1>2, <1>3, <1>4 DEF RowsIn

(* The operators of the model are those of the proof.                      *)
LEMMA FetchedIsRows ==
    ASSUME links \in Seq(Link)
    PROVE  (IF shape.through /\ shape.nested THEN unwrapThrough(Fetched) ELSE Fetched)
              = RowsIn(shape, PageIn(links, ids))
  <1> DEFINE page == PageIn(links, ids)
  <1>1. Page = page
    BY DEF Page, PageOf, Requested, PageIn, RequestedIn
  <1>2. page \in Seq(Link)
    BY PageIsBeginning
  <1> HIDE DEF page
  <1>3. \A i \in DOMAIN page : page[i] \in Link
    BY <1>2
  <1>4. \A i \in DOMAIN page : FetchedRow(shape.through)[page[i]]
                                 = Row(page[i].parent, page[i].final, shape.through)
    BY <1>3 DEF FetchedRow
  <1>5. Fetched = Mapped(page, FetchedRow(shape.through))
    BY <1>1, <1>4 DEF Fetched, Mapped
  <1> QED
    BY <1>5 DEF RowsIn, unwrapThrough, page

LEMMA UnwrapBranchIs ==
    ASSUME NEW isSet, NEW seq
    PROVE  (IF shape.through THEN UnwrapBranch(Branch(isSet, seq)) ELSE Branch(isSet, seq))
              = Branch(isSet, UnwrappedIn(shape, seq))
  <1>1. UnwrapBranch(Branch(isSet, seq))
          = Branch(isSet, IF ~shape.many /\ UnwrapAll(seq) = <<>> THEN seq ELSE UnwrapAll(seq))
    BY DEF UnwrapBranch, Branch
  <1> QED
    BY <1>1 DEF UnwrappedIn

LEMMA StitchStarts == Init => StitchInv
  BY DEF Init, StitchInv

LEMMA StitchStep == InputsFit /\ InputsFit' /\ StitchInv /\ [Next]_vars => StitchInv'
  <1> SUFFICES ASSUME InputsFit, InputsFit', StitchInv, [Next]_vars
               PROVE  StitchInv'
    OBVIOUS
  <1>1. CASE CollectIDs
    <2>1. ids' = ToSet(items') \ {None} /\ rows' = <<>> /\ branches' = <<>>
      BY <1>1 DEF CollectIDs, StitchInv, inputs
    <2>2. CASE ids' = {}
      <3>1. phase' = "stitch"
        BY <1>1, <2>2 DEF CollectIDs
      <3>2. RowsIn(shape', PageIn(links', {})) = <<>>
        BY NoKeysNoRows DEF InputsFit
      <3>3. rows' = RowsIn(shape', PageIn(links', ids'))
        BY <2>1, <2>2, <3>2
      <3> QED
        BY <2>1, <3>1, <3>3, EmptySeq DEF StitchInv, InputsFit
    <2>3. CASE ids' # {}
      <3>1. phase' = "fetch"
        BY <1>1, <2>3 DEF CollectIDs
      <3> QED
        BY <2>1, <3>1 DEF StitchInv
    <2> QED
      BY <2>2, <2>3
  <1>2. CASE Fetch
    <2>1. /\ phase' = "stitch" /\ ids' = ids /\ ids = ToSet(items) \ {None}
          /\ items' = items /\ links' = links /\ shape' = shape /\ branches' = <<>>
      BY <1>2 DEF Fetch, StitchInv, inputs
    <2>2. rows' = RowsIn(shape, PageIn(links, ids))
      BY <1>2, FetchedIsRows DEF Fetch, InputsFit
    <2>3. rows' = RowsIn(shape', PageIn(links', ids'))
      BY <2>1, <2>2
    <2>4. \A S : <<>> \in Seq(S)
      OBVIOUS
    <2>5. Len(<<>>) = 0 /\ Len(items') \in Nat /\ \A i \in 1..0 : FALSE
      BY DEF InputsFit
    <2>6. /\ branches' \in Seq({ItemBranch(i) : i \in DOMAIN items})'
          /\ Len(branches') <= Len(items')
          /\ \A i \in 1..Len(branches') : branches'[i] = ItemBranch(i)'
      BY <2>1, <2>4, <2>5
    <2> QED
      BY <2>1, <2>3, <2>6 DEF StitchInv
  <1>3. CASE Stitch
    <2> DEFINE n == Len(branches) + 1
               B == {ItemBranch(i) : i \in DOMAIN items}
    <2>1. /\ phase = "stitch" /\ phase' = phase /\ ids' = ids /\ rows' = rows
          /\ items' = items /\ links' = links /\ shape' = shape
          /\ Len(branches) < Len(items)
      BY <1>3 DEF Stitch, inputs
    <2>2. /\ branches \in Seq(B)
          /\ \A i \in 1..Len(branches) : branches[i] = ItemBranch(i)
      BY <2>1 DEF StitchInv
    <2>3. branches' = Append(branches, ItemBranch(n))
      BY <1>3 DEF Stitch, ItemBranch, Branch, AtMostOne, Group, FirstIn, GroupIn
    <2>4. n \in DOMAIN items /\ n \in Nat /\ Len(branches) \in Nat
      BY <2>1, <2>2 DEF InputsFit
    <2>5. ItemBranch(n) \in B
      BY <2>4
    <2>6. \A i : ItemBranch(i)' = ItemBranch(i)
      BY <2>1 DEF ItemBranch
    <2>7. B' = B
      BY <2>1, <2>6
    <2> HIDE DEF B
    <2>8. /\ branches' \in Seq(B) /\ Len(branches') = n
          /\ \A i \in 1..n : branches'[i] = ItemBranch(i)
      BY <2>2, <2>3, <2>4, <2>5
    <2>9. n <= Len(items')
      BY <2>1, <2>4 DEF InputsFit
    <2>10. branches' \in Seq({ItemBranch(i) : i \in DOMAIN items})'
      BY <2>7, <2>8 DEF B
    <2> QED
      BY <2>1, <2>6, <2>8, <2>9, <2>10 DEF StitchInv
  <1>4. CASE Finalize
    <2>1. /\ phase = "stitch" /\ phase' = "done" /\ ids' = ids /\ rows' = rows
          /\ items' = items /\ links' = links /\ shape' = shape
          /\ Len(branches) = Len(items) /\ ids = ToSet(items) \ {None}
      BY <1>4 DEF Finalize, inputs, StitchInv
    <2>2. DOMAIN branches = DOMAIN items
      BY <2>1 DEF StitchInv, InputsFit
    <2>3. \A i \in DOMAIN items : branches[i] = ItemBranch(i)
      BY <2>1 DEF StitchInv, InputsFit
    <2>4. ASSUME NEW i \in DOMAIN items
          PROVE  branches'[i] = FinalBranch(i)
      <3>1. branches'[i] = IF shape.through THEN UnwrapBranch(branches[i]) ELSE branches[i]
        BY <1>4, <2>2 DEF Finalize
      <3>2. branches[i] = Branch(items[i] # None, FirstIn(shape, GroupIn(rows, items[i])))
        BY <2>3 DEF ItemBranch
      <3>3. branches'[i] = Branch(items[i] # None,
                                  UnwrappedIn(shape, FirstIn(shape, GroupIn(rows, items[i]))))
        BY <3>1, <3>2, UnwrapBranchIs
      <3>4. rows = RowsIn(shape, PageIn(links, ids))
        BY <2>1 DEF StitchInv
      <3> QED
        BY <3>3, <3>4 DEF FinalBranch, BranchRows
    <2>5. DOMAIN branches' = DOMAIN items
      BY <1>4, <2>2 DEF Finalize
    <2>6. \A i : FinalBranch(i)' = FinalBranch(i)
      BY <2>1 DEF FinalBranch
    <2> QED
      BY <2>1, <2>4, <2>5, <2>6 DEF StitchInv
  <1>5. CASE UNCHANGED vars
    <2>1. /\ shape' = shape /\ links' = links /\ items' = items /\ phase' = phase
          /\ ids' = ids /\ rows' = rows /\ branches' = branches
      BY <1>5 DEF vars, inputs
    <2>2. \A i : ItemBranch(i)' = ItemBranch(i) /\ FinalBranch(i)' = FinalBranch(i)
      BY <2>1 DEF ItemBranch, FinalBranch
    <2>3. {ItemBranch(i) : i \in DOMAIN items}' = {ItemBranch(i) : i \in DOMAIN items}
      BY <2>1, <2>2
    <2>4. phase = "stitch" =>
            /\ rows' = RowsIn(shape, PageIn(links, ids))'
            /\ branches' \in Seq({ItemBranch(i) : i \in DOMAIN items})'
            /\ Len(branches') <= Len(items')
            /\ \A i \in 1..Len(branches') : branches'[i] = ItemBranch(i)'
      BY <2>1, <2>2, <2>3 DEF StitchInv
    <2>5. phase = "done" =>
            /\ DOMAIN branches' = DOMAIN items'
            /\ \A i \in DOMAIN items' : branches'[i] = FinalBranch(i)'
      BY <2>1, <2>2 DEF StitchInv
    <2>6. /\ phase' \in {"collect", "fetch", "stitch", "done"}
          /\ phase = "collect" => rows' = <<>>
          /\ phase # "collect" => ids' = ToSet(items') \ {None}
          /\ phase \in {"collect", "fetch"} => branches' = <<>>
      BY <2>1 DEF StitchInv
    <2> QED
      BY <2>1, <2>4, <2>5, <2>6 DEF StitchInv
  <1> QED
    BY <1>1, <1>2, <1>3, <1>4, <1>5 DEF Next

LEMMA StitchAlways == Spec => []StitchInv
  BY StitchStarts, StitchStep, InputsStay, PTL DEF Spec

(* What an item should get are the final rows among all rows.              *)
LEMMA ExpectedIsFinal ==
    ASSUME NEW key, links \in Seq(Link)
    PROVE  Expected(key) = FinalRows(shape, links, key)
  <1> DEFINE all == Keep(links, FinalsOf(key))
  <1>1. all \in Seq(Link \cap FinalsOf(key))
    BY KeepInSeq
  <1>2. Related(key) = all
    BY DEF Related, FinalsOf
  <1> HIDE DEF all
  <1>3. \A i \in DOMAIN all : all[i] \in Link /\ all[i].parent = key
    BY <1>1 DEF FinalsOf
  <1>4. \A i \in DOMAIN all : FetchedRow(FALSE)[all[i]] = Row(key, all[i].final, FALSE)
    BY <1>3 DEF FetchedRow
  <1>5. Joined(key) = Mapped(all, FetchedRow(FALSE))
    BY <1>2, <1>4 DEF Joined, Mapped
  <1> QED
    BY <1>5 DEF Expected, FinalRows, FirstIn, all

(* At the end every item has the final rows of the page, or none if they   *)
(* were unwrapped twice.                                                   *)
LEMMA ItemsHaveFinalRows ==
    ASSUME InputsFit, StitchInv, phase = "done", \A s \in Shapes : KeepsPlace(s),
           NEW i \in DOMAIN items
    PROVE  /\ UnwrapsOnce(shape) =>
                branches[i] = Branch(items[i] # None, FinalRows(shape, PageIn(links, ids), items[i]))
           /\ ~UnwrapsOnce(shape) => branches[i].rows = <<>>
           /\ items[i] \in ids \/ items[i] \notin Parents
  <1> DEFINE page == PageIn(links, ids)
  <1>1. shape \in Shape /\ KeepsPlace(shape) /\ (shape.nullable => shape.through)
    BY ShapesAssumption DEF InputsFit
  <1>2. page \in Seq(Link) /\ (shape.nullable \/ page \in Seq(FilledLinks))
    <2>1. FilledLinks \subseteq Link
      BY DEF FilledLinks
    <2> QED
      BY <2>1, PageIsBeginning DEF InputsFit
  <1>3. branches[i] = Branch(items[i] # None, BranchRows(shape, page, items[i]))
    BY DEF StitchInv, FinalBranch
  <1>4. branches[i].rows = BranchRows(shape, page, items[i])
    BY <1>3 DEF Branch
  <1> HIDE DEF page
  <1>5. IF UnwrapsOnce(shape) THEN BranchRows(shape, page, items[i]) = FinalRows(shape, page, items[i])
        ELSE BranchRows(shape, page, items[i]) = <<>>
    BY <1>1, <1>2, BranchHasFinalRows
  <1>6. items[i] \in ids \/ items[i] \notin Parents
    <2>1. items[i] \in ToSet(items)
      BY DEF ToSet
    <2>2. ids = ToSet(items) \ {None}
      BY DEF StitchInv
    <2> QED
      BY <2>1, <2>2, NoneAssumption
  <1> QED
    BY <1>3, <1>4, <1>5, <1>6 DEF page

LEMMA FinalRowsAreRows ==
    ASSUME NEW s, NEW seq \in Seq(Link), NEW key
    PROVE  Len(FinalRows(s, seq, key)) \in Nat
  <1> DEFINE f0 == FetchedRow(FALSE)
             finals == Keep(seq, FinalsOf(key))
             first == FirstIn(s, finals)
  <1>1. finals \in Seq(Link)
    <2>1. finals \in Seq(Link \cap FinalsOf(key))
      BY KeepInSeq
    <2> HIDE DEF finals
    <2> QED
      BY <2>1
  <1>2. FinalRows(s, seq, key) = Mapped(first, f0) /\ first \in Seq(Link)
    <2> HIDE DEF finals
    <2>1. FirstIn(s, Mapped(finals, f0)) = Mapped(first, f0) /\ first \in Seq(Link)
      BY <1>1, FirstMapped
    <2> QED
      BY <2>1 DEF FinalRows, finals
  <1>3. DOMAIN f0 = Link /\ \A l \in DOMAIN f0 : f0[l] \in AnyRow
    BY RowTypes
  <1> HIDE DEF f0, first
  <1>4. first \in Seq(DOMAIN f0)
    BY <1>2, <1>3
  <1>5. Mapped(first, f0) \in Seq(AnyRow)
    BY <1>3, <1>4, MappedSeq
  <1> QED
    BY <1>2, <1>5

LEMMA EmptyIsBeginning == \A seq : Len(seq) \in Nat => IsPrefix(<<>>, seq)
  BY DEF IsPrefix

-----------------------------------------------------------------------------
(* The relations with a has_one through a model without further branches   *)
(* are those in which every intermediate row has a final one.              *)
ShapesKeepPlace == \A s \in Shapes : KeepsPlace(s)

(* No has_many through relation leads to a preset with branches of its own.*)
ShapesUnwrapOnce == \A s \in Shapes : UnwrapsOnce(s)

(* Whatever an item gets in its has_one or has_many branch (resolver.go,   *)
(* Resolver) is the beginning of the rows joined to its key, above         *)
(* maxLimit too.                                                           *)
THEOREM BranchIsAlwaysBeginningOfJoin == Spec /\ ShapesKeepPlace => []BranchIsBeginningOfJoin
  <1> SUFFICES ASSUME ShapesKeepPlace PROVE Spec => []BranchIsBeginningOfJoin
    OBVIOUS
  <1>1. ASSUME InputsFit, StitchInv
        PROVE  BranchIsBeginningOfJoin
    <2> SUFFICES ASSUME phase = "done", NEW i \in DOMAIN items
                 PROVE  IsPrefix(branches[i].rows, Expected(items[i]))
      BY DEF BranchIsBeginningOfJoin
    <2> DEFINE key == items[i]
               page == PageIn(links, ids)
    <2>1. \A s \in Shapes : KeepsPlace(s)
      BY DEF ShapesKeepPlace
    <2>2. /\ UnwrapsOnce(shape) => branches[i] = Branch(key # None, FinalRows(shape, page, key))
          /\ ~UnwrapsOnce(shape) => branches[i].rows = <<>>
          /\ key \in ids \/ key \notin Parents
      BY <1>1, <2>1, ItemsHaveFinalRows
    <2>3. links \in Seq(Link)
      BY <1>1 DEF InputsFit
    <2>4. Expected(key) = FinalRows(shape, links, key)
      BY <2>3, ExpectedIsFinal
    <2>5. IsPrefix(FinalRows(shape, page, key), FinalRows(shape, links, key))
      BY <2>2, <2>3, PageGivesBeginning
    <2>6. Len(FinalRows(shape, links, key)) \in Nat
      BY <2>3, FinalRowsAreRows
    <2> HIDE DEF key, page
    <2>7. CASE UnwrapsOnce(shape)
      <3>1. branches[i].rows = FinalRows(shape, page, key)
        BY <2>2, <2>7 DEF Branch
      <3> QED
        BY <2>4, <2>5, <3>1 DEF key
    <2>8. CASE ~UnwrapsOnce(shape)
      BY <2>2, <2>4, <2>6, <2>8, EmptyIsBeginning DEF key
    <2> QED
      BY <2>7, <2>8
  <1> QED
    BY <1>1, InputsStay, StitchAlways, PTL

(* As long as the rows of all parents stay below maxLimit, every item gets *)
(* exactly the final rows joined to its own key: the grouping by foreign   *)
(* key, the first row for has_one and the unwrapping of through relations  *)
(* (resolver.go, finalizeItems.go) together compute the join.              *)
THEOREM BranchIsAlwaysJoin == Spec /\ ShapesKeepPlace /\ ShapesUnwrapOnce => []BranchIsJoin
  <1> SUFFICES ASSUME ShapesKeepPlace, ShapesUnwrapOnce PROVE Spec => []BranchIsJoin
    OBVIOUS
  <1>1. ASSUME InputsFit, StitchInv
        PROVE  BranchIsJoin
    <2> SUFFICES ASSUME phase = "done", Len(Requested) <= MaxLimit, NEW i \in DOMAIN items
                 PROVE  branches[i] = Branch(items[i] # None, Expected(items[i]))
      BY DEF BranchIsJoin
    <2> DEFINE key == items[i]
               page == PageIn(links, ids)
    <2>1. \A s \in Shapes : KeepsPlace(s)
      BY DEF ShapesKeepPlace
    <2>2. UnwrapsOnce(shape) /\ links \in Seq(Link)
      BY <1>1 DEF ShapesUnwrapOnce, InputsFit
    <2>3. /\ branches[i] = Branch(key # None, FinalRows(shape, page, key))
          /\ key \in ids \/ key \notin Parents
      BY <1>1, <2>1, <2>2, ItemsHaveFinalRows
    <2>4. Len(RequestedIn(links, ids)) <= MaxLimit
      BY DEF Requested, RequestedIn
    <2>5. FinalRows(shape, page, key) = FinalRows(shape, links, key)
      BY <2>2, <2>3, <2>4, PageGivesBeginning
    <2> HIDE DEF page
    <2> QED
      BY <2>2, <2>3, <2>5, ExpectedIsFinal
  <1> QED
    BY <1>1, InputsStay, StitchAlways, PTL
-----------------------------------------------------------------------------
(* Polymorphic branches, on tables and items of their own.                 *)

(* What has been fetched for a reference is the row it names, if any.       *)
Available(ref) == ref \in stored /\ ref.type \in Resolvable \cap keyed
Settled(ref) == ref \in fetched <=> Available(ref)

(* What an item is to get.                                                 *)
Due(ref) ==
    IF ~IsSet(ref) THEN Absent
    ELSE IF Available(ref) THEN Found(ref) ELSE Null

PolyInv ==
    /\ refs \in Seq(Item) /\ refs # <<>>
    /\ stored \subseteq Ref
    /\ polyPhase \in {"group", "fetch", "stitch", "done"}
    /\ polyPhase = "group" => fetched = {}
    /\ polyPhase = "fetch" =>
          \A ref \in Wanted : IsSet(ref) =>
              IF ref.type \in toFetch THEN ref \notin fetched ELSE Settled(ref)
    /\ polyPhase \in {"group", "fetch"} => polyBranches = <<>>
    /\ polyPhase \in {"stitch", "done"} => \A ref \in Wanted : IsSet(ref) => Settled(ref)
    /\ polyBranches \in Seq({Absent} \cup {Found(ref) : ref \in Ref})
    /\ Len(polyBranches) <= Len(refs)
    /\ \A i \in 1..Len(polyBranches) : polyBranches[i] = Due(Read(refs[i]))
    /\ polyPhase = "done" => Len(polyBranches) = Len(refs)

LEMMA PolyInvStarts ==
    ASSUME PolyInit
    PROVE  PolyInv
  <1>1. refs \in Seq(Item)
    BY DEF PolyInit, BoundedSeq, SeqOf
  <1>2. stored \subseteq Ref
    BY DEF PolyInit, Ref
  <1> QED
    BY <1>1, <1>2, EmptySeq DEF PolyInit, PolyInv

LEMMA GroupStep ==
    ASSUME PolyInv, GroupByType
    PROVE  PolyInv'
  <1>1. /\ polyPhase = "group" /\ polyPhase' = "fetch" /\ fetched' = {} /\ polyBranches' = <<>>
        /\ UNCHANGED <<refs, stored, keyed>> /\ Wanted' = Wanted
        /\ toFetch' = {ref.type : ref \in {w \in Wanted : IsSet(w)}}
    BY DEF GroupByType, PolyInv, polyInputs, Wanted, Read
  <1>2. \A ref \in Wanted : IsSet(ref) => ref.type \in toFetch'
    BY <1>1
  <1> QED
    BY <1>1, <1>2 DEF PolyInv, Read

LEMMA FetchStep ==
    ASSUME PolyInv, NEW t \in Types, FetchType(t)
    PROVE  PolyInv'
  <1>1. /\ polyPhase = "fetch" /\ polyPhase' = "fetch" /\ polyBranches' = polyBranches
        /\ UNCHANGED <<refs, stored, keyed>> /\ Wanted' = Wanted
        /\ toFetch' = toFetch \ {t} /\ t \in toFetch
    BY DEF FetchType, polyInputs, Wanted, Read
  <1>2. ASSUME NEW ref \in Wanted, IsSet(ref)
        PROVE  IF ref.type \in toFetch' THEN ref \notin fetched' ELSE Settled(ref)'
    <2>1. IF ref.type \in toFetch THEN ref \notin fetched ELSE Settled(ref)
      BY <1>1, <1>2 DEF PolyInv
    <2>2. ref \in polyRows(t) <=> Available(ref) /\ ref.type = t
      <3>1. ASSUME ref \in polyRows(t)
            PROVE  Available(ref) /\ ref.type = t
        <4>1. PICK row \in stored :
                 t \in Resolvable /\ row.type = t /\ row \in Wanted /\ ref = ByKey(row)
          BY <3>1 DEF polyRows
        <4>2. ref.id # NoValue
          BY <1>2 DEF IsSet
        <4>3. t \in keyed
          <5>1. SUFFICES ASSUME t \notin keyed
                         PROVE  row \in stored /\ FALSE
            BY <4>1
          <5>2. row \in Ref /\ ref = [row EXCEPT !.id = NoValue]
            BY <4>1, <5>1 DEF ByKey, PolyInv, Ref
          <5> QED
            BY <4>2, <5>2 DEF Ref
        <4> QED
          BY <4>1, <4>3 DEF ByKey, Available
      <3>2. ASSUME Available(ref), ref.type = t
            PROVE  ref \in polyRows(t)
        BY <3>2 DEF Available, polyRows, ByKey
      <3> QED
        BY <3>1, <3>2
    <2>3. fetched' = fetched \cup polyRows(t)
      BY DEF FetchType
    <2> QED
      BY <1>1, <2>1, <2>2, <2>3 DEF Settled, Available
  <1> QED
    BY <1>1, <1>2 DEF PolyInv, Read, IsSet, Due, Available

LEMMA StartPolyStep ==
    ASSUME PolyInv, StartStitching
    PROVE  PolyInv'
  <1>1. /\ polyPhase = "fetch" /\ polyPhase' = "stitch" /\ toFetch = {}
        /\ UNCHANGED <<refs, stored, keyed, fetched, polyBranches>> /\ Wanted' = Wanted
    BY DEF StartStitching, polyInputs, Wanted, Read
  <1> QED
    BY <1>1 DEF PolyInv, Settled, Available, Read, Due

LEMMA StitchPolyStep ==
    ASSUME PolyInv, StitchPoly
    PROVE  PolyInv'
  <1> DEFINE n == Len(polyBranches) + 1
             ref == Read(refs[n])
  <1>1. /\ polyPhase = "stitch" /\ Len(polyBranches) < Len(refs) /\ polyPhase' \in {"stitch", "done"}
        /\ UNCHANGED <<refs, stored, keyed, fetched>> /\ Wanted' = Wanted
    BY DEF StitchPoly, polyInputs, Wanted, Read
  <1>2. n \in 1..Len(refs) /\ Len(refs) \in Nat /\ Len(polyBranches) \in Nat
    BY <1>1 DEF PolyInv
  <1>3. ref \in Wanted /\ ref \in Ref
    <2>1. refs[n] \in Item
      BY <1>2, ElementOfSeq DEF PolyInv
    <2>2. n \in DOMAIN refs
      BY <1>2, LenProperties DEF PolyInv
    <2>3. ref \in Ref
      BY <2>1 DEF Item, Read
    <2>4. ref \in Wanted
      BY <2>2 DEF Wanted
    <2> QED
      BY <2>3, <2>4
  <1>4. polyBranches' = Append(polyBranches, Due(ref))
    <2>1. IsSet(ref) => Settled(ref)
      BY <1>1, <1>3 DEF PolyInv
    <2> QED
      BY <2>1 DEF StitchPoly, Due, Settled
  <1>5. Due(ref) \in {Absent} \cup {Found(r) : r \in Ref}
    <2>1. NoRef \in Ref
      BY DEF NoRef, Ref
    <2> QED
      BY <1>3, <2>1 DEF Due, Null
  <1>6. /\ polyBranches' \in Seq({Absent} \cup {Found(r) : r \in Ref})
        /\ Len(polyBranches') = n
        /\ \A i \in 1..Len(polyBranches) : polyBranches'[i] = polyBranches[i]
        /\ polyBranches'[n] = Due(ref)
    BY <1>4, <1>5, AppendProperties DEF PolyInv
  <1>7. polyPhase' = "done" => Len(polyBranches') = Len(refs)
    BY <1>1, <1>6 DEF StitchPoly
  <1>8. \A i \in 1..Len(polyBranches') : polyBranches'[i] = Due(Read(refs[i]))
    <2> HIDE DEF ref
    <2>1. \A i \in 1..n : i \in 1..Len(polyBranches) \/ i = n
      BY <1>2
    <2> QED
      BY <1>6, <2>1 DEF PolyInv, ref
  <1>9. \A r : (Due(r)' = Due(r)) /\ (Read(r)' = Read(r)) /\ (Settled(r)' <=> Settled(r))
    BY <1>1 DEF Due, Available, Settled, Read
  <1> QED
    BY <1>1, <1>2, <1>6, <1>7, <1>8, <1>9 DEF PolyInv, IsSet

LEMMA PolyAlways == PolySpec => []PolyInv
  <1>1. ASSUME PolyInv, [PolyNext]_polyVars
        PROVE  PolyInv'
    <2>1. CASE UNCHANGED polyVars
      BY <1>1, <2>1 DEF polyVars, polyInputs, PolyInv, Wanted, Read, Settled, Available, Due
    <2> QED
      BY <1>1, <2>1, GroupStep, FetchStep, StartPolyStep, StitchPolyStep DEF PolyNext
  <1> QED
    BY <1>1, PolyInvStarts, PTL DEF PolySpec

(* Every item gets the row its own reference names, in whatever order the   *)
(* types are fetched and whatever ids the tables share, if the branch is in *)
(* the item itself and the preset of its type selects the key; from a       *)
(* preset without the key it gets null.  (resolver.go:330, 385)             *)
THEOREM BranchesAreReferenced ==
    ASSUME Levels = {"root"}
    PROVE  PolySpec => []BranchIsReferenced
  <1>1. PolyInit => level = "root"
    BY DEF PolyInit
  <1>2. level = "root" /\ [PolyNext]_polyVars => (level = "root")'
    BY DEF PolyNext, polyVars, polyInputs, GroupByType, FetchType, StartStitching, StitchPoly
  <1>3. PolyInv /\ level = "root" => BranchIsReferenced
    <2> SUFFICES ASSUME PolyInv, level = "root", polyPhase = "done", NEW i \in DOMAIN refs
                 PROVE  polyBranches[i] = Due(refs[i][level])
      BY DEF BranchIsReferenced, Due, Available
    <2>1. i \in 1..Len(polyBranches)
      BY DEF PolyInv
    <2> QED
      BY <2>1 DEF PolyInv, Read
  <1> QED
    BY <1>1, <1>2, <1>3, PolyAlways, PTL DEF PolySpec

-----------------------------------------------------------------------------
(* Items: paths and the maps they lead through.                            *)

(* All names; of "id" the provers do not know that it is one. *)
Keys == STRING \cup {"id"}

ItemPath == Seq(Keys)

LEMMA AppendFacts ==
    ASSUME NEW S, NEW p \in Seq(S), NEW k \in S
    PROVE  /\ Append(p, k) \in Seq(S) /\ Append(p, k) # <<>>
           /\ Len(Append(p, k)) = Len(p) + 1 /\ Len(p) \in Nat
           /\ Append(p, k)[Len(p) + 1] = k
           /\ \A n \in 1..Len(p) : Append(p, k)[n] = p[n]
           /\ Front(Append(p, k)) = p
  <1>1. /\ Append(p, k) \in Seq(S) /\ Append(p, k) # <<>>
        /\ Len(Append(p, k)) = Len(p) + 1 /\ Len(p) \in Nat
        /\ Append(p, k)[Len(p) + 1] = k
        /\ \A n \in 1..Len(p) : Append(p, k)[n] = p[n]
    BY AppendProperties, LenProperties
  <1>2. Front(Append(p, k)) = p
    <2>1. Front(Append(p, k)) = SubSeq(Append(p, k), 1, Len(p))
      BY <1>1 DEF Front
    <2>2. SubSeq(Append(p, k), 1, Len(p)) = p
      OBVIOUS
    <2> QED
      BY <2>1, <2>2
  <1> QED
    BY <1>1, <1>2

LEMMA FrontFacts ==
    ASSUME NEW S, NEW q \in Seq(S), q # <<>>
    PROVE  /\ Front(q) \in Seq(S) /\ q[Len(q)] \in S
           /\ q = Append(Front(q), q[Len(q)])
           /\ Len(q) \in Nat \ {0} /\ Len(Front(q)) = Len(q) - 1
  <1>1. Len(q) \in Nat \ {0} /\ q[Len(q)] \in S
    BY EmptySeq, ElementOfSeq
  <1>2. \E s \in Seq(S) : \E e \in S : q = Append(s, e)
    BY SequenceEmptyOrAppend
  <1> PICK s \in Seq(S), e \in S : q = Append(s, e)
    BY <1>2
  <1>3. /\ Front(Append(s, e)) = s /\ Len(Append(s, e)) = Len(s) + 1
        /\ Append(s, e)[Len(s) + 1] = e /\ Len(s) \in Nat
    BY AppendFacts
  <1> HIDE DEF Front
  <1>4. Front(q) = s /\ q[Len(q)] = e /\ Len(q) = Len(s) + 1
    BY <1>3
  <1> QED
    BY <1>1, <1>3, <1>4

LEMMA AppendParts ==
    ASSUME NEW p \in ItemPath, NEW k \in Keys
    PROVE  /\ Append(p, k) \in ItemPath /\ Append(p, k) # <<>>
           /\ Len(Append(p, k)) = Len(p) + 1 /\ Len(p) \in Nat
           /\ Append(p, k)[Len(p) + 1] = k
           /\ \A n \in 1..Len(p) : Append(p, k)[n] = p[n]
           /\ Front(Append(p, k)) = p
  BY AppendFacts DEF ItemPath

LEMMA FrontAndLast ==
    ASSUME NEW q \in ItemPath, q # <<>>
    PROVE  /\ Front(q) \in ItemPath /\ q[Len(q)] \in Keys
           /\ q = Append(Front(q), q[Len(q)])
           /\ Len(q) \in Nat \ {0} /\ Len(Front(q)) = Len(q) - 1
  BY FrontFacts DEF ItemPath

LEMMA SamePath ==
    ASSUME NEW p \in ItemPath, NEW q \in ItemPath, Len(p) = Len(q), \A n \in 1..Len(p) : p[n] = q[n]
    PROVE  p = q
  BY SeqEqual DEF ItemPath

LEMMA PrefixPointwise ==
    ASSUME NEW p \in ItemPath, NEW q \in ItemPath
    PROVE  IsPrefix(p, q) <=> Len(p) <= Len(q) /\ \A n \in 1..Len(p) : p[n] = q[n]
  <1>1. SubSeq(p, 1, Len(p)) = p
    BY DEF ItemPath
  <1>2. ASSUME Len(p) <= Len(q)
        PROVE  p = SubSeq(q, 1, Len(p)) <=> \A n \in 1..Len(p) : p[n] = q[n]
    <2>1. /\ SubSeq(q, 1, Len(p)) \in ItemPath /\ Len(SubSeq(q, 1, Len(p))) = Len(p)
          /\ \A n \in 1..Len(p) : SubSeq(q, 1, Len(p))[n] = q[n]
      BY <1>2 DEF ItemPath
    <2> QED
      BY <2>1, SamePath
  <1> QED
    BY <1>1, <1>2 DEF IsPrefix

LEMMA EmptyPath == <<>> \in ItemPath
  BY EmptySeq DEF ItemPath

LEMMA PrefixFacts ==
    /\ \A p \in ItemPath : IsPrefix(p, p) /\ IsPrefix(<<>>, p) /\ <<>> \in ItemPath
    /\ \A p, q, r \in ItemPath : IsPrefix(p, q) /\ IsPrefix(q, r) => IsPrefix(p, r)
    /\ \A p, q \in ItemPath : IsPrefix(p, q) /\ IsPrefix(q, p) => p = q
    /\ \A p, q \in ItemPath : \A k \in Keys :
          IsPrefix(p, Append(q, k)) <=> IsPrefix(p, q) \/ p = Append(q, k)
  <1>1. \A p \in ItemPath : Len(p) \in Nat
    BY DEF ItemPath
  <1>2. <<>> \in ItemPath /\ Len(<<>>) = 0
    BY DEF ItemPath
  <1>3. ASSUME NEW p \in ItemPath, NEW q \in ItemPath, IsPrefix(p, q), IsPrefix(q, p)
        PROVE  p = q
    <2>1. Len(p) = Len(q) /\ \A n \in 1..Len(p) : p[n] = q[n]
      BY <1>1, <1>3, PrefixPointwise
    <2> QED
      BY <2>1, SamePath
  <1>4. ASSUME NEW p \in ItemPath, NEW q \in ItemPath, NEW r \in ItemPath, IsPrefix(p, q), IsPrefix(q, r)
        PROVE  IsPrefix(p, r)
    BY <1>1, <1>4, PrefixPointwise
  <1>5. ASSUME NEW p \in ItemPath, NEW q \in ItemPath, NEW k \in Keys
        PROVE  IsPrefix(p, Append(q, k)) <=> IsPrefix(p, q) \/ p = Append(q, k)
    <2> DEFINE a == Append(q, k)
    <2>1. /\ a \in ItemPath /\ Len(a) = Len(q) + 1 /\ Len(p) \in Nat /\ Len(q) \in Nat
          /\ \A n \in 1..Len(q) : a[n] = q[n]
      BY <1>1, AppendParts
    <2> HIDE DEF a
    <2>2. IsPrefix(p, q) => IsPrefix(p, a)
      BY <2>1, PrefixPointwise
    <2>3. p = a => IsPrefix(p, a)
      BY <2>1, PrefixPointwise
    <2>4. IsPrefix(p, a) /\ Len(p) <= Len(q) => IsPrefix(p, q)
      BY <2>1, PrefixPointwise
    <2>5. IsPrefix(p, a) /\ ~(Len(p) <= Len(q)) => p = a
      <3>1. IsPrefix(p, a) /\ ~(Len(p) <= Len(q)) => Len(p) = Len(a) /\ \A n \in 1..Len(p) : p[n] = a[n]
        BY <2>1, PrefixPointwise
      <3> QED
        BY <3>1, <2>1, SamePath
    <2> QED
      BY <2>2, <2>3, <2>4, <2>5 DEF a
  <1>6. ASSUME NEW p \in ItemPath
        PROVE  IsPrefix(p, p) /\ IsPrefix(<<>>, p)
    BY <1>1, <1>2, PrefixPointwise
  <1>7. \A p, q, r \in ItemPath : IsPrefix(p, q) /\ IsPrefix(q, r) => IsPrefix(p, r)
    BY <1>4
  <1>8. \A p, q \in ItemPath : IsPrefix(p, q) /\ IsPrefix(q, p) => p = q
    BY <1>3
  <1>9. \A p, q \in ItemPath : \A k \in Keys :
           IsPrefix(p, Append(q, k)) <=> IsPrefix(p, q) \/ p = Append(q, k)
    BY <1>5
  <1>10. \A p \in ItemPath : IsPrefix(p, p) /\ IsPrefix(<<>>, p) /\ <<>> \in ItemPath
    BY <1>2, <1>6
  <1> QED
    BY <1>7, <1>8, <1>9, <1>10

LEMMA OnlyEmptyBeginsEmpty ==
    ASSUME NEW p \in ItemPath, IsPrefix(p, <<>>)
    PROVE  p = <<>>
  BY PrefixFacts

LEMMA PrefixOfFront ==
    ASSUME NEW p \in ItemPath, NEW q \in ItemPath, q # <<>>
    PROVE  IsPrefix(p, q) <=> IsPrefix(p, Front(q)) \/ p = q
  <1>1. \A f \in ItemPath : \A k \in Keys : IsPrefix(p, Append(f, k)) <=> IsPrefix(p, f) \/ p = Append(f, k)
    BY PrefixFacts
  <1>2. Front(q) \in ItemPath /\ q[Len(q)] \in Keys /\ q = Append(Front(q), q[Len(q)])
    BY FrontAndLast
  <1>3. IsPrefix(p, Append(Front(q), q[Len(q)])) <=> IsPrefix(p, Front(q)) \/ p = Append(Front(q), q[Len(q)])
    BY <1>1, <1>2
  <1> QED
    BY <1>2, <1>3

(* Every key lies in a map.                                                *)
IsItem(m) ==
    /\ DOMAIN m \subseteq ItemPath
    /\ IsObject(m, <<>>)
    /\ \A q \in DOMAIN m : q # <<>> => IsObject(m, Front(q))

LEMMA WayThere ==
    ASSUME NEW m, IsItem(m)
    PROVE  \A q \in ItemPath : q \in DOMAIN m =>
              \A p \in ItemPath : IsPrefix(p, q) => p \in DOMAIN m /\ (p # q => IsObject(m, p))
  <1> DEFINE Good == {q \in ItemPath : q \in DOMAIN m =>
                        \A p \in ItemPath : IsPrefix(p, q) => p \in DOMAIN m /\ (p # q => IsObject(m, p))}
  <1>1. <<>> \in Good
    <2>1. <<>> \in ItemPath
      BY EmptyPath
    <2>2. ASSUME NEW p \in ItemPath, IsPrefix(p, <<>>), <<>> \in DOMAIN m
          PROVE  p \in DOMAIN m /\ (p # <<>> => IsObject(m, p))
      <3>1. p = <<>>
        BY <2>2, OnlyEmptyBeginsEmpty
      <3> QED
        BY <2>2, <3>1
    <2> QED
      BY <2>1, <2>2
  <1>2. ASSUME NEW q \in Seq(Keys), q \in Good, NEW k \in Keys
        PROVE  Append(q, k) \in Good
    <2>0. q \in ItemPath
      BY DEF ItemPath
    <2>1. Append(q, k) \in ItemPath /\ Append(q, k) # <<>> /\ Front(Append(q, k)) = q
      BY <2>0, AppendParts
    <2>2. Append(q, k) \in DOMAIN m => IsObject(m, q)
      BY <2>1 DEF IsItem
    <2>3. IsObject(m, q) => q \in DOMAIN m
      BY DEF IsObject
    <2>4. ASSUME NEW p \in ItemPath, IsPrefix(p, Append(q, k)), Append(q, k) \in DOMAIN m
          PROVE  p \in DOMAIN m /\ (p # Append(q, k) => IsObject(m, p))
      <3>1. IsPrefix(p, q) \/ p = Append(q, k)
        BY <2>0, <2>4, PrefixFacts
      <3> QED
        BY <3>1, <2>2, <2>3, <2>4, <1>2
    <2> QED
      BY <2>1, <2>4
  <1> HIDE DEF Good
  <1>3. \A q \in Seq(Keys) : q \in Good
    BY <1>1, <1>2, InductionOnSeqs
  <1> QED
    BY <1>3 DEF Good, ItemPath

LEMMA PutItem ==
    ASSUME NEW m, IsItem(m), NEW p \in ItemPath, p # <<>>, IsObject(m, Front(p)), NEW v
    PROVE  /\ IsItem(Put(m, p, v))
           /\ DOMAIN Put(m, p, v) = (DOMAIN m \ Under(m, p)) \cup {p}
           /\ Put(m, p, v)[p] = v
           /\ \A q \in DOMAIN m : ~IsPrefix(p, q) => Put(m, p, v)[q] = m[q]
           /\ \A q \in DOMAIN Put(m, p, v) : q # p => q \in DOMAIN m /\ ~IsPrefix(p, q) /\ Put(m, p, v)[q] = m[q]
  <1>1. /\ DOMAIN Put(m, p, v) = (DOMAIN m \ Under(m, p)) \cup {p}
        /\ Put(m, p, v)[p] = v
        /\ \A q \in DOMAIN Put(m, p, v) : q # p => q \in DOMAIN m /\ ~IsPrefix(p, q) /\ Put(m, p, v)[q] = m[q]
    BY DEF Put, Under
  <1>2. \A q \in DOMAIN m : ~IsPrefix(p, q) => Put(m, p, v)[q] = m[q]
    <2>1. IsPrefix(p, p)
      BY PrefixFacts
    <2> QED
      BY <2>1 DEF Put, Under
  <1>3. Front(p) \in ItemPath /\ p = Append(Front(p), p[Len(p)]) /\ p[Len(p)] \in Keys
    BY FrontAndLast
  <1>4. ~IsPrefix(p, Front(p)) /\ ~IsPrefix(p, <<>>)
    <2>1. Len(Front(p)) = Len(p) - 1 /\ Len(p) \in Nat \ {0} /\ Len(<<>>) = 0
      BY FrontAndLast
    <2>2. <<>> \in ItemPath /\ Front(p) \in ItemPath
      BY PrefixFacts, FrontAndLast
    <2> QED
      BY <2>1, <2>2, PrefixPointwise
  <1>5. IsObject(Put(m, p, v), <<>>)
    BY <1>1, <1>2, <1>4 DEF IsItem, IsObject, Under
  <1>6. ASSUME NEW q \in DOMAIN Put(m, p, v), q # <<>>
        PROVE  IsObject(Put(m, p, v), Front(q))
    <2>1. CASE q = p
      BY <2>1, <1>1, <1>2, <1>4 DEF IsObject, Under
    <2>2. CASE q # p
      <3>1. q \in DOMAIN m /\ ~IsPrefix(p, q) /\ q \in ItemPath
        BY <2>2, <1>1 DEF IsItem
      <3>2. IsObject(m, Front(q))
        BY <3>1, <1>6 DEF IsItem
      <3>3. ~IsPrefix(p, Front(q))
        <4>1. q = Append(Front(q), q[Len(q)]) /\ Front(q) \in ItemPath /\ q[Len(q)] \in Keys
          BY <3>1, <1>6, FrontAndLast
        <4>2. \A f \in ItemPath : \A k \in Keys : IsPrefix(p, f) => IsPrefix(p, Append(f, k))
          BY PrefixFacts
        <4>3. IsPrefix(p, Front(q)) => IsPrefix(p, Append(Front(q), q[Len(q)]))
          BY <4>1, <4>2
        <4> QED
          BY <3>1, <4>1, <4>3
      <3> QED
        BY <3>2, <3>3, <1>1, <1>2 DEF IsObject, Under
    <2> QED
      BY <2>1, <2>2
  <1> QED
    BY <1>1, <1>2, <1>5, <1>6 DEF IsItem
(* One key of a path is another. *)
Relabel(q, n, key) == [q EXCEPT ![n] = key]

LEMMA RelabelAny ==
    ASSUME NEW S, NEW s \in Seq(S), NEW i \in 1..Len(s), NEW e \in S
    PROVE  /\ Relabel(s, i, e) \in Seq(S) /\ Len(Relabel(s, i, e)) = Len(s)
           /\ Relabel(s, i, e)[i] = e
           /\ \A j \in 1..Len(s) : j # i => Relabel(s, i, e)[j] = s[j]
  BY ExceptSeq DEF Relabel

LEMMA RelabelFacts ==
    ASSUME NEW q \in ItemPath, NEW n \in 1..Len(q), NEW key \in Keys
    PROVE  /\ Relabel(q, n, key) \in ItemPath
           /\ Len(Relabel(q, n, key)) = Len(q)
           /\ Relabel(q, n, key)[n] = key
           /\ \A j \in 1..Len(q) : j # n => Relabel(q, n, key)[j] = q[j]
  <1>1. PICK S : S = Keys
    OBVIOUS
  <1>2. q \in Seq(S) /\ key \in S
    BY <1>1 DEF ItemPath
  <1>3. /\ Relabel(q, n, key) \in Seq(S)
        /\ Len(Relabel(q, n, key)) = Len(q)
        /\ Relabel(q, n, key)[n] = key
        /\ \A j \in 1..Len(q) : j # n => Relabel(q, n, key)[j] = q[j]
    <2>1. \A s \in Seq(S) : \A i \in 1..Len(s) : \A e \in S :
             /\ Relabel(s, i, e) \in Seq(S) /\ Len(Relabel(s, i, e)) = Len(s)
             /\ Relabel(s, i, e)[i] = e
             /\ \A j \in 1..Len(s) : j # i => Relabel(s, i, e)[j] = s[j]
      BY RelabelAny
    <2> QED
      BY <1>2, <2>1
  <1> QED
    BY <1>1, <1>3 DEF ItemPath

LEMMA FrontKeys ==
    ASSUME NEW p \in ItemPath, p # <<>>
    PROVE  /\ Len(p) \in Nat \ {0} /\ Front(p) \in ItemPath /\ Len(Front(p)) = Len(p) - 1
           /\ \A j \in 1..(Len(p) - 1) : Front(p)[j] = p[j]
  <1>1. /\ Front(p) \in ItemPath /\ p[Len(p)] \in Keys /\ p = Append(Front(p), p[Len(p)])
        /\ Len(p) \in Nat \ {0} /\ Len(Front(p)) = Len(p) - 1
    BY FrontAndLast
  <1>2. \A f \in ItemPath : \A k \in Keys : \A j \in 1..Len(f) : Append(f, k)[j] = f[j]
    BY AppendParts
  <1>3. \A j \in 1..Len(Front(p)) : Append(Front(p), p[Len(p)])[j] = Front(p)[j]
    BY <1>1, <1>2
  <1> QED
    BY <1>1, <1>3

LEMMA Relabelled ==
    ASSUME NEW p \in ItemPath, p # <<>>, NEW key \in Keys,
           NEW q \in ItemPath, IsPrefix(p, q)
    PROVE  /\ Relabel(q, Len(p), key) \in ItemPath
           /\ Relabel(q, Len(p), key) # <<>>
           /\ Len(Relabel(q, Len(p), key)) = Len(q)
           /\ IsPrefix(Append(Front(p), key), Relabel(q, Len(p), key))
           /\ q = p => Relabel(q, Len(p), key) = Append(Front(p), key)
           /\ Relabel(q, Len(p), key) = Append(Front(p), key) => q = p
  <1> DEFINE n == Len(p)
             r == Relabel(q, n, key)
             t == Append(Front(p), key)
  <1>1. /\ n \in Nat \ {0} /\ Len(q) \in Nat /\ n <= Len(q) /\ n \in 1..Len(q)
        /\ \A j \in 1..n : p[j] = q[j]
        /\ p[n] \in Keys
    <2>1. n \in Nat \ {0} /\ p[n] \in Keys
      BY FrontAndLast
    <2>2. Len(q) \in Nat
      BY LenProperties DEF ItemPath
    <2>3. n <= Len(q) /\ \A j \in 1..n : p[j] = q[j]
      BY PrefixPointwise
    <2> QED
      BY <2>1, <2>2, <2>3
  <1>2. r \in ItemPath /\ Len(r) = Len(q) /\ r[n] = key /\ \A j \in 1..Len(q) : j # n => r[j] = q[j]
    BY <1>1, RelabelFacts
  <1>3. /\ t \in ItemPath /\ Len(t) = n /\ t[n] = key
        /\ \A j \in 1..(n - 1) : t[j] = p[j]
    <2>1. Front(p) \in ItemPath /\ Len(Front(p)) = n - 1 /\ \A j \in 1..(n - 1) : Front(p)[j] = p[j]
      BY FrontKeys
    <2>2. t \in ItemPath /\ Len(t) = Len(Front(p)) + 1 /\ t[Len(Front(p)) + 1] = key
          /\ \A j \in 1..Len(Front(p)) : t[j] = Front(p)[j]
      BY <2>1, AppendParts
    <2>3. Len(Front(p)) + 1 = n
      BY <1>1, <2>1
    <2> HIDE DEF t, n
    <2> QED
      BY <1>1, <2>1, <2>2, <2>3
  <1> DEFINE l == Len(q)
  <1>11. Len(r) = l /\ Len(t) = n /\ Len(q) = l /\ Len(p) = n /\ l \in Nat /\ n \in 1..l /\ n \in Nat
    BY <1>1, <1>2, <1>3
  <1>12. /\ r[n] = key /\ \A j \in 1..l : j # n => r[j] = q[j]
         /\ \A j \in 1..n : p[j] = q[j]
    BY <1>1, <1>2
  <1> HIDE DEF r, n, t, l
  <1>6. IsPrefix(t, r)
    <2>1. \A j \in 1..n : t[j] = r[j]
      <3> SUFFICES ASSUME NEW j \in 1..n PROVE t[j] = r[j]
        OBVIOUS
      <3>1. j \in 1..l /\ (j = n \/ j \in 1..(n - 1))
        BY <1>11
      <3> QED
        BY <1>3, <1>12, <3>1
    <2>2. Len(t) <= Len(r) /\ \A j \in 1..Len(t) : t[j] = r[j]
      BY <1>11, <2>1
    <2> QED
      BY <1>2, <1>3, <2>2, PrefixPointwise
  <1>7. q = p => r = t
    <2> SUFFICES ASSUME q = p PROVE r = t
      OBVIOUS
    <2>1. l = n
      BY <1>11
    <2>2. \A j \in 1..n : t[j] = r[j]
      <3>1. \A j \in 1..Len(t) : t[j] = r[j]
        BY <1>2, <1>3, <1>6, PrefixPointwise
      <3> QED
        BY <1>11, <3>1
    <2>3. Len(r) = Len(t) /\ \A j \in 1..Len(r) : r[j] = t[j]
      BY <1>11, <2>1, <2>2
    <2> QED
      BY <1>2, <1>3, <2>3, SamePath
  <1>8. r # <<>>
    <2>1. Len(<<>>) = 0
      OBVIOUS
    <2> QED
      BY <1>1, <1>2, <2>1
  <1>10. r = t => q = p
    <2>1. r = t => Len(q) = n
      BY <1>2, <1>3
    <2>2. Len(q) = n => Len(p) = Len(q) /\ \A j \in 1..Len(p) : p[j] = q[j]
      BY <1>1 DEF n
    <2> QED
      BY <2>1, <2>2, SamePath
  <1> QED
    BY <1>2, <1>6, <1>7, <1>8, <1>10 DEF r, n, t

LEMMA RelabelBack ==
    ASSUME NEW p \in ItemPath, p # <<>>, NEW key \in Keys,
           NEW q \in ItemPath, IsPrefix(p, q)
    PROVE  Relabel(Relabel(q, Len(p), key), Len(p), p[Len(p)]) = q
  <1> DEFINE n == Len(p)
             l == Len(q)
             r == Relabel(q, n, key)
             b == Relabel(r, n, p[n])
  <1>1. /\ n \in Nat \ {0} /\ Len(q) \in Nat /\ n <= Len(q) /\ n \in 1..Len(q)
        /\ \A j \in 1..n : p[j] = q[j]
        /\ p[n] \in Keys
    <2>1. n \in Nat \ {0} /\ p[n] \in Keys
      BY FrontAndLast
    <2>2. Len(q) \in Nat
      BY LenProperties DEF ItemPath
    <2>3. n <= Len(q) /\ \A j \in 1..n : p[j] = q[j]
      BY PrefixPointwise
    <2> QED
      BY <2>1, <2>2, <2>3
  <1>2. r \in ItemPath /\ Len(r) = Len(q) /\ r[n] = key /\ \A j \in 1..Len(q) : j # n => r[j] = q[j]
    BY <1>1, RelabelFacts
  <1>11. Len(r) = l /\ Len(q) = l /\ Len(p) = n /\ l \in Nat /\ n \in 1..l /\ n \in Nat \ {0}
    BY <1>1, <1>2
  <1>12. /\ r[n] = key /\ \A j \in 1..l : j # n => r[j] = q[j]
         /\ \A j \in 1..n : p[j] = q[j]
    BY <1>1, <1>2
  <1> HIDE DEF r, n, l
  <1>4. b \in ItemPath /\ Len(b) = l /\ b[n] = p[n] /\ \A j \in 1..l : j # n => b[j] = r[j]
    <2>1. n \in 1..Len(r)
      BY <1>11
    <2>2. b \in ItemPath /\ Len(b) = Len(r) /\ b[n] = p[n] /\ \A j \in 1..Len(r) : j # n => b[j] = r[j]
      BY <1>1, <1>2, <2>1, RelabelFacts
    <2> QED
      BY <1>11, <2>2
  <1> HIDE DEF b
  <1>5. b = q
    <2>1. \A j \in 1..l : b[j] = q[j]
      <3> SUFFICES ASSUME NEW j \in 1..l PROVE b[j] = q[j]
        OBVIOUS
      <3>1. n \in 1..n
        BY <1>11
      <3>2. CASE j = n
        BY <1>4, <1>12, <3>1, <3>2
      <3>3. CASE j # n
        BY <1>4, <1>12, <3>3
      <3> QED
        BY <3>2, <3>3
    <2>2. Len(b) = Len(q) /\ \A j \in 1..Len(b) : b[j] = q[j]
      BY <1>4, <1>11, <2>1
    <2> QED
      BY <1>4, <2>2, SamePath
  <1> QED
    BY <1>5 DEF b, r, n

LEMMA RelabelLonger ==
    ASSUME NEW p \in ItemPath, p # <<>>, NEW key \in Keys,
           NEW q \in ItemPath, IsPrefix(p, q), NEW k \in Keys
    PROVE  Relabel(Append(q, k), Len(p), key) = Append(Relabel(q, Len(p), key), k)
  <1> DEFINE n == Len(p)
             l == Len(q)
             r == Relabel(q, n, key)
  <1>1. /\ n \in Nat \ {0} /\ Len(q) \in Nat /\ n <= Len(q) /\ n \in 1..Len(q)
        /\ \A j \in 1..n : p[j] = q[j]
        /\ p[n] \in Keys
    <2>1. n \in Nat \ {0} /\ p[n] \in Keys
      BY FrontAndLast
    <2>2. Len(q) \in Nat
      BY LenProperties DEF ItemPath
    <2>3. n <= Len(q) /\ \A j \in 1..n : p[j] = q[j]
      BY PrefixPointwise
    <2> QED
      BY <2>1, <2>2, <2>3
  <1>2. r \in ItemPath /\ Len(r) = Len(q) /\ r[n] = key /\ \A j \in 1..Len(q) : j # n => r[j] = q[j]
    BY <1>1, RelabelFacts
  <1>11. Len(r) = l /\ Len(q) = l /\ Len(p) = n /\ l \in Nat /\ n \in 1..l /\ n \in Nat \ {0}
    BY <1>1, <1>2
  <1> HIDE DEF r, n, l
  <1> DEFINE a == Append(q, k)
             c == Append(r, k)
             d == Relabel(a, n, key)
  <1>21. a \in ItemPath /\ Len(a) = Len(q) + 1 /\ a[Len(q) + 1] = k /\ \A j \in 1..Len(q) : a[j] = q[j]
    BY AppendParts
  <1>22. c \in ItemPath /\ Len(c) = Len(r) + 1 /\ c[Len(r) + 1] = k /\ \A j \in 1..Len(r) : c[j] = r[j]
    BY <1>2, AppendParts
  <1> HIDE DEF a, c
  <1>23. d \in ItemPath /\ Len(d) = Len(q) + 1
        /\ d[n] = key /\ \A j \in 1..(Len(q) + 1) : j # n => d[j] = a[j]
    <2>1. n \in 1..Len(a)
      BY <1>1, <1>21
    <2>2. d \in ItemPath /\ Len(d) = Len(a) /\ d[n] = key /\ \A j \in 1..Len(a) : j # n => d[j] = a[j]
      BY <1>21, <2>1, RelabelFacts
    <2> QED
      BY <1>21, <2>2
  <1> HIDE DEF d
  <1>24. ASSUME NEW j \in 1..(Len(q) + 1)
        PROVE  d[j] = c[j]
    <2>1. CASE j = Len(q) + 1
      <3>1. j # n
        BY <1>11, <2>1
      <3> QED
        BY <1>2, <1>21, <1>22, <1>23, <2>1, <3>1
    <2>2. CASE j # Len(q) + 1
      <3>1. j \in 1..Len(q)
        BY <1>1, <2>2
      <3> QED
        BY <1>2, <1>21, <1>22, <1>23, <3>1
    <2> QED
      BY <2>1, <2>2
  <1>25. d = c
    BY <1>2, <1>22, <1>23, <1>24, SamePath
  <1> QED
    BY <1>25 DEF a, c, d, r, n

(* A map's contents go to another key. *)
LEMMA MovedItem ==
    ASSUME NEW m, IsItem(m), NEW p \in ItemPath, p # <<>>, p \in DOMAIN m, NEW key \in Keys,
           Append(Front(p), key) \notin DOMAIN m
    PROVE  LET n == Len(p)  w == Moved(m, p, key) IN
           /\ \A q \in DOMAIN m : ~IsPrefix(p, q) => q \in DOMAIN w /\ w[q] = m[q]
           /\ \A q \in DOMAIN m : IsPrefix(p, q) =>
                 Relabel(q, n, key) \in DOMAIN w /\ w[Relabel(q, n, key)] = m[q]
           /\ \A q \in DOMAIN w : \/ q \in DOMAIN m /\ ~IsPrefix(p, q)
                                  \/ \E r \in DOMAIN m : IsPrefix(p, r) /\ q = Relabel(r, n, key)
           /\ IsItem(w)
  <1> DEFINE n == Len(p)
             w == Moved(m, p, key)
             t == Append(Front(p), key)
             moved == {Relabel(q, n, key) : q \in Under(m, p)}
  <1>0. \A q \in DOMAIN m : q \in ItemPath
    BY DEF IsItem
  <1>1. /\ DOMAIN w = (DOMAIN m \ Under(m, p)) \cup moved
        /\ \A q \in moved : w[q] = m[Relabel(q, n, p[n])]
        /\ \A q \in DOMAIN w : q \notin moved => w[q] = m[q]
    BY DEF Moved, Relabel
  <1>2. Front(p) \in ItemPath /\ t \in ItemPath /\ t # <<>> /\ Front(t) = Front(p)
    BY FrontAndLast, AppendParts
  <1> HIDE DEF w, t
  <1>3. \A q \in Under(m, p) :
           /\ q \in DOMAIN m /\ IsPrefix(p, q) /\ q \in ItemPath
           /\ Relabel(q, n, key) \in ItemPath /\ Relabel(q, n, key) # <<>>
           /\ Relabel(Relabel(q, n, key), n, p[n]) = q
           /\ IsPrefix(t, Relabel(q, n, key))
           /\ q = p => Relabel(q, n, key) = t
           /\ Relabel(q, n, key) = t => q = p
           /\ \A k \in Keys : Relabel(Append(q, k), n, key) = Append(Relabel(q, n, key), k)
    <2> SUFFICES ASSUME NEW q \in Under(m, p)
                 PROVE  /\ q \in DOMAIN m /\ IsPrefix(p, q) /\ q \in ItemPath
                        /\ Relabel(q, n, key) \in ItemPath /\ Relabel(q, n, key) # <<>>
                        /\ Relabel(Relabel(q, n, key), n, p[n]) = q
                        /\ IsPrefix(t, Relabel(q, n, key))
                        /\ q = p => Relabel(q, n, key) = t
                        /\ Relabel(q, n, key) = t => q = p
                        /\ \A k \in Keys : Relabel(Append(q, k), n, key) = Append(Relabel(q, n, key), k)
      OBVIOUS
    <2>1. q \in DOMAIN m /\ IsPrefix(p, q) /\ q \in ItemPath
      BY <1>0 DEF Under
    <2>2. /\ Relabel(q, n, key) \in ItemPath /\ Relabel(q, n, key) # <<>>
          /\ IsPrefix(Append(Front(p), key), Relabel(q, n, key))
      BY <2>1, Relabelled
    <2>6. Relabel(Relabel(q, n, key), n, p[n]) = q
      BY <2>1, RelabelBack
    <2>4. /\ q = p => Relabel(q, n, key) = Append(Front(p), key)
          /\ Relabel(q, n, key) = Append(Front(p), key) => q = p
      BY <2>1, Relabelled
    <2>5. \A k \in Keys : Relabel(Append(q, k), n, key) = Append(Relabel(q, n, key), k)
      BY <2>1, RelabelLonger
    <2>3. t = Append(Front(p), key)
      BY DEF t
    <2> QED
      BY <2>1, <2>2, <2>3, <2>4, <2>5, <2>6
  <1>4. \A q \in DOMAIN m : q \notin moved
    <2>1. \A q \in DOMAIN m : ~IsPrefix(t, q)
      BY <1>0, <1>2, WayThere DEF t
    <2> SUFFICES ASSUME NEW q \in DOMAIN m, q \in moved PROVE FALSE
      OBVIOUS
    <2>2. PICK x \in Under(m, p) : q = Relabel(x, n, key)
      OBVIOUS
    <2>3. IsPrefix(t, Relabel(x, n, key))
      BY <1>3
    <2> QED
      BY <2>1, <2>2, <2>3
  <1>5. \A q \in DOMAIN m : ~IsPrefix(p, q) => q \in DOMAIN w /\ w[q] = m[q]
    BY <1>1, <1>4 DEF Under
  <1>6. \A q \in DOMAIN m : IsPrefix(p, q) =>
           Relabel(q, n, key) \in DOMAIN w /\ w[Relabel(q, n, key)] = m[q]
    BY <1>1, <1>3 DEF Under
  <1>7. \A q \in DOMAIN w : \/ q \in DOMAIN m /\ ~IsPrefix(p, q)
                            \/ \E r \in DOMAIN m : IsPrefix(p, r) /\ q = Relabel(r, n, key)
    BY <1>1 DEF Under
  <1>8. IsItem(w)
    <2>1. DOMAIN w \subseteq ItemPath
      <3> SUFFICES ASSUME NEW q \in DOMAIN w, q \in moved PROVE q \in ItemPath
        BY <1>0, <1>1
      <3>1. PICK x \in Under(m, p) : q = Relabel(x, n, key)
        OBVIOUS
      <3>2. Relabel(x, n, key) \in ItemPath
        BY <1>3
      <3> QED
        BY <3>1, <3>2
    <2>2. ~IsPrefix(p, <<>>) /\ ~IsPrefix(p, Front(p))
      <3>1. ~IsPrefix(p, <<>>)
        BY OnlyEmptyBeginsEmpty
      <3>2. Len(Front(p)) < Len(p)
        BY FrontKeys
      <3>3. Len(Front(p)) \in Nat /\ Len(p) \in Nat
        BY <1>2, LenProperties DEF ItemPath
      <3>4. IsPrefix(p, Front(p)) => Len(p) <= Len(Front(p))
        BY <1>2, PrefixPointwise
      <3> QED
        BY <3>1, <3>2, <3>3, <3>4
    <2>3. IsObject(w, <<>>)
      BY <1>5, <2>2 DEF IsItem, IsObject
    <2>4. IsObject(w, Front(p))
      <3>1. IsObject(m, Front(p))
        BY DEF IsItem
      <3> QED
        BY <1>5, <2>2, <3>1 DEF IsObject
    <2>5. ASSUME NEW q \in DOMAIN m, ~IsPrefix(p, q), q # <<>>
          PROVE  IsObject(w, Front(q))
      <3>1. IsObject(m, Front(q))
        BY <2>5 DEF IsItem
      <3>2. q \in ItemPath /\ Front(q) \in ItemPath /\ q[Len(q)] \in Keys /\ q = Append(Front(q), q[Len(q)])
        BY <1>0, <2>5, FrontAndLast
      <3>3. ~IsPrefix(p, Front(q))
        <4>1. IsPrefix(p, Front(q)) => IsPrefix(p, Append(Front(q), q[Len(q)]))
          BY <3>2, PrefixFacts
        <4> QED
          BY <2>5, <3>2, <4>1
      <3> QED
        BY <1>5, <3>1, <3>3 DEF IsObject
    <2>6. ASSUME NEW r \in DOMAIN m, IsPrefix(p, r)
          PROVE  IsObject(w, Front(Relabel(r, n, key)))
      <3>0. r \in ItemPath /\ r \in Under(m, p) /\ r # <<>>
        BY <1>0, <2>2, <2>6 DEF Under
      <3>1. CASE r = p
        BY <1>2, <1>3, <2>4, <3>0, <3>1
      <3>2. CASE r # p
        <4>1. /\ Front(r) \in ItemPath /\ r[Len(r)] \in Keys /\ r = Append(Front(r), r[Len(r)])
              /\ IsObject(m, Front(r))
          BY <3>0, FrontAndLast DEF IsItem
        <4>2. IsPrefix(p, Front(r))
          BY <2>6, <3>0, <3>2, PrefixOfFront
        <4>3. Front(r) \in Under(m, p)
          BY <4>1, <4>2 DEF Under, IsObject
        <4>4. Relabel(r, n, key) = Append(Relabel(Front(r), n, key), r[Len(r)])
          BY <1>3, <4>1, <4>3
        <4>5. Front(Relabel(r, n, key)) = Relabel(Front(r), n, key)
          <5>1. Relabel(Front(r), n, key) \in ItemPath
            BY <1>3, <4>3
          <5>2. \A a \in ItemPath : \A k \in Keys : Front(Append(a, k)) = a
            BY AppendParts
          <5> QED
            BY <4>1, <4>4, <5>1, <5>2
        <4> QED
          BY <1>6, <4>1, <4>2, <4>5 DEF IsObject
      <3> QED
        BY <3>1, <3>2
    <2> QED
      BY <1>7, <2>1, <2>3, <2>5, <2>6 DEF IsItem
  <1> QED
    BY <1>5, <1>6, <1>7, <1>8 DEF w

(* Less is left, and all that leads to it. *)
LEMMA RestrictItem ==
    ASSUME NEW m, IsItem(m), NEW paths, paths \subseteq ItemPath \ {<<>>}
    PROVE  LET w == Restrict(m, DOMAIN m \ UNION {Under(m, p) : p \in paths}) IN
           /\ DOMAIN w = {q \in DOMAIN m : \A p \in paths : ~IsPrefix(p, q)}
           /\ \A q \in DOMAIN w : w[q] = m[q]
           /\ IsItem(w)
  <1> DEFINE w == Restrict(m, DOMAIN m \ UNION {Under(m, p) : p \in paths})
  <1>1. DOMAIN w = {q \in DOMAIN m : \A p \in paths : ~IsPrefix(p, q)}
    BY DEF Restrict, Under
  <1>2. \A q \in DOMAIN w : w[q] = m[q]
    BY DEF Restrict
  <1> HIDE DEF w
  <1>3. DOMAIN w \subseteq ItemPath
    BY <1>1 DEF IsItem
  <1>4. IsObject(w, <<>>)
    <2>1. \A p \in paths : ~IsPrefix(p, <<>>)
      BY OnlyEmptyBeginsEmpty
    <2> QED
      BY <1>1, <1>2, <2>1 DEF IsItem, IsObject
  <1>5. ASSUME NEW q \in DOMAIN w, q # <<>>
        PROVE  IsObject(w, Front(q))
    <2>1. q \in DOMAIN m /\ q \in ItemPath /\ IsObject(m, Front(q))
      BY <1>1, <1>3, <1>5 DEF IsItem
    <2>2. Front(q) \in ItemPath /\ q[Len(q)] \in Keys /\ q = Append(Front(q), q[Len(q)])
      BY <1>5, <2>1, FrontAndLast
    <2>3. ASSUME NEW p \in paths
          PROVE  ~IsPrefix(p, Front(q))
      <3>1. p \in ItemPath /\ ~IsPrefix(p, q)
        BY <1>1
      <3>2. IsPrefix(p, Front(q)) => IsPrefix(p, Append(Front(q), q[Len(q)]))
        BY <2>2, <3>1, PrefixFacts
      <3> QED
        BY <2>2, <3>1, <3>2
    <2> QED
      BY <1>1, <1>2, <2>1, <2>3 DEF IsObject
  <1> QED
    BY <1>1, <1>2, <1>3, <1>4, <1>5 DEF IsItem, w

LEMMA DropItem ==
    ASSUME NEW m, IsItem(m), NEW p \in ItemPath, p # <<>>
    PROVE  /\ DOMAIN Drop(m, p) = {q \in DOMAIN m : ~IsPrefix(p, q)}
           /\ \A q \in DOMAIN Drop(m, p) : Drop(m, p)[q] = m[q]
           /\ IsItem(Drop(m, p))
  <1>1. UNION {Under(m, q) : q \in {p}} = Under(m, p)
    OBVIOUS
  <1>2. Drop(m, p) = Restrict(m, DOMAIN m \ UNION {Under(m, q) : q \in {p}})
    BY <1>1 DEF Drop
  <1> DEFINE paths == {p}
  <1>3. paths \subseteq ItemPath \ {<<>>}
    OBVIOUS
  <1>4. Drop(m, p) = Restrict(m, DOMAIN m \ UNION {Under(m, q) : q \in paths})
    BY <1>2
  <1>5. \A q : (\A x \in paths : ~IsPrefix(x, q)) <=> ~IsPrefix(p, q)
    OBVIOUS
  <1> HIDE DEF paths
  <1>6. LET w == Restrict(m, DOMAIN m \ UNION {Under(m, q) : q \in paths}) IN
           /\ DOMAIN w = {q \in DOMAIN m : \A x \in paths : ~IsPrefix(x, q)}
           /\ \A q \in DOMAIN w : w[q] = m[q]
           /\ IsItem(w)
    BY <1>3, RestrictItem
  <1> QED
    BY <1>4, <1>5, <1>6

-----------------------------------------------------------------------------
(* Fields, and the containers that lead to them.                           *)

Containers == Numbered("belongs_to")

LEMMA AppendedAlike ==
    ASSUME NEW p \in ItemPath, NEW q \in ItemPath, NEW k \in Keys, NEW l \in Keys,
           Append(p, k) = Append(q, l)
    PROVE  p = q /\ k = l
  <1>1. Front(Append(p, k)) = p /\ Front(Append(q, l)) = q
        /\ Append(p, k)[Len(p) + 1] = k /\ Append(q, l)[Len(q) + 1] = l
    BY AppendParts
  <1> DEFINE a == Append(p, k)
             b == Append(q, l)
  <1>2. Front(a) = p /\ Front(b) = q /\ a[Len(p) + 1] = k /\ b[Len(q) + 1] = l /\ a = b
    BY <1>1
  <1> HIDE DEF a, b
  <1> QED
    BY <1>2

LEMMA CaseFields ==
    ASSUME case \in Cases
    PROVE  /\ Numbers \subseteq Nat
           /\ \A i \in Numbers :
                 /\ F(i).prefix \in ItemPath /\ F(i).source \in Keys /\ F(i).alias \in Keys
                 /\ F(i).type \in {"column", "formatter", "nested_field", "belongs_to", "has_many"}
                 /\ F(i).prefix # <<>> =>
                       \E j \in Containers : i < j /\ F(i).prefix = Source(j)
                 /\ F(i).type = "nested_field" =>
                       F(i).template[1].path \in ItemPath \ {<<>>}
  <1> DEFINE fields == case.fields
  <1>1. /\ Len(fields) \in Nat /\ Numbers = 1..Len(fields)
        /\ \A i \in Numbers : LET f == fields[i] IN
              /\ f.prefix \in Seq(STRING) /\ f.source \in STRING /\ f.alias \in STRING
              /\ f.type \in {"column", "formatter", "nested_field", "belongs_to", "has_many"}
              /\ f.prefix # <<>> => \E j \in (i + 1)..Len(fields) :
                    /\ fields[j].type = "belongs_to"
                    /\ f.prefix = Append(fields[j].prefix, fields[j].source)
              /\ f.type = "nested_field" => f.template[1].path \in Seq(STRING) \ {<<>>}
    BY CasesAssumption DEF Numbers
  <1>2. ASSUME NEW i \in Numbers, fields[i].prefix # <<>>
        PROVE  \E j \in Containers : i < j /\ fields[i].prefix = Source(j)
    <2>1. PICK j \in (i + 1)..Len(fields) :
            /\ fields[j].type = "belongs_to"
            /\ fields[i].prefix = Append(fields[j].prefix, fields[j].source)
      BY <1>1, <1>2
    <2>2. j \in Numbers /\ i < j
      BY <1>1
    <2> QED
      BY <2>1, <2>2 DEF Containers, Numbered, Source, F
  <1>3. ASSUME NEW p \in Seq(STRING)
        PROVE  p \in ItemPath
    BY SeqMonotonic DEF ItemPath, Keys
  <1>4. \A k \in STRING : k \in Keys
    BY DEF Keys
  <1>5. \A i \in Numbers : F(i) = fields[i]
    BY DEF F
  <1> HIDE DEF fields
  <1>6. ASSUME NEW i \in Numbers
        PROVE  /\ F(i).prefix \in ItemPath /\ F(i).source \in Keys /\ F(i).alias \in Keys
               /\ F(i).type \in {"column", "formatter", "nested_field", "belongs_to", "has_many"}
    BY <1>1, <1>3, <1>4, <1>5
  <1>7. ASSUME NEW i \in Numbers, F(i).type = "nested_field"
        PROVE  F(i).template[1].path \in ItemPath \ {<<>>}
    BY <1>1, <1>3, <1>5, <1>7
  <1>8. Numbers \subseteq Nat
    BY <1>1
  <1>9. ASSUME NEW i \in Numbers, F(i).prefix # <<>>
        PROVE  \E j \in Containers : i < j /\ F(i).prefix = Source(j)
    BY <1>2, <1>5, <1>9
  <1> QED
    BY <1>6, <1>7, <1>8, <1>9

LEMMA FieldPaths ==
    ASSUME case \in Cases, NEW i \in Numbers
    PROVE  /\ fieldKey(F(i)) \in Keys
           /\ Source(i) \in ItemPath /\ Source(i) # <<>> /\ Front(Source(i)) = F(i).prefix
           /\ Source(i)[Len(F(i).prefix) + 1] = F(i).source
           /\ Target(i) \in ItemPath /\ Target(i) # <<>> /\ Front(Target(i)) = F(i).prefix
           /\ Target(i)[Len(F(i).prefix) + 1] = fieldKey(F(i))
           /\ ~HasOtherName(F(i)) => fieldKey(F(i)) = F(i).source /\ Target(i) = Source(i)
           /\ HasOtherName(F(i)) => fieldKey(F(i)) = F(i).alias /\ fieldKey(F(i)) # F(i).source
  <1>1. F(i).prefix \in ItemPath /\ F(i).source \in Keys /\ F(i).alias \in Keys
    BY CaseFields
  <1>2. fieldKey(F(i)) \in Keys
    BY <1>1 DEF fieldKey
  <1> QED
    BY <1>1, <1>2, AppendParts DEF Source, Target, HasOtherName, fieldKey, NoAlias

LEMMA Apart ==
    ASSUME SensibleCases, case \in Cases, NEW i \in Numbers, NEW j \in Numbers, i # j,
           F(i).prefix = F(j).prefix
    PROVE  /\ fieldKey(F(i)) # fieldKey(F(j))
           /\ F(j).type # "formatter" =>
                 fieldKey(F(i)) # F(j).source /\ (Stored(F(i)) => F(i).source # F(j).source)
  <1>1. NamesApart(case.fields)
    BY DEF SensibleCases
  <1> QED
    BY <1>1 DEF NamesApart, F, Numbers

LEMMA Kinds ==
    ASSUME SensibleCases, case \in Cases, NEW i \in Numbers
    PROVE  /\ F(i).internal => /\ Stored(F(i))
                               /\ F(i).type = "belongs_to" \/ ~HasOtherName(F(i))
                               /\ F(i).type = "belongs_to" => F(i).template = <<>>
           /\ F(i).localize => F(i).type = "column"
           /\ IsNode(F(i)) => F(i).alias # NoAlias
  BY DEF SensibleCases, KindsFit, F, Numbers

LEMMA IdOfRows ==
    ASSUME SensibleCases, case \in Cases, NEW i \in Numbers, NEW j \in Numbers,
           F(i).type = "has_many", F(i).prefix = F(j).prefix,
           F(j).source = "id" \/ fieldKey(F(j)) = "id"
    PROVE  F(j).type = "column" /\ F(j).source = "id" /\ fieldKey(F(j)) = "id"
  <1>1. IdStays(case.fields)
    BY DEF SensibleCases
  <1> QED
    BY <1>1 DEF IdStays, F, Numbers

(* A path of sources leads to one container. *)
LEMMA OneContainer ==
    ASSUME SensibleCases, case \in Cases
    PROVE  \A c, d \in Containers : Source(c) = Source(d) => c = d
  <1> SUFFICES ASSUME NEW c \in Containers, NEW d \in Containers, Source(c) = Source(d), c # d
               PROVE  FALSE
    OBVIOUS
  <1>1. c \in Numbers /\ d \in Numbers /\ Stored(F(c)) /\ F(d).type # "formatter"
    BY DEF Containers, Numbered, Stored
  <1>2. F(c).prefix = F(d).prefix /\ F(c).source = F(d).source
    BY <1>1, FieldPaths
  <1> QED
    BY <1>1, <1>2, Apart

(* The paths of sources that lead to the item or to containers. *)
Chains == {<<>>} \cup {Source(c) : c \in Containers}

LEMMA PrefixIsChain ==
    ASSUME case \in Cases, NEW i \in Numbers
    PROVE  F(i).prefix \in Chains
  BY CaseFields DEF Chains

LEMMA ChainsClosed ==
    ASSUME case \in Cases
    PROVE  \A p \in ItemPath : p \in Chains =>
              \A q \in ItemPath : IsPrefix(q, p) => q \in Chains
  <1> DEFINE Good == {p \in ItemPath : p \in Chains =>
                        \A q \in ItemPath : IsPrefix(q, p) => q \in Chains}
  <1>1. <<>> \in Good
    <2>1. \A q \in ItemPath : IsPrefix(q, <<>>) => q \in Chains
      BY OnlyEmptyBeginsEmpty DEF Chains
    <2> QED
      BY <2>1, EmptyPath
  <1>2. ASSUME NEW p \in Seq(Keys), p \in Good, NEW k \in Keys
        PROVE  Append(p, k) \in Good
    <2>1. p \in ItemPath /\ Append(p, k) \in ItemPath /\ Append(p, k) # <<>>
      BY AppendParts DEF ItemPath
    <2>2. ASSUME Append(p, k) \in Chains, NEW q \in ItemPath, IsPrefix(q, Append(p, k))
          PROVE  q \in Chains
      <3>1. PICK c \in Containers : Append(p, k) = Source(c)
        BY <2>1, <2>2 DEF Chains
      <3>2. c \in Numbers /\ F(c).prefix \in ItemPath /\ F(c).source \in Keys
        BY CaseFields DEF Containers, Numbered
      <3>3. p = F(c).prefix
        BY <2>1, <3>1, <3>2, AppendedAlike DEF Source
      <3>4. p \in Chains
        BY <3>2, <3>3, PrefixIsChain
      <3>5. IsPrefix(q, p) \/ q = Append(p, k)
        BY <2>1, <2>2, PrefixFacts
      <3> QED
        BY <1>2, <2>2, <3>4, <3>5
    <2> QED
      BY <2>1, <2>2
  <1> HIDE DEF Good
  <1>3. \A p \in Seq(Keys) : p \in Good
    BY <1>1, <1>2, InductionOnSeqs
  <1> QED
    BY <1>3 DEF Good, ItemPath

(* What is in a container comes before it. *)
LEMMA ContentsFirst ==
    ASSUME SensibleCases, case \in Cases
    PROVE  \A i \in Numbers : \A c \in Containers : IsPrefix(Source(c), F(i).prefix) => i < c
  <1> DEFINE Good == {p \in ItemPath : \A i \in Numbers : F(i).prefix = p =>
                        \A c \in Containers : IsPrefix(Source(c), p) => i < c}
  <1>0. \A c \in Containers : c \in Numbers /\ c \in Nat /\ Source(c) \in ItemPath /\ Source(c) # <<>>
    BY CaseFields, FieldPaths DEF Containers, Numbered
  <1>1. <<>> \in Good
    <2>1. \A c \in Containers : ~IsPrefix(Source(c), <<>>)
      BY <1>0, OnlyEmptyBeginsEmpty
    <2> QED
      BY <2>1, EmptyPath
  <1>2. ASSUME NEW p \in Seq(Keys), p \in Good, NEW k \in Keys
        PROVE  Append(p, k) \in Good
    <2>1. p \in ItemPath /\ Append(p, k) \in ItemPath /\ Append(p, k) # <<>>
      BY AppendParts DEF ItemPath
    <2>2. ASSUME NEW i \in Numbers, F(i).prefix = Append(p, k),
                 NEW c \in Containers, IsPrefix(Source(c), Append(p, k))
          PROVE  i < c
      <3>1. PICK j \in Containers : i < j /\ Append(p, k) = Source(j)
        BY <2>1, <2>2, CaseFields
      <3>2. i \in Nat /\ j \in Nat /\ c \in Nat
        BY <1>0, CaseFields
      <3>3. CASE Source(c) = Append(p, k)
        BY <3>1, <3>3, OneContainer
      <3>4. CASE Source(c) # Append(p, k)
        <4>1. IsPrefix(Source(c), p)
          BY <1>0, <2>1, <2>2, <3>4, PrefixFacts
        <4>2. F(j).prefix = p
          <5>1. F(j).prefix \in ItemPath /\ F(j).source \in Keys
            BY <1>0, CaseFields
          <5> QED
            BY <2>1, <3>1, <5>1, AppendedAlike DEF Source
        <4>3. j < c
          BY <1>0, <1>2, <4>1, <4>2
        <4> QED
          BY <3>1, <3>2, <4>3
      <3> QED
        BY <3>3, <3>4
    <2> QED
      BY <2>1, <2>2
  <1> HIDE DEF Good
  <1>3. \A p \in Seq(Keys) : p \in Good
    BY <1>1, <1>2, InductionOnSeqs
  <1> QED
    BY <1>3, CaseFields DEF Good, ItemPath
-----------------------------------------------------------------------------
(* The item as it is read.                                                 *)

ColumnName(i) == IF F(i).type = "has_many" THEN "id" ELSE fieldKey(F(i))

LEMMA ColumnPaths ==
    ASSUME case \in Cases, NEW i \in Numbers, ReadsColumn(i)
    PROVE  /\ ColumnPath(i) = Append(F(i).prefix, ColumnName(i))
           /\ ColumnName(i) \in Keys
           /\ ColumnPath(i) \in ItemPath /\ ColumnPath(i) # <<>> /\ Front(ColumnPath(i)) = F(i).prefix
           /\ ColumnPath(i)[Len(F(i).prefix) + 1] = ColumnName(i)
  <1>1. ColumnPath(i) = Append(F(i).prefix, ColumnName(i))
    BY DEF ColumnPath, ColumnName, Target, ReadsColumn
  <1>2. F(i).prefix \in ItemPath /\ ColumnName(i) \in Keys
    <2>1. "id" \in Keys
      BY DEF Keys
    <2>2. F(i).prefix \in ItemPath /\ fieldKey(F(i)) \in Keys
      BY CaseFields, FieldPaths
    <2> QED
      BY <2>1, <2>2 DEF ColumnName
  <1> HIDE DEF ColumnName
  <1> QED
    BY <1>1, <1>2, AppendParts

(* Fields read one column if they show one. *)
LEMMA ColumnKeys ==
    ASSUME SensibleCases, case \in Cases, NEW i \in Numbers, NEW j \in Numbers,
           ReadsColumn(i), ReadsColumn(j), F(i).prefix = F(j).prefix
    PROVE  /\ ColumnName(i) = ColumnName(j) => Reads(i) = Reads(j)
           /\ Reads(i) = Reads(j) => ColumnName(i) = ColumnName(j)
  <1>1. CASE i = j
    BY <1>1
  <1>2. CASE i # j /\ F(i).type = "column" /\ F(j).type = "column"
    BY <1>2, Apart DEF ColumnName, Reads, Stored
  <1>3. CASE F(i).type = "has_many" /\ F(j).type = "has_many"
    BY <1>3 DEF ColumnName, Reads
  <1>4. CASE F(i).type = "has_many" /\ F(j).type = "column"
    BY <1>4, IdOfRows DEF ColumnName, Reads
  <1>5. CASE F(i).type = "column" /\ F(j).type = "has_many"
    BY <1>5, IdOfRows DEF ColumnName, Reads
  <1> QED
    BY <1>1, <1>2, <1>3, <1>4, <1>5 DEF ReadsColumn

LEMMA SamePathReads ==
    ASSUME SensibleCases, case \in Cases, NEW i \in Numbers, NEW j \in Numbers,
           ReadsColumn(i), ReadsColumn(j), ColumnPath(i) = ColumnPath(j)
    PROVE  F(i).prefix = F(j).prefix /\ Reads(i) = Reads(j) /\ Value(i) = Value(j)
  <1>1. F(i).prefix = F(j).prefix /\ ColumnName(i) = ColumnName(j)
    BY ColumnPaths
  <1> QED
    BY <1>1, ColumnKeys DEF Value

(* Each column is selected once. *)
LEMMA EachSelected ==
    ASSUME SensibleCases, case \in Cases, NEW i \in Numbers, ReadsColumn(i)
    PROVE  \E j \in Selected : ColumnPath(j) = ColumnPath(i) /\ Value(j) = Value(i)
  <1> DEFINE Same == {j \in Numbers : ReadsColumn(j) /\ F(j).prefix = F(i).prefix /\ Reads(j) = Reads(i)}
             j == Min(Same)
  <1>1. Same \subseteq Nat /\ i \in Same
    BY CaseFields
  <1>2. j \in Same /\ \A k \in Same : j <= k
    BY <1>1, MinOfNats
  <1> HIDE DEF j
  <1>3. /\ j \in Numbers /\ ReadsColumn(j) /\ F(j).prefix = F(i).prefix /\ Reads(j) = Reads(i)
        /\ \A k \in Numbers : ReadsColumn(k) /\ F(k).prefix = F(i).prefix /\ Reads(k) = Reads(i) => j <= k
        /\ j \in Nat
    BY <1>1, <1>2
  <1> HIDE DEF Same
  <1>4. \A k \in 1..(j - 1) : ReadsColumn(k) /\ F(k).prefix = F(j).prefix /\ Reads(k) = Reads(j) => FALSE
    <2> SUFFICES ASSUME NEW k \in 1..(j - 1), ReadsColumn(k), F(k).prefix = F(j).prefix, Reads(k) = Reads(j)
                 PROVE  FALSE
      OBVIOUS
    <2>1. k \in Numbers /\ k \in Nat /\ ~(j <= k)
      BY <1>3, CasesAssumption DEF Numbers
    <2> QED
      BY <1>3, <2>1
  <1>5. j \in Selected
    BY <1>3, <1>4 DEF Selected
  <1>6. ColumnPath(j) = ColumnPath(i) /\ Value(j) = Value(i)
    BY <1>3, ColumnKeys, ColumnPaths DEF Value
  <1> QED
    BY <1>5, <1>6

LEMMA MaxOfNumbers ==
    ASSUME case \in Cases, NEW S, S \subseteq Numbers, S # {}
    PROVE  Max(S) \in S
  <1>1. Len(case.fields) \in Nat /\ Numbers = 1..Len(case.fields)
    BY CasesAssumption DEF Numbers
  <1> DEFINE b == Len(case.fields)
  <1>2. b \in Nat /\ S \subseteq Nat /\ \A y \in S : y <= b
    BY <1>1
  <1> HIDE DEF b
  <1> QED
    BY <1>2, MaxOfNats

(* Containers are no columns. *)
LEMMA ChainsApart ==
    ASSUME SensibleCases, case \in Cases, NEW c \in Containers, NEW i \in Numbers
    PROVE  /\ ReadsColumn(i) => ColumnPath(i) # Source(c)
           /\ F(i).type # "belongs_to" => Target(i) # Source(c)
  <1>0. c \in Numbers /\ F(c).type = "belongs_to" /\ F(c).prefix \in ItemPath
    BY CaseFields DEF Containers, Numbered
  <1>1. ASSUME F(i).type # "belongs_to", Target(i) = Source(c)
        PROVE  FALSE
    <2>1. F(i).prefix = F(c).prefix /\ fieldKey(F(i)) = F(c).source
      BY <1>0, <1>1, FieldPaths
    <2> QED
      BY <1>0, <1>1, <2>1, Apart
  <1>2. ASSUME ReadsColumn(i), ColumnPath(i) = Source(c)
        PROVE  FALSE
    <2>1. F(i).prefix = F(c).prefix /\ ColumnName(i) = F(c).source
      BY <1>0, <1>2, FieldPaths, ColumnPaths
    <2>2. CASE F(i).type = "has_many"
      BY <1>0, <2>1, <2>2, IdOfRows DEF ColumnName
    <2>3. CASE F(i).type = "column"
      BY <1>0, <2>1, <2>3, Apart DEF ColumnName
    <2> QED
      BY <1>2, <2>2, <2>3 DEF ReadsColumn
  <1> QED
    BY <1>1, <1>2

HasManyPaths == {Target(i) : i \in Numbered("has_many")}
AllColumns == {ColumnPath(i) : i \in {j \in Numbers : ReadsColumn(j)}}

(* All columns are there, and all containers are maps. *)
Filled(m) ==
    /\ IsItem(m)
    /\ \A p \in Chains : IsObject(m, p)
    /\ \A q \in DOMAIN m : q # <<>> => Front(q) \in Chains
    /\ DOMAIN m \subseteq Chains \cup AllColumns \cup HasManyPaths
    /\ \A i \in Numbers : ReadsColumn(i) => ColumnPath(i) \in DOMAIN m /\ m[ColumnPath(i)] = Value(i)

LEMMA ScanFills ==
    ASSUME SensibleCases, case \in Cases
    PROVE  Filled(ScanColumns)
  <1> DEFINE m == ScanColumns
             Of(path) == {i \in Selected : ColumnPath(i) = path}
  <1>1. /\ DOMAIN m = Chains \cup {ColumnPath(i) : i \in Selected}
        /\ \A q \in DOMAIN m : m[q] = IF Of(q) = {} THEN Object ELSE Value(Max(Of(q)))
    <2>1. \A c \in Containers : HoldsColumn(case.fields, c)
      BY DEF SensibleCases, Containers, Numbered, Numbers, F
    <2>2. {c \in Numbered("belongs_to") : HoldsColumn(case.fields, c)} = Containers
      BY <2>1 DEF Containers
    <2> QED
      BY <2>2 DEF ScanColumns, Chains, Containers
  <1> HIDE DEF m
  <1>2. \A i \in Selected : i \in Numbers /\ ReadsColumn(i)
    BY DEF Selected
  <1>3. DOMAIN m = Chains \cup {ColumnPath(i) : i \in {j \in Numbers : ReadsColumn(j)}}
    <2>1. ASSUME NEW i \in Numbers, ReadsColumn(i)
          PROVE  ColumnPath(i) \in {ColumnPath(j) : j \in Selected}
      BY <2>1, EachSelected
    <2> QED
      BY <1>1, <1>2, <2>1
  <1>4. ASSUME NEW i \in Numbers, ReadsColumn(i)
        PROVE  ColumnPath(i) \in DOMAIN m /\ m[ColumnPath(i)] = Value(i)
    <2> DEFINE S == Of(ColumnPath(i))
    <2>1. S # {} /\ S \subseteq Numbers
      BY <1>2, <1>4, EachSelected
    <2>2. Max(S) \in S
      BY <2>1, MaxOfNumbers
    <2>3. Value(Max(S)) = Value(i)
      BY <1>2, <1>4, <2>2, SamePathReads
    <2> QED
      BY <1>1, <1>3, <1>4, <2>1, <2>3
  <1>5. ASSUME NEW p \in Chains
        PROVE  IsObject(m, p)
    <2>1. Of(p) = {}
      <3>1. ASSUME NEW i \in Selected, ColumnPath(i) = p
            PROVE  FALSE
        <4>1. p # <<>>
          BY <1>2, <3>1, ColumnPaths
        <4>2. PICK c \in Containers : p = Source(c)
          BY <4>1 DEF Chains
        <4> QED
          BY <1>2, <3>1, <4>2, ChainsApart
      <3> QED
        BY <3>1
    <2> QED
      BY <1>1, <2>1 DEF IsObject
  <1>6. \A q \in DOMAIN m : q \in ItemPath /\ (q # <<>> => Front(q) \in Chains)
    <2>1. ASSUME NEW c \in Containers
          PROVE  Source(c) \in ItemPath /\ Front(Source(c)) \in Chains
      BY FieldPaths, PrefixIsChain DEF Containers, Numbered
    <2>2. ASSUME NEW i \in Numbers, ReadsColumn(i)
          PROVE  ColumnPath(i) \in ItemPath /\ Front(ColumnPath(i)) \in Chains
      BY <2>2, ColumnPaths, PrefixIsChain
    <2> QED
      BY <1>3, <2>1, <2>2, EmptyPath DEF Chains
  <1>7. IsItem(m)
    BY <1>5, <1>6 DEF IsItem, Chains
  <1> QED
    BY <1>3, <1>4, <1>5, <1>6, <1>7 DEF Filled, AllColumns, m

LEMMA AttachFills ==
    ASSUME SensibleCases, case \in Cases, NEW m, Filled(m)
    PROVE  /\ Filled(AttachBranches(m))
           /\ HasManyPaths \subseteq DOMAIN AttachBranches(m)
  <1> DEFINE w == AttachBranches(m)
             Of(path) == {i \in Numbered("has_many") : Target(i) = path}
  <1>1. /\ DOMAIN w = DOMAIN m \cup {Target(i) : i \in Numbered("has_many")}
        /\ \A q \in DOMAIN w : Of(q) = {} => w[q] = m[q]
    BY DEF AttachBranches
  <1> HIDE DEF w
  <1>2. ASSUME NEW p \in Chains
        PROVE  IsObject(w, p)
    <2>1. ASSUME NEW i \in Numbered("has_many"), Target(i) = p
          PROVE  FALSE
      <3>1. i \in Numbers /\ F(i).type = "has_many"
        BY DEF Numbered
      <3>2. p # <<>>
        BY <2>1, <3>1, FieldPaths
      <3>3. PICK c \in Containers : p = Source(c)
        BY <3>2 DEF Chains
      <3> QED
        BY <2>1, <3>1, <3>3, ChainsApart
    <2>2. Of(p) = {}
      BY <2>1
    <2> QED
      BY <1>1, <2>2 DEF Filled, IsObject
  <1>3. ASSUME NEW i \in Numbers, ReadsColumn(i)
        PROVE  ColumnPath(i) \in DOMAIN w /\ w[ColumnPath(i)] = Value(i)
    <2>1. ASSUME NEW j \in Numbered("has_many"), Target(j) = ColumnPath(i)
          PROVE  FALSE
      <3>1. j \in Numbers /\ F(j).type = "has_many"
        BY DEF Numbered
      <3>2. F(i).prefix = F(j).prefix /\ ColumnName(i) = fieldKey(F(j))
        BY <1>3, <2>1, <3>1, ColumnPaths, FieldPaths
      <3>3. CASE F(i).type = "has_many"
        BY <3>1, <3>2, <3>3, IdOfRows DEF ColumnName
      <3>4. CASE F(i).type = "column"
        BY <3>1, <3>2, <3>4, Apart DEF ColumnName
      <3> QED
        BY <1>3, <3>3, <3>4 DEF ReadsColumn
    <2>2. Of(ColumnPath(i)) = {}
      BY <2>1
    <2> QED
      BY <1>1, <1>3, <2>2 DEF Filled
  <1>4. \A q \in DOMAIN w : q \in ItemPath /\ (q # <<>> => Front(q) \in Chains)
    <2>1. ASSUME NEW i \in Numbered("has_many")
          PROVE  Target(i) \in ItemPath /\ Front(Target(i)) \in Chains
      <3>1. i \in Numbers
        BY DEF Numbered
      <3> QED
        BY <3>1, FieldPaths, PrefixIsChain
    <2> QED
      BY <1>1, <2>1 DEF Filled, IsItem
  <1>5. IsItem(w)
    BY <1>2, <1>4 DEF IsItem, Chains
  <1> QED
    BY <1>1, <1>2, <1>3, <1>4, <1>5 DEF Filled, HasManyPaths, w
-----------------------------------------------------------------------------
(* What the passes leave is an item.                                       *)

LEMMA AliasKeeps ==
    ASSUME SensibleCases, case \in Cases, NEW m, Filled(m), NEW i \in Numbers, F(i).prefix = <<>>,
           F(i).type \in {"column", "nested_field"}
    PROVE  applyFieldAlias(m, i) = m
  <1>1. CASE F(i).type = "column"
    <2>1. ReadsColumn(i) /\ ColumnPath(i) = Target(i)
      BY <1>1 DEF ReadsColumn, ColumnPath
    <2> QED
      BY <2>1 DEF Filled, applyFieldAlias
  <1>2. CASE F(i).type = "nested_field"
    <2>1. Source(i) \notin Chains
      <3>1. ASSUME NEW c \in Containers, Source(i) = Source(c)
            PROVE  FALSE
        <4>1. c \in Numbers /\ F(c).type = "belongs_to"
          BY DEF Containers, Numbered
        <4>2. F(i).prefix = F(c).prefix /\ F(i).source = F(c).source
          BY <3>1, <4>1, FieldPaths
        <4> QED
          BY <1>2, <4>1, <4>2, Apart DEF Stored
      <3> QED
        BY <3>1, FieldPaths DEF Chains
    <2>2. ASSUME NEW j \in Numbers, ReadsColumn(j), Source(i) = ColumnPath(j)
          PROVE  FALSE
      <3>1. F(i).prefix = F(j).prefix /\ F(i).source = ColumnName(j)
        BY <2>2, FieldPaths, ColumnPaths
      <3>2. CASE F(j).type = "has_many"
        BY <1>2, <3>1, <3>2, IdOfRows DEF ColumnName
      <3>3. CASE F(j).type = "column"
        BY <1>2, <3>1, <3>3, Apart DEF ColumnName
      <3> QED
        BY <2>2, <3>2, <3>3 DEF ReadsColumn
    <2>3. ASSUME NEW j \in Numbered("has_many"), Source(i) = Target(j)
          PROVE  FALSE
      <3>1. j \in Numbers /\ F(j).type = "has_many"
        BY DEF Numbered
      <3>2. F(i).prefix = F(j).prefix /\ F(i).source = fieldKey(F(j))
        BY <2>3, <3>1, FieldPaths
      <3> QED
        BY <1>2, <3>1, <3>2, Apart
    <2>4. Source(i) \notin DOMAIN m
      BY <2>1, <2>2, <2>3 DEF Filled, AllColumns, HasManyPaths
    <2> QED
      BY <2>4 DEF applyFieldAlias
  <1> QED
    BY <1>1, <1>2

LEMMA CollapseItem ==
    ASSUME case \in Cases, NEW m, IsItem(m), NEW i \in Numbers
    PROVE  /\ IsItem(collapseEmpty(m, i))
           /\ \/ collapseEmpty(m, i) = m
              \/ \E p \in {Source(i), Target(i)} :
                    p \in DOMAIN m /\ IsObject(m, Front(p)) /\ collapseEmpty(m, i) = Put(m, p, Nil)
  <1>1. ASSUME NEW p \in {Source(i), Target(i)}, p \in DOMAIN m
        PROVE  IsObject(m, Front(p)) /\ IsItem(Put(m, p, Nil))
    <2>1. p \in ItemPath /\ p # <<>>
      BY FieldPaths
    <2>2. IsObject(m, Front(p))
      BY <1>1, <2>1 DEF IsItem
    <2> QED
      BY <2>1, <2>2, PutItem
  <1>2. \/ collapseEmpty(m, i) = m
        \/ \E p \in {Source(i), Target(i)} : p \in DOMAIN m /\ collapseEmpty(m, i) = Put(m, p, Nil)
    BY DEF collapseEmpty, IsObject
  <1> QED
    BY <1>1, <1>2

LEMMA LocalizeItem ==
    ASSUME case \in Cases, NEW m, IsItem(m), NEW i \in Numbers, F(i).prefix = <<>>
    PROVE  /\ IsItem(applyLocalization(m, i))
           /\ \/ applyLocalization(m, i) = m
              \/ \E v : applyLocalization(m, i) = Put(m, Target(i), v)
  <1>1. \A v : IsItem(Put(m, Target(i), v))
    <2>1. Target(i) \in ItemPath /\ Target(i) # <<>> /\ Front(Target(i)) = <<>>
      BY FieldPaths
    <2>2. IsObject(m, Front(Target(i)))
      BY <2>1 DEF IsItem
    <2> QED
      BY <2>1, <2>2, PutItem
  <1>2. \/ applyLocalization(m, i) = m
        \/ \E v : applyLocalization(m, i) = Put(m, Target(i), v)
    BY DEF applyLocalization
  <1> QED
    BY <1>1, <1>2

LEMMA Longer ==
    ASSUME NEW p \in ItemPath, NEW q \in ItemPath, q # <<>>
    PROVE  p \o q \in ItemPath /\ IsPrefix(p, p \o q) /\ p \o q # p
  <1> DEFINE pq == p \o q
  <1>1. pq \in ItemPath /\ Len(pq) = Len(p) + Len(q) /\ Len(p) \in Nat /\ Len(q) \in Nat \ {0}
    BY ConcatProperties, LenProperties, EmptySeq DEF ItemPath
  <1>2. \A i \in 1..Len(p) : pq[i] = p[i]
    BY ConcatProperties DEF ItemPath
  <1> HIDE DEF pq
  <1>3. IsPrefix(p, pq) /\ pq # p
    BY <1>1, <1>2, PrefixPointwise
  <1> QED
    BY <1>1, <1>3 DEF pq

LEMMA NodeItem ==
    ASSUME SensibleCases, case \in Cases, NEW m, IsItem(m), NEW i \in Numbers, IsNode(F(i))
    PROVE  /\ IsItem(executeNode(m, i))
           /\ \/ executeNode(m, i) = m
              \/ \E v : /\ executeNode(m, i) = Put(m, Target(i), v)
                        /\ IsObject(m, F(i).prefix)
                        /\ F(i).type # "nested_field" => v # Object
  <1>1. Append(F(i).prefix, F(i).alias) = Target(i) /\ Target(i) \in ItemPath /\ Target(i) # <<>>
        /\ Front(Target(i)) = F(i).prefix
    BY Kinds, FieldPaths DEF Target, fieldKey
  <1>2. ASSUME NEW v, IsObject(m, F(i).prefix)
        PROVE  IsItem(Put(m, Target(i), v))
    BY <1>1, <1>2, PutItem
  <1>3. \A x : Str(x) # Object
    BY DEF Str, Object
  <1>4. CASE F(i).type = "formatter" /\ IsObject(m, F(i).prefix)
    <2>1. executeNode(m, i) = Put(m, Target(i), Str(applyFormatter(F(i).template, m, F(i).prefix)))
      BY <1>1, <1>4 DEF executeNode
    <2> QED
      BY <1>2, <1>3, <1>4, <2>1
  <1>5. CASE F(i).type = "nested_field" /\ F(i).prefix \o F(i).template[1].path \in DOMAIN m
    <2> DEFINE copied == F(i).prefix \o F(i).template[1].path
    <2>1. executeNode(m, i) = Put(m, Target(i), m[copied])
      BY <1>1, <1>5 DEF executeNode
    <2>2. F(i).prefix \in ItemPath /\ F(i).template[1].path \in ItemPath \ {<<>>}
      BY <1>5, CaseFields
    <2>3. copied \in ItemPath /\ IsPrefix(F(i).prefix, copied) /\ copied # F(i).prefix /\ copied \in DOMAIN m
      BY <1>5, <2>2, Longer
    <2> HIDE DEF copied
    <2>4. IsObject(m, F(i).prefix)
      BY <2>2, <2>3, WayThere
    <2> QED
      BY <1>2, <1>5, <2>1, <2>4
  <1>6. CASE F(i).type = "belongs_to" /\ IsObject(m, IF IsObject(m, Source(i)) THEN Source(i) ELSE Target(i))
    <2> DEFINE child == IF IsObject(m, Source(i)) THEN Source(i) ELSE Target(i)
    <2>1. executeNode(m, i) = Put(m, Target(i), Str(applyFormatter(F(i).template, m, child)))
      BY <1>1, <1>6 DEF executeNode
    <2>2. child # <<>> /\ Front(child) = F(i).prefix
      BY FieldPaths
    <2>3. IsObject(m, F(i).prefix)
      BY <1>6, <2>2 DEF IsItem, IsObject
    <2> QED
      BY <1>2, <1>3, <1>6, <2>1, <2>3
  <1>7. \/ executeNode(m, i) = m
        \/ F(i).type = "formatter" /\ IsObject(m, F(i).prefix)
        \/ F(i).type = "nested_field" /\ F(i).prefix \o F(i).template[1].path \in DOMAIN m
        \/ F(i).type = "belongs_to" /\ IsObject(m, IF IsObject(m, Source(i)) THEN Source(i) ELSE Target(i))
    BY DEF executeNode
  <1> QED
    BY <1>4, <1>5, <1>6, <1>7

LEMMA RemoveItem ==
    ASSUME case \in Cases, NEW m, IsItem(m)
    PROVE  LET w == RemoveInternal(m) IN
           /\ DOMAIN w = {q \in DOMAIN m : \A j \in Numbers : F(j).internal => ~IsPrefix(Source(j), q)}
           /\ \A q \in DOMAIN w : w[q] = m[q]
           /\ IsItem(w)
  <1> DEFINE paths == collectInternalMarkers
  <1>1. paths \subseteq ItemPath \ {<<>>}
    BY FieldPaths DEF collectInternalMarkers
  <1>2. \A q : (\A p \in paths : ~IsPrefix(p, q))
                 <=> \A j \in Numbers : F(j).internal => ~IsPrefix(Source(j), q)
    BY DEF collectInternalMarkers
  <1>3. RemoveInternal(m) = Restrict(m, DOMAIN m \ UNION {Under(m, p) : p \in paths})
    BY DEF RemoveInternal
  <1> HIDE DEF paths
  <1>4. LET w == Restrict(m, DOMAIN m \ UNION {Under(m, p) : p \in paths}) IN
           /\ DOMAIN w = {q \in DOMAIN m : \A p \in paths : ~IsPrefix(p, q)}
           /\ \A q \in DOMAIN w : w[q] = m[q]
           /\ IsItem(w)
    BY <1>1, RestrictItem
  <1> QED
    BY <1>2, <1>3, <1>4

LEMMA RenameItem ==
    ASSUME case \in Cases, NEW m, IsItem(m), NEW i \in Numbers
    PROVE  IsItem(applyPresetAlias(m, i))
  <1>1. /\ Source(i) \in ItemPath /\ Source(i) # <<>> /\ fieldKey(F(i)) \in Keys
        /\ Append(Front(Source(i)), fieldKey(F(i))) = Target(i)
    BY FieldPaths DEF Target
  <1>2. CASE Source(i) \notin DOMAIN m
    BY <1>2 DEF applyPresetAlias
  <1>3. CASE Source(i) \in DOMAIN m /\ Target(i) \in DOMAIN m
    BY <1>1, <1>3, DropItem DEF applyPresetAlias
  <1>4. CASE Source(i) \in DOMAIN m /\ Target(i) \notin DOMAIN m
    BY <1>1, <1>4, MovedItem DEF applyPresetAlias
  <1> QED
    BY <1>2, <1>3, <1>4
-----------------------------------------------------------------------------
(* The invariant that all others build on: the item is a tree of maps, and *)
(* until containers collapse it is what was read.                          *)

Stages == {"scan", "attach", "alias", "collapse", "localize", "format", "remove", "rename", "done"}

ItemInv ==
    /\ case \in Cases
    /\ stage \in Stages
    /\ done \subseteq Numbers
    /\ stage # "scan" => IsItem(item)
    /\ stage \in {"attach", "alias"} => Filled(item)
    /\ stage = "alias" => HasManyPaths \subseteq DOMAIN item

(* The case stays what it is, and with it all that is said of fields. *)
LEMMA SameCase ==
    ASSUME case' = case
    PROVE  /\ Numbers' = Numbers /\ \A i : F(i)' = F(i)
           /\ \A i : Source(i)' = Source(i) /\ Target(i)' = Target(i)
           /\ Containers' = Containers /\ Chains' = Chains
           /\ HasManyPaths' = HasManyPaths
  BY DEF Numbers, F, Source, Target, Containers, Numbered, Chains, HasManyPaths

LEMMA SameColumns ==
    ASSUME case' = case
    PROVE  /\ AllColumns' = AllColumns
           /\ \A i : ReadsColumn(i)' = ReadsColumn(i)
           /\ \A i : ColumnPath(i)' = ColumnPath(i) /\ Value(i)' = Value(i)
  BY DEF Numbers, F, AllColumns, ReadsColumn, ColumnPath, Value, Reads, Target

LEMMA SameFilled ==
    ASSUME case' = case, Filled(item')
    PROVE  Filled(item)'
  BY SameCase, SameColumns DEF Filled
LEMMA AfterIs ==
    /\ After["scan"] = "attach" /\ After["attach"] = "alias" /\ After["alias"] = "collapse"
    /\ After["collapse"] = "localize" /\ After["localize"] = "format" /\ After["format"] = "remove"
    /\ After["remove"] = "rename" /\ After["rename"] = "done"
  BY DEF After

(* The actions by what they do to which field. *)
LEMMA Actions ==
    ASSUME FinalizeNext
    PROVE  /\ case' = case /\ dict' = dict
           /\ \/ stage = "scan" /\ stage' = "attach" /\ item' = ScanColumns /\ done' = done
              \/ stage = "attach" /\ stage' = "alias" /\ item' = AttachBranches(item) /\ done' = done
              \/ stage = "remove" /\ stage' = "rename" /\ item' = RemoveInternal(item) /\ done' = done
              \/ /\ stage \in {"alias", "collapse", "localize", "format", "rename"} /\ stage' = After[stage]
                 /\ item' = item /\ Work \subseteq done /\ done' = {}
              \/ \E i \in Numbers :
                    /\ stage' = stage /\ Turn(i) /\ i \in Work /\ done' = done \cup {i}
                    /\ \/ stage = "alias" /\ item' = applyFieldAlias(item, i)
                       \/ stage = "collapse" /\ item' = collapseEmpty(item, i)
                       \/ stage = "localize" /\ item' = applyLocalization(item, i)
                       \/ stage = "format" /\ item' = executeNode(item, i)
                       \/ stage = "rename" /\ item' = applyPresetAlias(item, i)
  <1>1. CASE Scan
    BY <1>1, AfterIs DEF Scan, Whole
  <1>2. CASE Attach
    BY <1>2, AfterIs DEF Attach, Whole
  <1>3. CASE RemoveFields
    BY <1>3, AfterIs DEF RemoveFields, Whole
  <1>4. CASE PassEnds
    BY <1>4 DEF PassEnds
  <1>5. ASSUME NEW i \in Numbers,
               \/ AliasField(i)
               \/ CollapseContainer(i)
               \/ LocalizeField(i)
               \/ ComputeNode(i)
               \/ RenameContainer(i)
        PROVE  /\ case' = case /\ dict' = dict
               /\ stage' = stage /\ Turn(i) /\ i \in Work /\ done' = done \cup {i}
               /\ \/ stage = "alias" /\ item' = applyFieldAlias(item, i)
                  \/ stage = "collapse" /\ item' = collapseEmpty(item, i)
                  \/ stage = "localize" /\ item' = applyLocalization(item, i)
                  \/ stage = "format" /\ item' = executeNode(item, i)
                  \/ stage = "rename" /\ item' = applyPresetAlias(item, i)
    <2>1. Turn(i) => i \in Work
      BY DEF Turn
    <2> QED
      BY <1>5, <2>1 DEF AliasField, CollapseContainer, LocalizeField, ComputeNode, RenameContainer, At
  <1> QED
    BY <1>1, <1>2, <1>3, <1>4, <1>5 DEF FinalizeNext

(* Whose turn it is in which pass. *)
LEMMA WorkIs ==
    /\ stage = "alias" => Work = {i \in Numbers : /\ F(i).prefix = <<>> /\ HasOtherName(F(i))
                                                  /\ F(i).type \in {"column", "nested_field"}}
    /\ stage = "collapse" => Work = Containers
    /\ stage = "localize" => Work = {i \in Numbers : F(i).prefix = <<>> /\ F(i).localize}
    /\ stage = "format" => Work = {i \in Numbers : IsNode(F(i))}
    /\ stage = "rename" =>
          Work = {i \in Numbers : HasOtherName(F(i)) /\ F(i).type \in {"belongs_to", "has_many"}}
  BY DEF Work, Containers

LEMMA ItemStep ==
    ASSUME SensibleCases, ItemInv, [FinalizeNext]_finalizeVars
    PROVE  ItemInv'
  <1>1. CASE UNCHANGED finalizeVars
    <2>1. case' = case /\ item' = item /\ stage' = stage /\ done' = done
      BY <1>1 DEF finalizeVars
    <2>2. Filled(item) => Filled(item)'
      BY <2>1, SameFilled
    <2> QED
      BY <2>1, <2>2, SameCase DEF ItemInv
  <1>2. CASE FinalizeNext
    <2>0. case' = case /\ Numbers' = Numbers /\ HasManyPaths' = HasManyPaths /\ case \in Cases
      BY <1>2, Actions, SameCase DEF ItemInv
    <2>1. CASE stage = "scan" /\ stage' = "attach" /\ item' = ScanColumns /\ done' = done
      <3>1. Filled(item') /\ Filled(item)'
        BY <2>0, <2>1, ScanFills, SameFilled
      <3>2. IsItem(item')
        BY <3>1 DEF Filled
      <3> QED
        BY <2>0, <2>1, <3>1, <3>2 DEF ItemInv, Stages
    <2>2. CASE stage = "attach" /\ stage' = "alias" /\ item' = AttachBranches(item) /\ done' = done
      <3>1. Filled(item') /\ Filled(item)' /\ HasManyPaths \subseteq DOMAIN item'
        BY <2>0, <2>2, AttachFills, SameFilled DEF ItemInv
      <3>2. IsItem(item')
        BY <3>1 DEF Filled
      <3> QED
        BY <2>0, <2>2, <3>1, <3>2 DEF ItemInv, Stages
    <2>3. CASE stage = "remove" /\ stage' = "rename" /\ item' = RemoveInternal(item) /\ done' = done
      <3>1. IsItem(item')
        BY <2>0, <2>3, RemoveItem DEF ItemInv
      <3> QED
        BY <2>0, <2>3, <3>1 DEF ItemInv, Stages
    <2>4. CASE /\ stage \in {"alias", "collapse", "localize", "format", "rename"} /\ stage' = After[stage]
               /\ item' = item /\ Work \subseteq done /\ done' = {}
      <3>1. stage' \in Stages \ {"scan", "attach", "alias"} /\ stage # "scan"
        BY <2>4, AfterIs DEF Stages
      <3> QED
        BY <2>0, <2>4, <3>1 DEF ItemInv
    <2>5. ASSUME NEW i \in Numbers, stage' = stage, i \in Work, done' = done \cup {i},
                 \/ stage = "alias" /\ item' = applyFieldAlias(item, i)
                 \/ stage = "collapse" /\ item' = collapseEmpty(item, i)
                 \/ stage = "localize" /\ item' = applyLocalization(item, i)
                 \/ stage = "format" /\ item' = executeNode(item, i)
                 \/ stage = "rename" /\ item' = applyPresetAlias(item, i)
          PROVE  ItemInv'
      <3>1. IsItem(item') /\ (stage = "alias" => item' = item)
        <4>0. stage # "scan" /\ IsItem(item)
          BY <2>5 DEF ItemInv
        <4>1. CASE stage = "alias" /\ item' = applyFieldAlias(item, i)
          <5>1. F(i).prefix = <<>> /\ F(i).type \in {"column", "nested_field"}
            BY <2>5, <4>1, WorkIs
          <5>2. item' = item
            BY <2>0, <4>1, <5>1, AliasKeeps DEF ItemInv
          <5> QED
            BY <4>0, <5>2
        <4>2. CASE stage = "collapse" /\ item' = collapseEmpty(item, i)
          BY <2>0, <4>0, <4>2, CollapseItem
        <4>3. CASE stage = "localize" /\ item' = applyLocalization(item, i)
          BY <2>0, <2>5, <4>0, <4>3, WorkIs, LocalizeItem
        <4>4. CASE stage = "format" /\ item' = executeNode(item, i)
          BY <2>0, <2>5, <4>0, <4>4, WorkIs, NodeItem
        <4>5. CASE stage = "rename" /\ item' = applyPresetAlias(item, i)
          BY <2>0, <4>0, <4>5, RenameItem
        <4> QED
          BY <2>5, <4>1, <4>2, <4>3, <4>4, <4>5
      <3>2. stage # "scan" /\ stage # "attach"
        BY <2>5
      <3>3. stage = "alias" => Filled(item)'
        BY <2>0, <3>1, SameFilled DEF ItemInv
      <3> QED
        BY <2>0, <2>5, <3>1, <3>2, <3>3 DEF ItemInv
    <2> QED
      BY <1>2, <2>1, <2>2, <2>3, <2>4, <2>5, Actions
  <1> QED
    BY <1>1, <1>2

LEMMA ItemInit ==
    ASSUME FinalizeInit
    PROVE  ItemInv
  BY DEF FinalizeInit, ItemInv, Stages

(* In every pass the item is a tree: each of its values lies in a map that  *)
(* is there (applyFieldAliases, collapseEmptyBelongsTo, applyFormatters,    *)
(* deletePrefix and applyPresetAliases move and remove whole subtrees).     *)
THEOREM ItemAlways ==
    ASSUME SensibleCases
    PROVE  FinalizeSpec => []ItemInv
  <1>1. FinalizeInit => ItemInv
    BY ItemInit
  <1>2. ItemInv /\ [FinalizeNext]_finalizeVars => ItemInv'
    BY ItemStep
  <1> QED
    BY <1>1, <1>2, PTL DEF FinalizeSpec
-----------------------------------------------------------------------------
(* Translations.                                                           *)

(* The columns of the item itself that the client gets translated. *)
Followed == {i \in Numbered("column") : F(i).prefix = <<>> /\ F(i).localize /\ ~F(i).internal}

(* What the pass makes of one. *)
Said(i) ==
    LET v == case.row[Source(i)]
        paths == LookupPaths(F(i), v)
        hits == {k \in DOMAIN paths : paths[k] \in DOMAIN dict}
    IN  IF hits = {} THEN v ELSE dict[paths[Min(hits)]]
Past(i) == stage \in {"format", "remove", "rename", "done"} \/ (stage = "localize" /\ i \in done)

LocalInv ==
    /\ dict \in case.dicts
    /\ stage \notin {"scan", "attach", "alias"} => \A i \in Followed :
          /\ Target(i) \in DOMAIN item
          /\ item[Target(i)] = IF Past(i) THEN Said(i) ELSE case.row[Source(i)]

(* Where such a column is nothing else is, under it or above. *)
LEMMA ColumnAlone ==
    ASSUME SensibleCases, case \in Cases, NEW i \in Followed
    PROVE  /\ i \in Numbers /\ Target(i) \in ItemPath
           /\ \A j \in Numbers : j # i => ~IsPrefix(Target(j), Target(i))
           /\ \A j \in Numbers : j # i /\ F(j).type # "formatter" => ~IsPrefix(Source(j), Target(i))
  <1>1. i \in Numbers /\ F(i).type = "column" /\ F(i).prefix = <<>>
    BY DEF Followed, Numbered
  <1>2. Target(i) \in ItemPath /\ Target(i) # <<>> /\ Front(Target(i)) = <<>>
    BY <1>1, FieldPaths
  <1>3. ASSUME NEW p \in ItemPath, p # <<>>, IsPrefix(p, Target(i))
        PROVE  p = Target(i)
    BY <1>2, <1>3, PrefixOfFront, OnlyEmptyBeginsEmpty
  <1>4. ASSUME NEW j \in Numbers, j # i, IsPrefix(Target(j), Target(i))
        PROVE  FALSE
    <2>1. Target(j) = Target(i)
      BY <1>3, <1>4, FieldPaths
    <2>2. F(i).prefix = F(j).prefix /\ fieldKey(F(i)) = fieldKey(F(j))
      BY <1>1, <2>1, FieldPaths
    <2> QED
      BY <1>1, <1>4, <2>2, Apart
  <1>5. ASSUME NEW j \in Numbers, j # i, F(j).type # "formatter", IsPrefix(Source(j), Target(i))
        PROVE  FALSE
    <2>1. Source(j) = Target(i)
      BY <1>3, <1>5, FieldPaths
    <2>2. F(i).prefix = F(j).prefix /\ fieldKey(F(i)) = F(j).source
      BY <1>1, <2>1, FieldPaths
    <2> QED
      BY <1>1, <1>5, <2>2, Apart
  <1> QED
    BY <1>1, <1>2, <1>4, <1>5

(* The passes that are not about translations leave the column alone. *)
LEMMA PutElsewhere ==
    ASSUME NEW m, NEW p, NEW v, NEW q \in DOMAIN m, ~IsPrefix(p, q), p # q
    PROVE  q \in DOMAIN Put(m, p, v) /\ Put(m, p, v)[q] = m[q]
  BY DEF Put, Under

LEMMA CollapseElsewhere ==
    ASSUME NEW m, NEW i, NEW q \in DOMAIN m,
           ~IsPrefix(Source(i), q), Source(i) # q, ~IsPrefix(Target(i), q), Target(i) # q
    PROVE  q \in DOMAIN collapseEmpty(m, i) /\ collapseEmpty(m, i)[q] = m[q]
  BY PutElsewhere DEF collapseEmpty

LEMMA LocalizeElsewhere ==
    ASSUME NEW m, NEW i, NEW q \in DOMAIN m, ~IsPrefix(Target(i), q), Target(i) # q
    PROVE  q \in DOMAIN applyLocalization(m, i) /\ applyLocalization(m, i)[q] = m[q]
  BY PutElsewhere DEF applyLocalization

LEMMA MovedElsewhere ==
    ASSUME NEW m, IsItem(m), NEW p \in ItemPath, p # <<>>, p \in DOMAIN m, NEW key \in Keys,
           Append(Front(p), key) \notin DOMAIN m
    PROVE  \A r \in DOMAIN m : ~IsPrefix(p, r) => r \in DOMAIN Moved(m, p, key) /\ Moved(m, p, key)[r] = m[r]
  BY MovedItem

LEMMA NodeElsewhere ==
    ASSUME SensibleCases, case \in Cases, NEW m, NEW i \in Numbers, IsNode(F(i)), NEW q \in DOMAIN m,
           ~IsPrefix(Target(i), q), Target(i) # q
    PROVE  q \in DOMAIN executeNode(m, i) /\ executeNode(m, i)[q] = m[q]
  <1>1. Append(F(i).prefix, F(i).alias) = Target(i)
    BY Kinds DEF Target, fieldKey
  <1>2. executeNode(m, i) = m \/ \E v : executeNode(m, i) = Put(m, Target(i), v)
    BY <1>1 DEF executeNode
  <1> QED
    BY <1>2, PutElsewhere

LEMMA RenameElsewhere ==
    ASSUME case \in Cases, NEW m, IsItem(m), NEW i \in Numbers, NEW q \in DOMAIN m, ~IsPrefix(Source(i), q)
    PROVE  q \in DOMAIN applyPresetAlias(m, i) /\ applyPresetAlias(m, i)[q] = m[q]
  <1>1. /\ Source(i) \in ItemPath /\ Source(i) # <<>> /\ fieldKey(F(i)) \in Keys
        /\ Append(Front(Source(i)), fieldKey(F(i))) = Target(i)
    BY FieldPaths DEF Target
  <1>2. CASE Source(i) \notin DOMAIN m
    BY <1>2 DEF applyPresetAlias
  <1>3. CASE Source(i) \in DOMAIN m /\ Target(i) \in DOMAIN m
    <2>1. applyPresetAlias(m, i) = Drop(m, Source(i))
      BY <1>3 DEF applyPresetAlias
    <2>2. /\ DOMAIN Drop(m, Source(i)) = {r \in DOMAIN m : ~IsPrefix(Source(i), r)}
          /\ \A r \in DOMAIN Drop(m, Source(i)) : Drop(m, Source(i))[r] = m[r]
      BY <1>1, DropItem
    <2> QED
      BY <2>1, <2>2
  <1>4. CASE Source(i) \in DOMAIN m /\ Target(i) \notin DOMAIN m
    <2>1. applyPresetAlias(m, i) = Moved(m, Source(i), fieldKey(F(i)))
      BY <1>4 DEF applyPresetAlias
    <2>2. \A r \in DOMAIN m : ~IsPrefix(Source(i), r) =>
             /\ r \in DOMAIN Moved(m, Source(i), fieldKey(F(i)))
             /\ Moved(m, Source(i), fieldKey(F(i)))[r] = m[r]
      BY <1>1, <1>4, MovedElsewhere
    <2> QED
      BY <2>1, <2>2
  <1> QED
    BY <1>2, <1>3, <1>4

LEMMA SameLocal ==
    ASSUME case' = case, dict' = dict
    PROVE  /\ Followed' = Followed
           /\ \A i : Said(i)' = Said(i)
  BY DEF Followed, Numbered, Numbers, F, Said, Source, LookupPaths

LEMMA LocalStep ==
    ASSUME SensibleCases, ItemInv, LocalInv, [FinalizeNext]_finalizeVars
    PROVE  LocalInv'
  <1>1. CASE UNCHANGED finalizeVars
    <2>1. case' = case /\ item' = item /\ stage' = stage /\ done' = done /\ dict' = dict
      BY <1>1 DEF finalizeVars
    <2>2. Followed' = Followed /\ \A i : Said(i)' = Said(i) /\ Target(i)' = Target(i) /\ Source(i)' = Source(i)
      BY <2>1, SameLocal, SameCase
    <2>3. \A i : Past(i)' <=> Past(i)
      BY <2>1 DEF Past
    <2> QED
      BY <2>1, <2>2, <2>3 DEF LocalInv
  <1>2. CASE FinalizeNext
    <2>0. /\ case' = case /\ dict' = dict /\ case \in Cases /\ Numbers' = Numbers /\ Followed' = Followed
          /\ \A i : Target(i)' = Target(i) /\ Source(i)' = Source(i) /\ Said(i)' = Said(i)
      <3>1. case' = case /\ dict' = dict
        BY <1>2, Actions
      <3> QED
        BY <3>1, SameLocal, SameCase DEF ItemInv
    <2> SUFFICES ASSUME stage' \notin {"scan", "attach", "alias"}, NEW i \in Followed
                 PROVE  /\ Target(i) \in DOMAIN item'
                        /\ item'[Target(i)] = IF Past(i)' THEN Said(i) ELSE case.row[Source(i)]
      BY <2>0 DEF LocalInv
    <2>i. i \in Numbers /\ F(i).prefix = <<>> /\ F(i).type = "column" /\ ~F(i).internal /\ F(i).localize
          /\ Target(i) \in ItemPath
      BY <2>0, ColumnAlone DEF Followed, Numbered
    <2>a. /\ \A j \in Numbers : j # i => ~IsPrefix(Target(j), Target(i)) /\ Target(j) # Target(i)
          /\ \A j \in Numbers : j # i /\ F(j).type # "formatter" =>
                ~IsPrefix(Source(j), Target(i)) /\ Source(j) # Target(i)
      BY <2>0, ColumnAlone, PrefixFacts
    <2>1. CASE stage = "remove" /\ stage' = "rename" /\ item' = RemoveInternal(item) /\ done' = done
      <3>1. IsItem(item) /\ Target(i) \in DOMAIN item /\ item[Target(i)] = Said(i)
        BY <2>1 DEF ItemInv, LocalInv, Past
      <3>2. \A j \in Numbers : F(j).internal => ~IsPrefix(Source(j), Target(i))
        BY <2>0, <2>i, <2>a, Kinds DEF Stored
      <3>3. Target(i) \in DOMAIN item' /\ item'[Target(i)] = item[Target(i)]
        BY <2>0, <2>1, <3>1, <3>2, RemoveItem
      <3> QED
        BY <2>1, <3>1, <3>3 DEF Past
    <2>2. CASE /\ stage \in {"alias", "collapse", "localize", "format", "rename"} /\ stage' = After[stage]
               /\ item' = item /\ Work \subseteq done /\ done' = {}
      <3>1. CASE stage = "alias"
        <4>1. ColumnPath(i) = Target(i) /\ ReadsColumn(i) /\ Value(i) = case.row[Source(i)]
          BY <2>i DEF ColumnPath, ReadsColumn, Value, Reads, Source
        <4>2. Target(i) \in DOMAIN item /\ item[Target(i)] = case.row[Source(i)]
          BY <2>i, <3>1, <4>1 DEF ItemInv, Filled
        <4>3. ~Past(i)'
          BY <2>2, <3>1, AfterIs DEF Past
        <4> QED
          BY <2>2, <4>2, <4>3
      <3>2. CASE stage = "localize"
        <4>1. i \in done
          BY <2>2, <2>i, <3>2, WorkIs
        <4> QED
          BY <2>2, <3>2, <4>1, AfterIs DEF LocalInv, Past
      <3>3. CASE stage \in {"collapse", "format", "rename"}
        BY <2>2, <3>3, AfterIs DEF LocalInv, Past
      <3> QED
        BY <2>2, <3>1, <3>2, <3>3
    <2>3. ASSUME NEW j \in Numbers, stage' = stage, Turn(j), j \in Work, done' = done \cup {j},
                 \/ stage = "alias" /\ item' = applyFieldAlias(item, j)
                 \/ stage = "collapse" /\ item' = collapseEmpty(item, j)
                 \/ stage = "localize" /\ item' = applyLocalization(item, j)
                 \/ stage = "format" /\ item' = executeNode(item, j)
                 \/ stage = "rename" /\ item' = applyPresetAlias(item, j)
          PROVE  /\ Target(i) \in DOMAIN item'
                 /\ item'[Target(i)] = IF Past(i)' THEN Said(i) ELSE case.row[Source(i)]
      <3>0. /\ IsItem(item) /\ Target(i) \in DOMAIN item
            /\ item[Target(i)] = IF Past(i) THEN Said(i) ELSE case.row[Source(i)]
            /\ (i # j \/ stage # "localize" => (Past(i)' <=> Past(i)))
        BY <2>3 DEF ItemInv, LocalInv, Past
      <3>1. CASE stage = "collapse" /\ item' = collapseEmpty(item, j)
        <4>1. j # i /\ F(j).type # "formatter"
          BY <2>3, <2>i, <3>1, WorkIs DEF Containers, Numbered
        <4> QED
          BY <2>a, <3>0, <3>1, <4>1, CollapseElsewhere
      <3>2. CASE stage = "localize" /\ item' = applyLocalization(item, j) /\ j # i
        BY <2>a, <3>0, <3>2, LocalizeElsewhere
      <3>3. CASE stage = "localize" /\ item' = applyLocalization(item, j) /\ j = i
        <4>1. i \notin done
          BY <2>3, <3>3 DEF Turn
        <4>2. item[Target(i)] = case.row[Source(i)]
          BY <3>0, <3>3, <4>1 DEF Past
        <4>3. item' = Put(item, Target(i), Said(i))
          BY <3>0, <3>3, <4>2 DEF applyLocalization, Said
        <4>4. Past(i)'
          BY <2>3, <3>3 DEF Past
        <4> QED
          BY <4>3, <4>4 DEF Put
      <3>4. CASE stage = "format" /\ item' = executeNode(item, j)
        <4>1. IsNode(F(j)) /\ j # i
          BY <2>3, <2>i, <3>4, WorkIs DEF IsNode
        <4> QED
          BY <2>0, <2>a, <3>0, <3>4, <4>1, NodeElsewhere
      <3>5. CASE stage = "rename" /\ item' = applyPresetAlias(item, j)
        <4>1. j # i /\ F(j).type # "formatter"
          BY <2>3, <2>i, <3>5, WorkIs
        <4> QED
          BY <2>0, <2>a, <3>0, <3>5, <4>1, RenameElsewhere
      <3> QED
        BY <2>3, <3>1, <3>2, <3>3, <3>4, <3>5
    <2> QED
      BY <1>2, <2>1, <2>2, <2>3, Actions
  <1> QED
    BY <1>1, <1>2

-----------------------------------------------------------------------------
(* Translations are found from the most specific down. *)

(* The entries of the dictionary that may apply, by how specific they are. *)
Four(key, v) == <<case.model, case.preset, key, v>>
Three(key, v) == <<case.preset, key, v>>
Two(f, key, v) == <<key, FieldKey(f, v)>>

LEMMA ThreeAndThree ==
    ASSUME NEW S, NEW a \in Seq(S), NEW b \in Seq(S), Len(a) = 3, Len(b) = 3
    PROVE  /\ DOMAIN (a \o b) = 1..6
           /\ (a \o b)[1] = a[1] /\ (a \o b)[2] = a[2] /\ (a \o b)[3] = a[3]
           /\ (a \o b)[4] = b[1] /\ (a \o b)[5] = b[2] /\ (a \o b)[6] = b[3]
  <1> DEFINE c == a \o b
  <1>1. /\ c \in Seq(S) /\ Len(c) = Len(a) + Len(b)
        /\ \A i \in 1..(Len(a) + Len(b)) : c[i] = IF i <= Len(a) THEN a[i] ELSE b[i - Len(a)]
    BY ConcatProperties
  <1> HIDE DEF c
  <1>2. Len(a) + Len(b) = 6
    OBVIOUS
  <1>3. /\ Len(c) = 6
        /\ \A i \in 1..6 : c[i] = IF i <= 3 THEN a[i] ELSE b[i - 3]
    BY <1>1, <1>2
  <1>4. DOMAIN c = 1..6
    BY <1>1, <1>3
  <1> QED
    BY <1>3, <1>4 DEF c

LEMMA ThreeKeys ==
    ASSUME NEW f, NEW v, ~HasOtherName(f)
    PROVE  /\ DOMAIN LookupPaths(f, v) = 1..3
           /\ LookupPaths(f, v)[1] = Four(f.source, v)
           /\ LookupPaths(f, v)[2] = Three(f.source, v)
           /\ LookupPaths(f, v)[3] = Two(f, f.source, v)
  BY DEF LookupPaths, Four, Three, Two

LEMMA SixKeys ==
    ASSUME NEW f, NEW v, HasOtherName(f)
    PROVE  /\ DOMAIN LookupPaths(f, v) = 1..6
           /\ LookupPaths(f, v)[1] = Four(f.alias, v)
           /\ LookupPaths(f, v)[2] = Three(f.alias, v)
           /\ LookupPaths(f, v)[3] = Two(f, f.alias, v)
           /\ LookupPaths(f, v)[4] = Four(f.source, v)
           /\ LookupPaths(f, v)[5] = Three(f.source, v)
           /\ LookupPaths(f, v)[6] = Two(f, f.source, v)
  <1> DEFINE a == <<Four(f.alias, v), Three(f.alias, v), Two(f, f.alias, v)>>
             b == <<Four(f.source, v), Three(f.source, v), Two(f, f.source, v)>>
             S == {a[1], a[2], a[3], b[1], b[2], b[3]}
  <1>1. LookupPaths(f, v) = a \o b
    BY DEF LookupPaths, Four, Three, Two
  <1>2. a \in Seq(S) /\ b \in Seq(S) /\ Len(a) = 3 /\ Len(b) = 3
    OBVIOUS
  <1>3. /\ a[1] = Four(f.alias, v) /\ a[2] = Three(f.alias, v) /\ a[3] = Two(f, f.alias, v)
        /\ b[1] = Four(f.source, v) /\ b[2] = Three(f.source, v) /\ b[3] = Two(f, f.source, v)
    OBVIOUS
  <1> HIDE DEF a, b, S
  <1>4. /\ DOMAIN (a \o b) = 1..6
        /\ (a \o b)[1] = a[1] /\ (a \o b)[2] = a[2] /\ (a \o b)[3] = a[3]
        /\ (a \o b)[4] = b[1] /\ (a \o b)[5] = b[2] /\ (a \o b)[6] = b[3]
    BY <1>2, ThreeAndThree
  <1> QED
    BY <1>1, <1>3, <1>4

(* Every entry has the form of one of them. *)
Entry(f, p, key, v) == p \in {Four(key, v), Three(key, v), Two(f, key, v)}

LEMMA EntryFacts ==
    ASSUME NEW f, NEW key, NEW v
    PROVE  /\ Len(Four(key, v)) = 4 /\ Four(key, v)[3] = key
           /\ Len(Three(key, v)) = 3 /\ Three(key, v)[2] = key
           /\ Len(Two(f, key, v)) = 2 /\ Two(f, key, v)[1] = key
  BY DEF Four, Three, Two

LEMMA PathForm ==
    ASSUME NEW p, Len(p) \in Nat, Len(p) >= 2, p = [k \in 1..Len(p) |-> p[k]]
    PROVE  /\ Len(p) - 2 \in Nat
           /\ Last(p) = p[Len(p)]
           /\ Len(SubSeq(p, 1, Len(p) - 2)) = Len(p) - 2
           /\ \A k \in 1..(Len(p) - 2) : SubSeq(p, 1, Len(p) - 2)[k] = p[k]
  <1> DEFINE S == {p[k] : k \in 1..Len(p)}
             l == Len(p)
             n == Len(p) - 2
  <1>1. p \in Seq(S) /\ l \in Nat /\ n \in Nat /\ n <= l
    OBVIOUS
  <1>2. Last(p) = p[l]
    BY DEF Last
  <1> HIDE DEF l, n, S
  <1>3. Len(SubSeq(p, 1, n)) = n /\ \A k \in 1..n : SubSeq(p, 1, n)[k] = p[k]
    BY <1>1 DEF l
  <1> QED
    BY <1>1, <1>2, <1>3 DEF l, n

LEMMA IsEntry ==
    ASSUME NEW p, Len(p) \in Nat, Len(p) >= 2, p = [k \in 1..Len(p) |-> p[k]], NEW f, NEW key, NEW v
    PROVE  Entry(f, p, key, v) <=>
             /\ \/ SubSeq(p, 1, Len(p) - 2) \in {<<case.model, case.preset>>, <<case.preset>>}
                   /\ Last(p) = v
                \/ Len(p) = 2 /\ Last(p) = FieldKey(f, v)
             /\ p[Len(p) - 1] = key
  <1> DEFINE l == Len(p)
             s == SubSeq(p, 1, l - 2)
  <1>1. /\ l \in Nat /\ l >= 2 /\ l - 2 \in Nat
        /\ Last(p) = p[l] /\ Len(s) = l - 2
        /\ \A k \in 1..(l - 2) : s[k] = p[k]
    BY PathForm
  <1>2. p = [k \in 1..l |-> p[k]]
    OBVIOUS
  <1>3. s = [k \in 1..(l - 2) |-> p[k]]
    BY <1>1
  <1> HIDE DEF l, s
  <1>4. p = Four(key, v) => l = 4 /\ p[1] = case.model /\ p[2] = case.preset /\ p[3] = key /\ p[4] = v
    BY DEF Four, l
  <1>5. p = Three(key, v) => l = 3 /\ p[1] = case.preset /\ p[2] = key /\ p[3] = v
    BY DEF Three, l
  <1>6. p = Two(f, key, v) => l = 2 /\ p[1] = key /\ p[2] = FieldKey(f, v)
    BY DEF Two, l
  <1>7. l = 4 /\ p[1] = case.model /\ p[2] = case.preset /\ p[3] = key /\ p[4] = v => p = Four(key, v)
    BY <1>2 DEF Four
  <1>8. l = 3 /\ p[1] = case.preset /\ p[2] = key /\ p[3] = v => p = Three(key, v)
    BY <1>2 DEF Three
  <1>9. l = 2 /\ p[1] = key /\ p[2] = FieldKey(f, v) => p = Two(f, key, v)
    BY <1>2 DEF Two
  <1>10. s = <<case.model, case.preset>> <=> l = 4 /\ p[1] = case.model /\ p[2] = case.preset
    <2>1. s = <<case.model, case.preset>> => l = 4 /\ p[1] = case.model /\ p[2] = case.preset
      BY <1>1
    <2>2. l = 4 /\ p[1] = case.model /\ p[2] = case.preset => s = <<case.model, case.preset>>
      BY <1>3
    <2> QED
      BY <2>1, <2>2
  <1>11. s = <<case.preset>> <=> l = 3 /\ p[1] = case.preset
    <2>1. s = <<case.preset>> => l = 3 /\ p[1] = case.preset
      BY <1>1
    <2>2. l = 3 /\ p[1] = case.preset => s = <<case.preset>>
      BY <1>3
    <2> QED
      BY <2>1, <2>2
  <1>12. ASSUME Entry(f, p, key, v)
         PROVE  /\ \/ s \in {<<case.model, case.preset>>, <<case.preset>>} /\ Last(p) = v
                   \/ l = 2 /\ Last(p) = FieldKey(f, v)
                /\ p[l - 1] = key
    BY <1>1, <1>4, <1>5, <1>6, <1>10, <1>11, <1>12 DEF Entry
  <1>13. ASSUME /\ \/ s \in {<<case.model, case.preset>>, <<case.preset>>} /\ Last(p) = v
                   \/ l = 2 /\ Last(p) = FieldKey(f, v)
                /\ p[l - 1] = key
         PROVE  Entry(f, p, key, v)
    BY <1>1, <1>7, <1>8, <1>9, <1>10, <1>11, <1>13 DEF Entry
  <1> QED
    BY <1>12, <1>13 DEF l, s

LEMMA TranslationsAre ==
    ASSUME case \in Cases, dict \in case.dicts, NEW f, NEW v
    PROVE  Translations(f, v) =
              {p \in DOMAIN dict : Entry(f, p, f.source, v) \/ Entry(f, p, fieldKey(f), v)}
  <1>1. ASSUME NEW p \in DOMAIN dict
        PROVE  Len(p) \in Nat /\ Len(p) >= 2 /\ p = [k \in 1..Len(p) |-> p[k]]
    BY CasesAssumption
  <1>2. ASSUME NEW p \in DOMAIN dict, NEW key
        PROVE  Entry(f, p, key, v) <=>
                 /\ \/ SubSeq(p, 1, Len(p) - 2) \in {<<case.model, case.preset>>, <<case.preset>>}
                       /\ Last(p) = v
                    \/ Len(p) = 2 /\ Last(p) = FieldKey(f, v)
                 /\ p[Len(p) - 1] = key
    BY <1>1, IsEntry
  <1> DEFINE Ends(p) == \/ SubSeq(p, 1, Len(p) - 2) \in {<<case.model, case.preset>>, <<case.preset>>}
                           /\ Last(p) = v
                        \/ Len(p) = 2 /\ Last(p) = FieldKey(f, v)
  <1>3. Translations(f, v) = {p \in DOMAIN dict : Ends(p) /\ p[Len(p) - 1] \in {f.source, fieldKey(f)}}
    BY DEF Translations
  <1>4. \A p \in DOMAIN dict : \A key : Entry(f, p, key, v) <=> Ends(p) /\ p[Len(p) - 1] = key
    BY <1>2
  <1> HIDE DEF Ends
  <1> QED
    BY <1>3, <1>4

Best(f, paths) == CHOOSE p \in paths : \A q \in paths : Preferred(f, p, q)
HitsIn(L) == {k \in DOMAIN L : L[k] \in DOMAIN dict}

(* A list in which each is preferred to those after it; what of it is there; *)
(* and its first.                                                           *)
BestFirst(f, L, n) ==
    /\ DOMAIN L = 1..n
    /\ \A j, k \in 1..n : j <= k => Preferred(f, L[j], L[k])
    /\ \A j, k \in 1..n : j < k => ~Preferred(f, L[k], L[j])
ThoseOf(L, n, paths) == \A p : p \in paths <=> p \in DOMAIN dict /\ \E k \in 1..n : p = L[k]

LEMMA FirstIsChosen ==
    ASSUME NEW f, NEW n \in Nat, NEW L, NEW paths, BestFirst(f, L, n), ThoseOf(L, n, paths)
    PROVE  /\ HitsIn(L) = {} => paths = {}
           /\ HitsIn(L) # {} => paths # {} /\ L[Min(HitsIn(L))] = Best(f, paths)
  <1> DEFINE hits == {k \in DOMAIN L : L[k] \in DOMAIN dict}
             first == Min(hits)
             Good(p) == p \in paths /\ \A q \in paths : Preferred(f, p, q)
  <1>0. /\ DOMAIN L = 1..n
        /\ \A j, k \in 1..n : j <= k => Preferred(f, L[j], L[k])
        /\ \A j, k \in 1..n : j < k => ~Preferred(f, L[k], L[j])
        /\ \A p : p \in paths <=> p \in DOMAIN dict /\ \E k \in 1..n : p = L[k]
    BY DEF BestFirst, ThoseOf
  <1>1. hits = {} => paths = {}
    BY <1>0
  <1>2. ASSUME hits # {}
        PROVE  paths # {} /\ L[first] = CHOOSE p \in paths : \A q \in paths : Preferred(f, p, q)
    <2>1. first \in hits /\ \A k \in hits : first <= k
      <3>1. hits \subseteq Nat
        BY <1>0
      <3> HIDE DEF hits
      <3> QED
        BY <1>2, <3>1, MinOfNats
    <2> HIDE DEF first
    <2>2. first \in 1..n /\ L[first] \in DOMAIN dict /\ L[first] \in paths
      BY <1>0, <2>1
    <2>3. \A q \in paths : \E k \in hits : q = L[k]
      BY <1>0
    <2>4. Good(L[first])
      BY <1>0, <2>1, <2>2, <2>3
    <2>5. ASSUME NEW p, Good(p)
          PROVE  p = L[first]
      <3>1. PICK k \in hits : p = L[k]
        BY <2>3, <2>5
      <3>2. first <= k /\ k \in 1..n
        BY <1>0, <2>1, <3>1
      <3>3. Preferred(f, p, L[first])
        BY <2>2, <2>5
      <3>4. ~(first < k)
        BY <1>0, <2>2, <3>1, <3>2, <3>3
      <3> QED
        BY <2>2, <3>1, <3>2, <3>4
    <2>6. L[first] = CHOOSE p : Good(p)
      <3> HIDE DEF Good
      <3> QED
        BY <2>4, <2>5
    <2> QED
      BY <2>2, <2>6 DEF Good
  <1> QED
    BY <1>1, <1>2 DEF HitsIn, Best

(* How specific an entry is, and the name it is for. *)
Size(p) == Len(p)
Name(p) == p[Len(p) - 1]

LEMMA Sizes ==
    ASSUME NEW f, NEW key, NEW v
    PROVE  /\ Size(Four(key, v)) = 4 /\ Name(Four(key, v)) = key
           /\ Size(Three(key, v)) = 3 /\ Name(Three(key, v)) = key
           /\ Size(Two(f, key, v)) = 2 /\ Name(Two(f, key, v)) = key
  <1>1. ASSUME NEW p, NEW n \in Nat, Len(p) = n, p[n - 1] = key
        PROVE  Size(p) = n /\ Name(p) = key
    BY <1>1 DEF Size, Name
  <1>2. 4 - 1 = 3 /\ 3 - 1 = 2 /\ 2 - 1 = 1
    OBVIOUS
  <1> DEFINE four == Four(key, v)
             three == Three(key, v)
             two == Two(f, key, v)
  <1>3. /\ Len(four) = 4 /\ four[3] = key /\ Len(three) = 3 /\ three[2] = key
        /\ Len(two) = 2 /\ two[1] = key
    BY EntryFacts
  <1> HIDE DEF four, three, two
  <1>4. /\ Size(four) = 4 /\ Name(four) = key
        /\ Size(three) = 3 /\ Name(three) = key
        /\ Size(two) = 2 /\ Name(two) = key
    BY <1>1, <1>2, <1>3
  <1> QED
    BY <1>4 DEF four, three, two

LEMMA PreferredIs ==
    ASSUME NEW f, NEW p, NEW q
    PROVE  /\ Name(p) = Name(q) => (Preferred(f, p, q) <=> Size(p) >= Size(q))
           /\ Name(p) # Name(q) => (Preferred(f, p, q) <=> Name(p) = fieldKey(f))
  BY DEF Preferred, Size, Name

LEMMA ThreePreferred ==
    ASSUME NEW f, NEW v, ~HasOtherName(f)
    PROVE  BestFirst(f, LookupPaths(f, v), 3)
  <1> DEFINE L == LookupPaths(f, v)
  <1>1. /\ L[1] = Four(f.source, v) /\ L[2] = Three(f.source, v) /\ L[3] = Two(f, f.source, v)
        /\ DOMAIN L = 1..3
    BY ThreeKeys
  <1> HIDE DEF L
  <1>2. /\ Size(L[1]) = 4 /\ Size(L[2]) = 3 /\ Size(L[3]) = 2
        /\ \A k \in 1..3 : Name(L[k]) = f.source
    BY <1>1, Sizes
  <1>3. \A j, k \in 1..3 : Preferred(f, L[j], L[k]) <=> Size(L[j]) >= Size(L[k])
    BY <1>2, PreferredIs
  <1>4. \A j, k \in 1..3 : /\ j <= k => Preferred(f, L[j], L[k])
                           /\ j < k => ~Preferred(f, L[k], L[j])
    <2>1. \A k \in 1..3 : Size(L[k]) = 5 - k
      BY <1>2
    <2> QED
      BY <1>3, <2>1
  <1> QED
    BY <1>1, <1>4 DEF L, BestFirst

LEMMA SixPreferred ==
    ASSUME NEW f, NEW v, HasOtherName(f)
    PROVE  BestFirst(f, LookupPaths(f, v), 6)
  <1> DEFINE L == LookupPaths(f, v)
  <1>1. /\ L[1] = Four(f.alias, v) /\ L[2] = Three(f.alias, v) /\ L[3] = Two(f, f.alias, v)
        /\ L[4] = Four(f.source, v) /\ L[5] = Three(f.source, v) /\ L[6] = Two(f, f.source, v)
        /\ DOMAIN L = 1..6
    BY SixKeys
  <1>2. f.alias # f.source /\ fieldKey(f) = f.alias
    BY DEF HasOtherName, fieldKey
  <1> HIDE DEF L
  <1>3. /\ Size(L[1]) = 4 /\ Size(L[2]) = 3 /\ Size(L[3]) = 2
        /\ Size(L[4]) = 4 /\ Size(L[5]) = 3 /\ Size(L[6]) = 2
        /\ \A k \in 1..3 : Name(L[k]) = fieldKey(f)
        /\ \A k \in 4..6 : Name(L[k]) # fieldKey(f)
        /\ \A j, k \in 4..6 : Name(L[j]) = Name(L[k])
    BY <1>1, <1>2, Sizes
  <1>4. /\ \A k \in 1..3 : Size(L[k]) = 5 - k
        /\ \A k \in 4..6 : Size(L[k]) = 8 - k
    BY <1>3
  <1>5. /\ \A j, k \in 1..3 : Preferred(f, L[j], L[k]) <=> 5 - j >= 5 - k
        /\ \A j, k \in 4..6 : Preferred(f, L[j], L[k]) <=> 8 - j >= 8 - k
        /\ \A j \in 1..3 : \A k \in 4..6 : Preferred(f, L[j], L[k]) /\ ~Preferred(f, L[k], L[j])
    BY <1>3, <1>4, PreferredIs
  <1>6. ASSUME NEW j \in 1..6, NEW k \in 1..6
        PROVE  /\ j <= k => Preferred(f, L[j], L[k])
               /\ j < k => ~Preferred(f, L[k], L[j])
    <2>1. \/ j \in 1..3 /\ k \in 1..3
          \/ j \in 4..6 /\ k \in 4..6
          \/ j \in 1..3 /\ k \in 4..6
          \/ j > k
      OBVIOUS
    <2> QED
      BY <1>5, <2>1
  <1> QED
    BY <1>1, <1>6 DEF L, BestFirst

LEMMA MostSpecific ==
    ASSUME case \in Cases, dict \in case.dicts, NEW f, NEW v
    PROVE  LET L == LookupPaths(f, v)  paths == Translations(f, v) IN
           /\ HitsIn(L) = {} => paths = {}
           /\ HitsIn(L) # {} => paths # {} /\ L[Min(HitsIn(L))] = Best(f, paths)
  <1> DEFINE L == LookupPaths(f, v)
             paths == Translations(f, v)
  <1>1. \A p : p \in paths <=> p \in DOMAIN dict /\ (Entry(f, p, f.source, v) \/ Entry(f, p, fieldKey(f), v))
    BY TranslationsAre
  <1>2. ASSUME NEW n \in Nat,
               \A p : (Entry(f, p, f.source, v) \/ Entry(f, p, fieldKey(f), v)) <=> \E k \in 1..n : p = L[k],
               BestFirst(f, L, n)
        PROVE  /\ HitsIn(L) = {} => paths = {}
               /\ HitsIn(L) # {} => paths # {} /\ L[Min(HitsIn(L))] = Best(f, paths)
    <2>1. \A p : p \in paths <=> p \in DOMAIN dict /\ \E k \in 1..n : p = L[k]
      BY <1>1, <1>2
    <2>2. ThoseOf(L, n, paths) /\ BestFirst(f, L, n)
      BY <1>2, <2>1 DEF ThoseOf
    <2> HIDE DEF L, paths
    <2> QED
      BY <1>2, <2>2, FirstIsChosen
  <1> HIDE DEF paths
  <1>3. CASE ~HasOtherName(f)
    <2>1. /\ DOMAIN L = 1..3
          /\ L[1] = Four(f.source, v) /\ L[2] = Three(f.source, v) /\ L[3] = Two(f, f.source, v)
      BY <1>3, ThreeKeys
    <2>2. fieldKey(f) = f.source
      BY <1>3 DEF HasOtherName, fieldKey
    <2>3. BestFirst(f, L, 3)
      BY <1>3, ThreePreferred
    <2> HIDE DEF L
    <2>4. \A p : (Entry(f, p, f.source, v) \/ Entry(f, p, fieldKey(f), v)) <=> \E k \in 1..3 : p = L[k]
      <3>1. \A p : (\E k \in 1..3 : p = L[k]) <=> p \in {L[1], L[2], L[3]}
        OBVIOUS
      <3> QED
        BY <2>1, <2>2, <3>1 DEF Entry
    <2> QED
      BY <1>2, <2>1, <2>3, <2>4 DEF L, paths
  <1>4. CASE HasOtherName(f)
    <2>1. /\ DOMAIN L = 1..6
          /\ L[1] = Four(f.alias, v) /\ L[2] = Three(f.alias, v) /\ L[3] = Two(f, f.alias, v)
          /\ L[4] = Four(f.source, v) /\ L[5] = Three(f.source, v) /\ L[6] = Two(f, f.source, v)
      BY <1>4, SixKeys
    <2>2. fieldKey(f) = f.alias
      BY <1>4 DEF HasOtherName, fieldKey
    <2>3. BestFirst(f, L, 6)
      BY <1>4, SixPreferred
    <2> HIDE DEF L
    <2>4. \A p : (Entry(f, p, f.source, v) \/ Entry(f, p, fieldKey(f), v)) <=> \E k \in 1..6 : p = L[k]
      <3>1. \A p : (\E k \in 1..6 : p = L[k]) <=> p \in {L[1], L[2], L[3], L[4], L[5], L[6]}
        OBVIOUS
      <3> QED
        BY <2>1, <2>2, <3>1 DEF Entry
    <2> QED
      BY <1>2, <2>1, <2>3, <2>4 DEF L, paths
  <1> QED
    BY <1>3, <1>4 DEF paths

LEMMA LocalInit ==
    ASSUME FinalizeInit
    PROVE  LocalInv
  BY DEF FinalizeInit, LocalInv

LEMMA LocalEnd ==
    ASSUME SensibleCases, ItemInv, LocalInv
    PROVE  Localized
  <1> SUFFICES ASSUME Done, NEW i \in Numbered("column"), F(i).prefix = <<>>, F(i).localize, ~F(i).internal
               PROVE  LET v == case.row[Source(i)]
                          paths == Translations(F(i), v)
                      IN  item[Target(i)] = IF paths = {} THEN v ELSE dict[Best(F(i), paths)]
    BY DEF Localized, Best
  <1>1. i \in Followed /\ Past(i) /\ stage = "done"
    BY DEF Followed, Past, Done
  <1>2. item[Target(i)] = Said(i)
    BY <1>1 DEF LocalInv
  <1>3. case \in Cases /\ dict \in case.dicts
    BY DEF ItemInv, LocalInv
  <1> DEFINE v == case.row[Source(i)]
             paths == Translations(F(i), v)
             L == LookupPaths(F(i), v)
  <1>4. /\ HitsIn(L) = {} => paths = {}
        /\ HitsIn(L) # {} => paths # {} /\ L[Min(HitsIn(L))] = Best(F(i), paths)
    BY <1>3, MostSpecific
  <1>5. Said(i) = IF HitsIn(L) = {} THEN v ELSE dict[L[Min(HitsIn(L))]]
    BY DEF Said, HitsIn
  <1> HIDE DEF v, paths, L
  <1>6. item[Target(i)] = IF paths = {} THEN v ELSE dict[Best(F(i), paths)]
    BY <1>2, <1>4, <1>5
  <1> QED
    BY <1>6 DEF v, paths

(* What the client gets for a localized column is the most specific entry   *)
(* of the dictionary for what the database holds, whatever the other fields *)
(* of the preset, their aliases and templates (applyLocalization).          *)
THEOREM LocalizedAlways ==
    ASSUME SensibleCases
    PROVE  FinalizeSpec => []Localized
  <1>1. FinalizeInit => ItemInv /\ LocalInv
    BY ItemInit, LocalInit
  <1>2. ItemInv /\ LocalInv /\ [FinalizeNext]_finalizeVars => (ItemInv /\ LocalInv)'
    BY ItemStep, LocalStep
  <1>3. ItemInv /\ LocalInv => Localized
    BY LocalEnd
  <1> QED
    BY <1>1, <1>2, <1>3, PTL DEF FinalizeSpec
-----------------------------------------------------------------------------
(* Names.                                                                  *)

(* The containers under their aliases. *)
Renamed ==
    {c \in Containers : stage = "done" \/ ~HasOtherName(F(c)) \/ (stage = "rename" /\ c \in done)}

(* Where in the item a container, or what is in it, is found, when the      *)
(* containers R have their aliases.                                         *)
ContainerAt(p, k) == CHOOSE c \in Numbered("belongs_to") : Source(c) = SubSeq(p, 1, k)
KeyIn(R, c) == IF c \in R THEN fieldKey(F(c)) ELSE F(c).source
PathIn(R, p) == [k \in DOMAIN p |-> KeyIn(R, ContainerAt(p, k))]
Below(R, i, key) == Append(PathIn(R, F(i).prefix), key)
PlaceIn(R, i) == Below(R, i, IF i \in Containers THEN KeyIn(R, i) ELSE fieldKey(F(i)))

(* Fields that answer to their names before containers are renamed. *)
Named(i) == i \notin Containers \/ F(i).template # <<>>

KnownPaths(R, V, K) ==
    {<<>>} \cup {PathIn(R, Source(c)) : c \in Containers \cap V}
    \cup {Below(R, i, fieldKey(F(i))) : i \in {j \in V : Named(j)}}
    \cup {Below(R, i, "id") : i \in K}

Knows(m, R, V, K) == DOMAIN m \subseteq KnownPaths(R, V, K)

Present(m, R, V, C) ==
    \A i \in V : /\ F(i).type # "nested_field"
                 /\ F(i).type = "formatter" => i \in C
                 /\ IsObject(m, PathIn(R, F(i).prefix))
                 => PlaceIn(R, i) \in DOMAIN m

Free(m, R) ==
    \A c \in Containers \ R : ~IsObject(m, Below(R, c, fieldKey(F(c))))

Early == {"scan", "attach", "alias", "collapse", "localize", "format", "remove"}
Left == IF stage \in Early THEN Numbers ELSE {i \in Numbers : Visible(i)}
KeysLeft == IF stage \in Early THEN Numbered("has_many") ELSE {i \in Numbered("has_many") : KeyShown(i)}
Computed == IF stage = "format" THEN done
            ELSE IF stage \in {"remove", "rename", "done"} THEN Numbers ELSE {}

KeysInv ==
    /\ stage \in {"scan", "attach", "remove", "done"} => done = {}
    /\ stage = "rename" => /\ done \subseteq Work
                           /\ \A i \in done : \A j \in Work : j < i => j \in done
    /\ stage \notin {"scan", "attach"} =>
          /\ Knows(item, Renamed, Left, KeysLeft)
          /\ Present(item, Renamed, Left, Computed)
          /\ Free(item, Renamed)
-----------------------------------------------------------------------------
(* Paths of sources, and where they lead. *)

LEMMA ChainInduction ==
    ASSUME case \in Cases, NEW S, <<>> \in S,
           \A c \in Containers : F(c).prefix \in S => Source(c) \in S
    PROVE  Chains \subseteq S
  <1> DEFINE Good == {p \in ItemPath : p \in Chains => p \in S}
  <1>1. <<>> \in Good
    BY EmptyPath
  <1>2. ASSUME NEW p \in Seq(Keys), p \in Good, NEW k \in Keys
        PROVE  Append(p, k) \in Good
    <2>1. p \in ItemPath /\ Append(p, k) \in ItemPath /\ Append(p, k) # <<>> /\ Front(Append(p, k)) = p
      BY AppendParts DEF ItemPath
    <2>2. ASSUME Append(p, k) \in Chains
          PROVE  Append(p, k) \in S
      <3>1. PICK c \in Containers : Append(p, k) = Source(c)
        BY <2>1, <2>2 DEF Chains
      <3>2. c \in Numbers /\ Front(Source(c)) = F(c).prefix
        BY FieldPaths DEF Containers, Numbered
      <3>3. p \in Chains /\ p = F(c).prefix
        BY <2>1, <3>1, <3>2, PrefixIsChain
      <3> QED
        BY <1>2, <3>1, <3>3
    <2> QED
      BY <2>1, <2>2
  <1> HIDE DEF Good
  <1>3. \A p \in Seq(Keys) : p \in Good
    BY <1>1, <1>2, InductionOnSeqs
  <1>4. Chains \subseteq ItemPath
    BY FieldPaths, EmptyPath DEF Chains, Containers, Numbered
  <1> QED
    BY <1>3, <1>4 DEF Good, ItemPath

LEMMA ContainerFacts ==
    ASSUME case \in Cases
    PROVE  /\ Chains \subseteq ItemPath /\ <<>> \in Chains
           /\ \A c \in Containers :
                 /\ c \in Numbers /\ F(c).type = "belongs_to" /\ Stored(F(c))
                 /\ F(c).prefix \in Chains /\ F(c).prefix \in ItemPath
                 /\ Source(c) \in Chains /\ Source(c) \in ItemPath /\ Source(c) # <<>>
                 /\ Source(c) = Append(F(c).prefix, F(c).source)
                 /\ F(c).source \in Keys /\ fieldKey(F(c)) \in Keys
  <1>1. \A c \in Containers : c \in Numbers /\ F(c).type = "belongs_to" /\ Stored(F(c))
    BY DEF Containers, Numbered, Stored
  <1>2. \A c \in Containers :
          /\ F(c).prefix \in Chains /\ F(c).prefix \in ItemPath
          /\ Source(c) \in ItemPath /\ Source(c) # <<>>
          /\ F(c).source \in Keys /\ fieldKey(F(c)) \in Keys
    BY <1>1, CaseFields, FieldPaths, PrefixIsChain
  <1>3. \A c \in Containers : Source(c) \in Chains /\ Source(c) = Append(F(c).prefix, F(c).source)
    BY DEF Chains, Source
  <1> QED
    BY <1>1, <1>2, <1>3, EmptyPath DEF Chains

LEMMA BeginOfAppended ==
    ASSUME NEW S, NEW p \in Seq(S), NEW x \in S
    PROVE  /\ \A k \in 1..Len(p) : SubSeq(Append(p, x), 1, k) = SubSeq(p, 1, k)
           /\ SubSeq(Append(p, x), 1, Len(p) + 1) = Append(p, x)
  <1>1. SubSeq(Append(p, x), 1, Len(p) + 1) = Append(p, x)
    OBVIOUS
  <1>2. ASSUME NEW k \in 1..Len(p)
        PROVE  SubSeq(Append(p, x), 1, k) = SubSeq(p, 1, k)
    OBVIOUS
  <1> QED
    BY <1>1, <1>2

(* The path to a container goes through the one around it. *)
LEMMA PathStep ==
    ASSUME SensibleCases, case \in Cases, NEW R, NEW c \in Containers
    PROVE  PathIn(R, Source(c)) = Append(PathIn(R, F(c).prefix), KeyIn(R, c))
  <1> DEFINE p == F(c).prefix
             n == Len(p)
             s == Source(c)
             x == F(c).source
  <1>0. p \in ItemPath /\ x \in Keys /\ s = Append(p, x) /\ s \in ItemPath
    BY ContainerFacts
  <1>1. n \in Nat /\ DOMAIN p = 1..n /\ Len(s) = n + 1 /\ DOMAIN s = 1..(n + 1)
    BY <1>0, AppendParts DEF ItemPath
  <1>2. /\ \A k \in 1..n : SubSeq(s, 1, k) = SubSeq(p, 1, k)
        /\ SubSeq(s, 1, n + 1) = s
    BY <1>0, BeginOfAppended DEF ItemPath
  <1>3. \A k \in 1..n : ContainerAt(s, k) = ContainerAt(p, k)
    BY <1>2 DEF ContainerAt
  <1>4. ContainerAt(s, n + 1) = c
    <2>1. \A d \in Containers : Source(d) = s => d = c
      BY OneContainer
    <2>2. ContainerAt(s, n + 1) = CHOOSE d \in Containers : Source(d) = s
      BY <1>2 DEF ContainerAt, Containers
    <2> QED
      BY <2>1, <2>2
  <1> HIDE DEF p, n, s, x
  <1>5. PathIn(R, p) = [k \in 1..n |-> KeyIn(R, ContainerAt(p, k))]
    BY <1>1 DEF PathIn
  <1>6. PathIn(R, s) = [k \in 1..(n + 1) |-> KeyIn(R, ContainerAt(s, k))]
    BY <1>1 DEF PathIn
  <1>7. Len(PathIn(R, p)) = n
    BY <1>1, <1>5
  <1>8. Append(PathIn(R, p), KeyIn(R, c)) =
          [k \in 1..(n + 1) |-> IF k = n + 1 THEN KeyIn(R, c) ELSE PathIn(R, p)[k]]
    BY <1>1, <1>5, <1>7
  <1>9. \A k \in 1..(n + 1) : KeyIn(R, ContainerAt(s, k)) =
          IF k = n + 1 THEN KeyIn(R, c) ELSE PathIn(R, p)[k]
    <2> SUFFICES ASSUME NEW k \in 1..(n + 1)
                 PROVE  KeyIn(R, ContainerAt(s, k)) =
                          IF k = n + 1 THEN KeyIn(R, c) ELSE PathIn(R, p)[k]
      OBVIOUS
    <2>1. CASE k = n + 1
      BY <1>4, <2>1
    <2>2. CASE k # n + 1
      <3>1. k \in 1..n
        BY <1>1, <2>2
      <3> QED
        BY <1>3, <1>5, <2>2, <3>1
    <2> QED
      BY <2>1, <2>2
  <1>10. PathIn(R, s) = Append(PathIn(R, p), KeyIn(R, c))
    BY <1>6, <1>8, <1>9
  <1> QED
    BY <1>10 DEF p, s

LEMMA EmptyIn ==
    ASSUME NEW R
    PROVE  PathIn(R, <<>>) = <<>>
  <1>1. DOMAIN <<>> = {}
    OBVIOUS
  <1> QED
    BY <1>1 DEF PathIn

LEMMA PathsInItem ==
    ASSUME SensibleCases, case \in Cases, NEW R
    PROVE  \A p \in Chains : PathIn(R, p) \in ItemPath /\ Len(PathIn(R, p)) = Len(p)
  <1> DEFINE S == {p \in Chains : PathIn(R, p) \in ItemPath /\ Len(PathIn(R, p)) = Len(p)}
  <1>1. <<>> \in S
    BY EmptyIn, EmptyPath, ContainerFacts
  <1>2. ASSUME NEW c \in Containers, F(c).prefix \in S
        PROVE  Source(c) \in S
    <2>1. KeyIn(R, c) \in Keys
      BY ContainerFacts DEF KeyIn
    <2>2. PathIn(R, Source(c)) = Append(PathIn(R, F(c).prefix), KeyIn(R, c))
      BY PathStep
    <2>3. /\ PathIn(R, F(c).prefix) \in ItemPath /\ F(c).prefix \in ItemPath
          /\ Len(PathIn(R, F(c).prefix)) = Len(F(c).prefix)
      BY <1>2, ContainerFacts
    <2>4. /\ Append(PathIn(R, F(c).prefix), KeyIn(R, c)) \in ItemPath
          /\ Len(Append(PathIn(R, F(c).prefix), KeyIn(R, c))) = Len(PathIn(R, F(c).prefix)) + 1
      BY <2>1, <2>3, AppendParts
    <2>5. Len(Append(F(c).prefix, F(c).source)) = Len(F(c).prefix) + 1
      BY <2>3, ContainerFacts, AppendParts
    <2>6. Source(c) = Append(F(c).prefix, F(c).source) /\ Source(c) \in Chains
      BY ContainerFacts
    <2> QED
      BY <2>2, <2>3, <2>4, <2>5, <2>6
  <1> HIDE DEF S
  <1>3. Chains \subseteq S
    BY <1>1, <1>2, ChainInduction
  <1> QED
    BY <1>3 DEF S

LEMMA KeysApart ==
    ASSUME SensibleCases, case \in Cases, NEW R, NEW c \in Containers, NEW d \in Containers,
           F(c).prefix = F(d).prefix, KeyIn(R, c) = KeyIn(R, d)
    PROVE  c = d
  <1> SUFFICES ASSUME c # d PROVE FALSE
    OBVIOUS
  <1>1. /\ c \in Numbers /\ F(c).type # "formatter" /\ Stored(F(c))
        /\ d \in Numbers /\ F(d).type # "formatter" /\ Stored(F(d))
    BY ContainerFacts
  <1>2. fieldKey(F(c)) # fieldKey(F(d)) /\ fieldKey(F(c)) # F(d).source /\ F(c).source # F(d).source
    BY <1>1, Apart
  <1>3. fieldKey(F(d)) # F(c).source
    BY <1>1, Apart
  <1> QED
    BY <1>2, <1>3 DEF KeyIn

LEMMA OnlyItemIsEmpty ==
    ASSUME SensibleCases, case \in Cases, NEW R, NEW c \in Containers
    PROVE  PathIn(R, Source(c)) # <<>>
  <1>1. PathIn(R, F(c).prefix) \in ItemPath /\ KeyIn(R, c) \in Keys
    BY PathsInItem, ContainerFacts DEF KeyIn
  <1> QED
    BY <1>1, PathStep, AppendParts

(* No two containers are in one place. *)
LEMMA PlacesApart ==
    ASSUME SensibleCases, case \in Cases, NEW R
    PROVE  \A p, q \in Chains : PathIn(R, p) = PathIn(R, q) => p = q
  <1> DEFINE S == {p \in Chains : \A q \in Chains : PathIn(R, p) = PathIn(R, q) => p = q}
  <1>1. <<>> \in S
    <2>1. \A q \in Chains : PathIn(R, q) = <<>> => q = <<>>
      BY OnlyItemIsEmpty DEF Chains
    <2> QED
      BY <2>1, EmptyIn, ContainerFacts
  <1>2. ASSUME NEW c \in Containers, F(c).prefix \in S
        PROVE  Source(c) \in S
    <2>1. ASSUME NEW q \in Chains, PathIn(R, Source(c)) = PathIn(R, q)
          PROVE  Source(c) = q
      <3>1. q # <<>>
        BY <2>1, EmptyIn, OnlyItemIsEmpty
      <3>2. PICK d \in Containers : q = Source(d)
        BY <3>1 DEF Chains
      <3>3. /\ PathIn(R, F(c).prefix) \in ItemPath /\ PathIn(R, F(d).prefix) \in ItemPath
            /\ KeyIn(R, c) \in Keys /\ KeyIn(R, d) \in Keys
        BY PathsInItem, ContainerFacts DEF KeyIn
      <3>4. Append(PathIn(R, F(c).prefix), KeyIn(R, c)) = Append(PathIn(R, F(d).prefix), KeyIn(R, d))
        BY <2>1, <3>2, PathStep
      <3>5. PathIn(R, F(c).prefix) = PathIn(R, F(d).prefix) /\ KeyIn(R, c) = KeyIn(R, d)
        BY <3>3, <3>4, AppendedAlike
      <3>6. F(c).prefix = F(d).prefix
        BY <1>2, <3>5, ContainerFacts
      <3> QED
        BY <3>2, <3>5, <3>6, KeysApart
    <2> QED
      BY <2>1, ContainerFacts
  <1> HIDE DEF S
  <1>3. Chains \subseteq S
    BY <1>1, <1>2, ChainInduction
  <1> QED
    BY <1>3 DEF S

(* One is in another exactly if its path of sources leads through it. *)
LEMMA PlacesNested ==
    ASSUME SensibleCases, case \in Cases, NEW R
    PROVE  \A p, q \in Chains : /\ IsPrefix(PathIn(R, q), PathIn(R, p)) => IsPrefix(q, p)
                                /\ IsPrefix(q, p) => IsPrefix(PathIn(R, q), PathIn(R, p))
  <1> DEFINE S == {p \in Chains : \A q \in Chains :
                      /\ IsPrefix(PathIn(R, q), PathIn(R, p)) => IsPrefix(q, p)
                      /\ IsPrefix(q, p) => IsPrefix(PathIn(R, q), PathIn(R, p))}
  <1>1. <<>> \in S
    <2>1. ASSUME NEW q \in Chains
          PROVE  /\ IsPrefix(PathIn(R, q), PathIn(R, <<>>)) => IsPrefix(q, <<>>)
                 /\ IsPrefix(q, <<>>) => IsPrefix(PathIn(R, q), PathIn(R, <<>>))
      <3>1. q \in ItemPath /\ PathIn(R, q) \in ItemPath /\ PathIn(R, <<>>) = <<>> /\ <<>> \in Chains
        BY PathsInItem, ContainerFacts, EmptyIn
      <3>2. IsPrefix(PathIn(R, q), <<>>) => PathIn(R, q) = <<>>
        BY <3>1, OnlyEmptyBeginsEmpty
      <3>3. PathIn(R, q) = <<>> => q = <<>>
        BY <3>1, PlacesApart
      <3>4. IsPrefix(q, <<>>) => q = <<>>
        BY <3>1, OnlyEmptyBeginsEmpty
      <3>5. IsPrefix(<<>>, <<>>)
        BY EmptyPath, PrefixFacts
      <3> QED
        BY <3>1, <3>2, <3>3, <3>4, <3>5
    <2> QED
      BY <2>1, ContainerFacts
  <1>2. ASSUME NEW c \in Containers, F(c).prefix \in S
        PROVE  Source(c) \in S
    <2>1. ASSUME NEW q \in Chains
          PROVE  /\ IsPrefix(PathIn(R, q), PathIn(R, Source(c))) => IsPrefix(q, Source(c))
                 /\ IsPrefix(q, Source(c)) => IsPrefix(PathIn(R, q), PathIn(R, Source(c)))
      <3> DEFINE p == F(c).prefix
                 s == Source(c)
      <3>1. /\ q \in ItemPath /\ PathIn(R, q) \in ItemPath /\ p \in ItemPath /\ PathIn(R, p) \in ItemPath
            /\ KeyIn(R, c) \in Keys /\ F(c).source \in Keys /\ s = Append(p, F(c).source)
            /\ PathIn(R, s) = Append(PathIn(R, p), KeyIn(R, c)) /\ s \in Chains
        BY PathsInItem, ContainerFacts, PathStep DEF KeyIn
      <3>2. IsPrefix(q, s) <=> IsPrefix(q, p) \/ q = s
        BY <3>1, PrefixFacts
      <3>3. IsPrefix(PathIn(R, q), PathIn(R, s)) <=> IsPrefix(PathIn(R, q), PathIn(R, p)) \/ PathIn(R, q) = PathIn(R, s)
        BY <3>1, PrefixFacts
      <3>4. PathIn(R, q) = PathIn(R, s) => q = s
        BY <3>1, PlacesApart
      <3>5. IsPrefix(PathIn(R, q), PathIn(R, p)) <=> IsPrefix(q, p)
        BY <1>2
      <3> HIDE DEF p, s
      <3>6. /\ IsPrefix(PathIn(R, q), PathIn(R, s)) => IsPrefix(q, s)
            /\ IsPrefix(q, s) => IsPrefix(PathIn(R, q), PathIn(R, s))
        BY <3>2, <3>3, <3>4, <3>5
      <3> QED
        BY <3>6 DEF s
    <2> QED
      BY <2>1, ContainerFacts
  <1> HIDE DEF S
  <1>3. Chains \subseteq S
    BY <1>1, <1>2, ChainInduction
  <1> QED
    BY <1>3 DEF S

(* Where no container on the way has another name the path is that of sources. *)
LEMMA PathUnchanged ==
    ASSUME SensibleCases, case \in Cases, NEW R
    PROVE  \A p \in Chains :
              (\A c \in Containers : IsPrefix(Source(c), p) /\ c \in R => ~HasOtherName(F(c)))
                => PathIn(R, p) = p
  <1> DEFINE Plain(p) == \A c \in Containers : IsPrefix(Source(c), p) /\ c \in R => ~HasOtherName(F(c))
             S == {p \in Chains : Plain(p) => PathIn(R, p) = p}
  <1>1. <<>> \in S
    BY EmptyIn, ContainerFacts
  <1>2. ASSUME NEW c \in Containers, F(c).prefix \in S
        PROVE  Source(c) \in S
    <2>1. ASSUME Plain(Source(c))
          PROVE  PathIn(R, Source(c)) = Source(c)
      <3>1. /\ F(c).prefix \in ItemPath /\ F(c).source \in Keys
            /\ Source(c) = Append(F(c).prefix, F(c).source) /\ Source(c) \in ItemPath
        BY ContainerFacts
      <3>2. \A d \in Containers : IsPrefix(Source(d), F(c).prefix) => IsPrefix(Source(d), Source(c))
        BY <3>1, ContainerFacts, PrefixFacts
      <3>3. Plain(F(c).prefix)
        BY <2>1, <3>2
      <3>4. PathIn(R, F(c).prefix) = F(c).prefix
        BY <1>2, <3>3
      <3>5. KeyIn(R, c) = F(c).source
        <4>1. IsPrefix(Source(c), Source(c))
          BY <3>1, PrefixFacts
        <4>2. c \in R => ~HasOtherName(F(c))
          BY <2>1, <4>1
        <4>3. ~HasOtherName(F(c)) => fieldKey(F(c)) = F(c).source
          BY ContainerFacts, FieldPaths
        <4> QED
          BY <4>2, <4>3 DEF KeyIn
      <3> QED
        BY <3>1, <3>4, <3>5, PathStep
    <2> QED
      BY <2>1, ContainerFacts
  <1> HIDE DEF S
  <1>3. Chains \subseteq S
    BY <1>1, <1>2, ChainInduction
  <1> QED
    BY <1>3 DEF S

LEMMA ClientPathIs ==
    ASSUME SensibleCases, case \in Cases
    PROVE  \A p \in Chains : PathIn(Containers, p) = ClientPath(p)
  <1> SUFFICES ASSUME NEW p \in Chains
               PROVE  PathIn(Containers, p) = ClientPath(p)
    OBVIOUS
  <1>1. ASSUME NEW k \in DOMAIN p
        PROVE  ContainerAt(p, k) \in Containers
    <2>1. p \in ItemPath /\ Len(p) \in Nat /\ DOMAIN p = 1..Len(p) /\ k \in 1..Len(p)
      BY ContainerFacts DEF ItemPath
    <2>2. SubSeq(p, 1, k) \in ItemPath /\ Len(SubSeq(p, 1, k)) = k /\ \A n \in 1..k : SubSeq(p, 1, k)[n] = p[n]
      BY <2>1 DEF ItemPath
    <2> DEFINE s == SubSeq(p, 1, k)
    <2>3. IsPrefix(s, p)
      <3>1. s \in ItemPath /\ Len(s) = k /\ k <= Len(p) /\ \A n \in 1..k : s[n] = p[n]
        BY <2>1, <2>2
      <3> HIDE DEF s
      <3>2. Len(s) <= Len(p) /\ \A n \in 1..Len(s) : s[n] = p[n]
        BY <3>1
      <3> QED
        BY <2>1, <3>1, <3>2, PrefixPointwise
    <2>4. SubSeq(p, 1, k) \in Chains /\ SubSeq(p, 1, k) # <<>>
      BY <2>1, <2>2, <2>3, ChainsClosed
    <2>5. \E c \in Containers : Source(c) = SubSeq(p, 1, k)
      BY <2>4 DEF Chains
    <2> QED
      BY <2>5 DEF ContainerAt, Containers
  <1>2. \A k \in DOMAIN p : KeyIn(Containers, ContainerAt(p, k)) = fieldKey(F(ContainerAt(p, k)))
    BY <1>1 DEF KeyIn
  <1>3. ClientPath(p) = [k \in DOMAIN p |-> fieldKey(F(ContainerAt(p, k)))]
    BY DEF ClientPath, ContainerAt
  <1> QED
    BY <1>2, <1>3 DEF PathIn

LEMMA BelowFacts ==
    ASSUME SensibleCases, case \in Cases, NEW R, NEW i \in Numbers, NEW key \in Keys
    PROVE  /\ PathIn(R, F(i).prefix) \in ItemPath /\ F(i).prefix \in Chains
           /\ Below(R, i, key) = Append(PathIn(R, F(i).prefix), key)
           /\ Below(R, i, key) \in ItemPath /\ Below(R, i, key) # <<>>
           /\ Front(Below(R, i, key)) = PathIn(R, F(i).prefix)
  <1>1. PathIn(R, F(i).prefix) \in ItemPath /\ F(i).prefix \in Chains
    BY PrefixIsChain, PathsInItem
  <1> QED
    BY <1>1, AppendParts DEF Below

LEMMA BelowAlike ==
    ASSUME SensibleCases, case \in Cases, NEW R, NEW i \in Numbers, NEW j \in Numbers,
           NEW k \in Keys, NEW l \in Keys, Below(R, i, k) = Below(R, j, l)
    PROVE  F(i).prefix = F(j).prefix /\ k = l
  <1>0. /\ PathIn(R, F(i).prefix) \in ItemPath /\ PathIn(R, F(j).prefix) \in ItemPath
        /\ Append(PathIn(R, F(i).prefix), k) = Append(PathIn(R, F(j).prefix), l)
    BY BelowFacts
  <1>1. PathIn(R, F(i).prefix) = PathIn(R, F(j).prefix) /\ k = l
    BY <1>0, AppendedAlike
  <1> QED
    BY <1>1, PlacesApart, PrefixIsChain

LEMMA ContainerPlace ==
    ASSUME SensibleCases, case \in Cases, NEW R, NEW c \in Containers
    PROVE  /\ KeyIn(R, c) \in Keys
           /\ PathIn(R, Source(c)) = Below(R, c, KeyIn(R, c))
           /\ PlaceIn(R, c) = PathIn(R, Source(c))
  BY PathStep, ContainerFacts DEF KeyIn, Below, PlaceIn

(* A container that is about to get its alias, and its contents with it. *)
Ready(R, i) == i \in Containers \ R /\ PathIn(R, Source(i)) = Source(i)

LEMMA ReadyFacts ==
    ASSUME SensibleCases, case \in Cases, NEW R, NEW i, Ready(R, i)
    PROVE  /\ i \in Containers /\ i \in Numbers /\ i \notin R
           /\ Source(i) \in Chains /\ Source(i) \in ItemPath /\ Source(i) # <<>>
           /\ Front(Source(i)) = F(i).prefix /\ fieldKey(F(i)) \in Keys
           /\ Append(Front(Source(i)), fieldKey(F(i))) = Target(i)
           /\ PathIn(R, Source(i)) = Source(i) /\ PathIn(R, F(i).prefix) = F(i).prefix
           /\ ~IsPrefix(Source(i), F(i).prefix)
           /\ Target(i) = Below(R, i, fieldKey(F(i)))
           /\ Source(i) = Below(R, i, F(i).source)
  <1>1. i \in Containers /\ i \notin R /\ PathIn(R, Source(i)) = Source(i)
    BY DEF Ready
  <1>2. /\ i \in Numbers /\ Source(i) \in Chains /\ Source(i) \in ItemPath /\ Source(i) # <<>>
        /\ Source(i) = Append(F(i).prefix, F(i).source) /\ F(i).prefix \in ItemPath
        /\ F(i).source \in Keys /\ fieldKey(F(i)) \in Keys /\ F(i).prefix \in Chains
    BY <1>1, ContainerFacts
  <1>3. Front(Source(i)) = F(i).prefix
    BY <1>2, FieldPaths
  <1>4. PathIn(R, F(i).prefix) = F(i).prefix
    <2>1. PathIn(R, F(i).prefix) \in ItemPath /\ KeyIn(R, i) \in Keys
      BY <1>1, <1>2, PathsInItem, ContainerPlace
    <2>2. Append(PathIn(R, F(i).prefix), KeyIn(R, i)) = Append(F(i).prefix, F(i).source)
      BY <1>1, <1>2, PathStep
    <2> QED
      BY <1>2, <2>1, <2>2, AppendedAlike
  <1>5. ~IsPrefix(Source(i), F(i).prefix)
    <2>1. Len(Append(F(i).prefix, F(i).source)) = Len(F(i).prefix) + 1 /\ Len(F(i).prefix) \in Nat
      BY <1>2, AppendParts
    <2>2. Len(Source(i)) = Len(F(i).prefix) + 1
      BY <1>2, <2>1
    <2>3. IsPrefix(Source(i), F(i).prefix) => Len(Source(i)) <= Len(F(i).prefix)
      BY <1>2, PrefixPointwise
    <2> QED
      BY <2>1, <2>2, <2>3
  <1> QED
    BY <1>1, <1>2, <1>3, <1>4, <1>5 DEF Target, Below

LEMMA PathRenamed ==
    ASSUME SensibleCases, case \in Cases, NEW R, NEW i, Ready(R, i)
    PROVE  \A p \in Chains :
              /\ IsPrefix(Source(i), p) =>
                    PathIn(R \cup {i}, p) = Relabel(PathIn(R, p), Len(Source(i)), fieldKey(F(i)))
              /\ ~IsPrefix(Source(i), p) => PathIn(R \cup {i}, p) = PathIn(R, p)
  <1> DEFINE T == R \cup {i}
             s == Source(i)
             n == Len(s)
             key == fieldKey(F(i))
             S == {p \in Chains : /\ IsPrefix(s, p) => PathIn(T, p) = Relabel(PathIn(R, p), n, key)
                                  /\ ~IsPrefix(s, p) => PathIn(T, p) = PathIn(R, p)}
  <1>0. /\ i \in Containers /\ i \notin R /\ s \in Chains /\ s \in ItemPath /\ s # <<>> /\ key \in Keys
        /\ PathIn(R, s) = s /\ Front(s) = F(i).prefix
        /\ PathIn(R, F(i).prefix) = F(i).prefix /\ ~IsPrefix(s, F(i).prefix)
    BY ReadyFacts
  <1>1. <<>> \in S
    <2>1. ~IsPrefix(s, <<>>)
      BY <1>0, OnlyEmptyBeginsEmpty
    <2> QED
      BY <2>1, EmptyIn, ContainerFacts
  <1>2. ASSUME NEW c \in Containers, F(c).prefix \in S
        PROVE  Source(c) \in S
    <2> DEFINE p == F(c).prefix
               q == Source(c)
    <2>1. /\ p \in Chains /\ p \in ItemPath /\ q \in Chains /\ q = Append(p, F(c).source) /\ F(c).source \in Keys
          /\ PathIn(R, p) \in ItemPath /\ KeyIn(R, c) \in Keys
          /\ PathIn(R, q) = Append(PathIn(R, p), KeyIn(R, c))
          /\ PathIn(T, q) = Append(PathIn(T, p), KeyIn(T, c))
      BY ContainerFacts, PathsInItem, ContainerPlace, PathStep
    <2>2. IsPrefix(s, q) <=> IsPrefix(s, p) \/ s = q
      BY <1>0, <2>1, PrefixFacts
    <2>3. /\ IsPrefix(s, p) => PathIn(T, p) = Relabel(PathIn(R, p), n, key)
          /\ ~IsPrefix(s, p) => PathIn(T, p) = PathIn(R, p)
      BY <1>2
    <2>4. CASE c = i
      <3>1. q = s /\ ~IsPrefix(s, p) /\ KeyIn(T, c) = key /\ PathIn(R, q) = s
        BY <1>0, <2>4 DEF KeyIn
      <3>2. IsPrefix(s, s)
        BY <1>0, PrefixFacts
      <3>3. Relabel(s, n, key) = Append(Front(s), key)
        BY <1>0, <3>2, Relabelled
      <3>4. PathIn(T, q) = Append(Front(s), key)
        BY <1>0, <2>1, <2>3, <2>4, <3>1
      <3>5. PathIn(T, q) = Relabel(PathIn(R, q), n, key) /\ IsPrefix(s, q)
        BY <3>1, <3>2, <3>3, <3>4
      <3> QED
        BY <2>1, <3>5
    <2>5. CASE c # i
      <3>1. s # q
        BY <1>0, <2>5, OneContainer
      <3>2. KeyIn(T, c) = KeyIn(R, c)
        BY <2>5 DEF KeyIn
      <3>3. CASE IsPrefix(s, p)
        <4>1. IsPrefix(s, PathIn(R, p))
          BY <1>0, <2>1, <3>3, PlacesNested
        <4>2. Relabel(Append(PathIn(R, p), KeyIn(R, c)), n, key) = Append(Relabel(PathIn(R, p), n, key), KeyIn(R, c))
          BY <1>0, <2>1, <4>1, RelabelLonger
        <4>3. PathIn(T, q) = Relabel(PathIn(R, q), n, key) /\ IsPrefix(s, q)
          BY <2>1, <2>2, <2>3, <3>2, <3>3, <4>2
        <4> QED
          BY <2>1, <4>3
      <3>4. CASE ~IsPrefix(s, p)
        <4>1. PathIn(T, q) = PathIn(R, q) /\ ~IsPrefix(s, q)
          BY <2>1, <2>2, <2>3, <3>1, <3>2, <3>4
        <4> QED
          BY <2>1, <4>1
      <3> QED
        BY <3>3, <3>4
    <2> QED
      BY <2>4, <2>5
  <1> HIDE DEF S
  <1>3. Chains \subseteq S
    BY <1>1, <1>2, ChainInduction
  <1> QED
    BY <1>3 DEF S

LEMMA BelowRenamed ==
    ASSUME SensibleCases, case \in Cases, NEW R, NEW i, Ready(R, i), NEW j \in Numbers, NEW k \in Keys
    PROVE  /\ IsPrefix(Source(i), F(j).prefix) =>
                 /\ IsPrefix(Source(i), Below(R, j, k))
                 /\ IsPrefix(Source(i), PathIn(R, F(j).prefix))
                 /\ Below(R \cup {i}, j, k) = Relabel(Below(R, j, k), Len(Source(i)), fieldKey(F(i)))
           /\ ~IsPrefix(Source(i), F(j).prefix) =>
                 /\ Below(R \cup {i}, j, k) = Below(R, j, k)
                 /\ ~IsPrefix(Source(i), PathIn(R, F(j).prefix))
                 /\ IsPrefix(Source(i), Below(R, j, k)) => F(j).prefix = F(i).prefix /\ k = F(i).source
  <1> DEFINE T == R \cup {i}
             s == Source(i)
             n == Len(s)
             key == fieldKey(F(i))
             p == F(j).prefix
  <1>0. /\ s \in Chains /\ s \in ItemPath /\ s # <<>> /\ key \in Keys /\ i \in Containers /\ i \in Numbers
        /\ PathIn(R, s) = s /\ s = Below(R, i, F(i).source) /\ F(i).source \in Keys
    BY ReadyFacts, ContainerFacts
  <1>1. /\ p \in Chains /\ PathIn(R, p) \in ItemPath /\ Below(R, j, k) = Append(PathIn(R, p), k)
        /\ Below(T, j, k) = Append(PathIn(T, p), k)
    BY BelowFacts DEF Below
  <1>2. /\ IsPrefix(s, p) => PathIn(T, p) = Relabel(PathIn(R, p), n, key)
        /\ ~IsPrefix(s, p) => PathIn(T, p) = PathIn(R, p)
    BY <1>1, PathRenamed
  <1>3. IsPrefix(s, PathIn(R, p)) <=> IsPrefix(s, p)
    <2>1. /\ IsPrefix(PathIn(R, s), PathIn(R, p)) => IsPrefix(s, p)
          /\ IsPrefix(s, p) => IsPrefix(PathIn(R, s), PathIn(R, p))
      BY <1>0, <1>1, PlacesNested
    <2> QED
      BY <1>0, <2>1
  <1>4. IsPrefix(s, Append(PathIn(R, p), k)) <=> IsPrefix(s, PathIn(R, p)) \/ s = Append(PathIn(R, p), k)
    BY <1>0, <1>1, PrefixFacts
  <1>5. s = Below(R, j, k) => F(j).prefix = F(i).prefix /\ k = F(i).source
    <2> SUFFICES ASSUME s = Below(R, j, k)
                 PROVE  F(j).prefix = F(i).prefix /\ k = F(i).source
      OBVIOUS
    <2>1. Below(R, i, F(i).source) = Below(R, j, k)
      BY <1>0
    <2>2. \A x, y \in Keys : Below(R, i, x) = Below(R, j, y) => F(i).prefix = F(j).prefix /\ x = y
      BY <1>0, BelowAlike
    <2> QED
      BY <1>0, <2>1, <2>2
  <1>6. IsPrefix(s, PathIn(R, p)) =>
          Relabel(Append(PathIn(R, p), k), n, key) = Append(Relabel(PathIn(R, p), n, key), k)
    BY <1>0, <1>1, RelabelLonger
  <1> QED
    BY <1>1, <1>2, <1>3, <1>4, <1>5, <1>6
-----------------------------------------------------------------------------
(* Before containers are renamed. *)

Unrenamed == {c \in Containers : ~HasOtherName(F(c))}

LEMMA PlainPaths ==
    ASSUME SensibleCases, case \in Cases
    PROVE  /\ \A p \in Chains : PathIn(Unrenamed, p) = p
           /\ \A i \in Numbers : \A k \in Keys : Below(Unrenamed, i, k) = Append(F(i).prefix, k)
           /\ \A i \in Numbers : Below(Unrenamed, i, fieldKey(F(i))) = Target(i)
           /\ \A c \in Containers : PlaceIn(Unrenamed, c) = Source(c)
           /\ \A i \in Numbers \ Containers : PlaceIn(Unrenamed, i) = Target(i)
           /\ \A i \in Numbers : PlaceIn(Unrenamed, i) \in ItemPath /\ PlaceIn(Unrenamed, i) # <<>>
                                 /\ Front(PlaceIn(Unrenamed, i)) = F(i).prefix
  <1>1. \A p \in Chains : PathIn(Unrenamed, p) = p
    BY PathUnchanged DEF Unrenamed
  <1>2. \A i \in Numbers : F(i).prefix \in Chains /\ PathIn(Unrenamed, F(i).prefix) = F(i).prefix
    BY <1>1, PrefixIsChain
  <1>3. \A i \in Numbers : \A k \in Keys : Below(Unrenamed, i, k) = Append(F(i).prefix, k)
    BY <1>2 DEF Below
  <1>4. \A i \in Numbers : Below(Unrenamed, i, fieldKey(F(i))) = Target(i)
    BY <1>2 DEF Below, Target
  <1>5. \A c \in Containers : PlaceIn(Unrenamed, c) = Source(c)
    BY <1>1, ContainerPlace, ContainerFacts
  <1>6. \A i \in Numbers \ Containers : PlaceIn(Unrenamed, i) = Target(i)
    BY <1>4 DEF PlaceIn
  <1>7. \A i \in Numbers : PlaceIn(Unrenamed, i) \in ItemPath /\ PlaceIn(Unrenamed, i) # <<>>
                           /\ Front(PlaceIn(Unrenamed, i)) = F(i).prefix
    BY <1>5, <1>6, FieldPaths
  <1> QED
    BY <1>1, <1>3, <1>4, <1>5, <1>6, <1>7

LEMMA TargetsFree ==
    ASSUME SensibleCases, case \in Cases, NEW m, Filled(m), NEW c \in Containers, HasOtherName(F(c))
    PROVE  Target(c) \notin DOMAIN m
  <1>0. c \in Numbers /\ F(c).type = "belongs_to" /\ Target(c) \in ItemPath /\ Target(c) # <<>>
        /\ fieldKey(F(c)) # F(c).source
    BY ContainerFacts, FieldPaths
  <1>1. ASSUME NEW d \in Containers, Target(c) = Source(d)
        PROVE  FALSE
    <2>1. d \in Numbers /\ F(d).type = "belongs_to"
      BY ContainerFacts
    <2>2. F(c).prefix = F(d).prefix /\ fieldKey(F(c)) = F(d).source
      BY <1>0, <1>1, <2>1, FieldPaths
    <2> QED
      BY <1>0, <2>1, <2>2, Apart
  <1>2. ASSUME NEW j \in Numbers, ReadsColumn(j), Target(c) = ColumnPath(j)
        PROVE  FALSE
    <2>1. F(c).prefix = F(j).prefix /\ fieldKey(F(c)) = ColumnName(j)
      BY <1>0, <1>2, FieldPaths, ColumnPaths
    <2>2. CASE F(j).type = "has_many"
      BY <1>0, <2>1, <2>2, IdOfRows DEF ColumnName
    <2>3. CASE F(j).type = "column"
      BY <1>0, <2>1, <2>3, Apart DEF ColumnName
    <2> QED
      BY <1>2, <2>2, <2>3 DEF ReadsColumn
  <1>3. ASSUME NEW j \in Numbered("has_many"), Target(c) = Target(j)
        PROVE  FALSE
    <2>1. j \in Numbers /\ F(j).type = "has_many"
      BY DEF Numbered
    <2>2. F(c).prefix = F(j).prefix /\ fieldKey(F(c)) = fieldKey(F(j))
      BY <1>0, <1>3, <2>1, FieldPaths
    <2> QED
      BY <1>0, <2>1, <2>2, Apart
  <1>4. Target(c) \notin Chains
    BY <1>0, <1>1 DEF Chains
  <1>5. Target(c) \notin AllColumns /\ Target(c) \notin HasManyPaths
    BY <1>2, <1>3 DEF AllColumns, HasManyPaths
  <1> QED
    BY <1>4, <1>5 DEF Filled

LEMMA FilledKnows ==
    ASSUME SensibleCases, case \in Cases, NEW m, Filled(m), HasManyPaths \subseteq DOMAIN m
    PROVE  /\ Knows(m, Unrenamed, Numbers, Numbered("has_many"))
           /\ Present(m, Unrenamed, Numbers, {})
           /\ Free(m, Unrenamed)
  <1> DEFINE Paths == KnownPaths(Unrenamed, Numbers, Numbered("has_many"))
  <1>1. Chains \subseteq Paths
    BY PlainPaths, ContainerFacts DEF Chains, KnownPaths
  <1>2. ASSUME NEW i \in Numbers, F(i).type \in {"column", "has_many"}
        PROVE  Target(i) \in Paths
    <2>1. Named(i)
      BY <1>2 DEF Named, Containers, Numbered
    <2>2. Below(Unrenamed, i, fieldKey(F(i))) \in Paths
      BY <2>1 DEF KnownPaths
    <2> QED
      BY <2>2, PlainPaths
  <1>3. ASSUME NEW i \in Numbers, F(i).type = "has_many"
        PROVE  Append(F(i).prefix, "id") \in Paths
    <2>1. i \in Numbered("has_many") /\ "id" \in Keys
      BY <1>3 DEF Numbered, Keys
    <2>2. Below(Unrenamed, i, "id") \in Paths
      BY <2>1 DEF KnownPaths
    <2> QED
      BY <2>1, <2>2, PlainPaths
  <1>4. Knows(m, Unrenamed, Numbers, Numbered("has_many"))
    <2>1. AllColumns \subseteq Paths
      BY <1>2, <1>3 DEF AllColumns, ColumnPath, ReadsColumn
    <2>2. HasManyPaths \subseteq Paths
      BY <1>2 DEF HasManyPaths, Numbered
    <2> HIDE DEF Paths
    <2>3. DOMAIN m \subseteq Paths
      BY <1>1, <2>1, <2>2 DEF Filled
    <2> QED
      BY <2>3 DEF Knows, Paths
  <1>5. Present(m, Unrenamed, Numbers, {})
    <2> SUFFICES ASSUME NEW i \in Numbers, F(i).type \notin {"nested_field", "formatter"}
                 PROVE  PlaceIn(Unrenamed, i) \in DOMAIN m
      BY DEF Present
    <2>1. CASE i \in Containers
      <3>1. Source(i) \in DOMAIN m
        BY <2>1, ContainerFacts DEF Filled, IsObject
      <3> QED
        BY <2>1, <3>1, PlainPaths
    <2>2. CASE F(i).type = "column"
      <3>1. i \notin Containers
        BY <2>2 DEF Containers, Numbered
      <3>2. ReadsColumn(i) /\ ColumnPath(i) = Target(i)
        BY <2>2 DEF ReadsColumn, ColumnPath
      <3> QED
        BY <3>1, <3>2, PlainPaths DEF Filled
    <2>3. CASE F(i).type = "has_many"
      <3>1. i \notin Containers /\ Target(i) \in HasManyPaths
        BY <2>3 DEF Containers, Numbered, HasManyPaths
      <3> QED
        BY <3>1, PlainPaths
    <2> QED
      BY <2>1, <2>2, <2>3, CaseFields DEF Containers, Numbered
  <1>6. Free(m, Unrenamed)
    <2> SUFFICES ASSUME NEW c \in Containers \ Unrenamed
                 PROVE  ~IsObject(m, Below(Unrenamed, c, fieldKey(F(c))))
      BY DEF Free
    <2>1. c \in Containers /\ HasOtherName(F(c)) /\ c \in Numbers
      BY ContainerFacts DEF Unrenamed
    <2>2. Below(Unrenamed, c, fieldKey(F(c))) = Target(c)
      BY <2>1, PlainPaths
    <2>3. Target(c) \notin DOMAIN m
      BY <2>1, TargetsFree
    <2> QED
      BY <2>2, <2>3 DEF IsObject
  <1> QED
    BY <1>4, <1>5, <1>6

(* What is put somewhere covers no container that is to stay. *)
LEMMA PutKeeps ==
    ASSUME SensibleCases, case \in Cases, NEW m, IsItem(m), NEW p \in ItemPath, p # <<>>, IsObject(m, Front(p)),
           NEW v, v = Object => p \notin Chains /\ \A c \in Containers : p # Target(c),
           NEW C,
           p \in KnownPaths(Unrenamed, Numbers, Numbered("has_many")),
           Knows(m, Unrenamed, Numbers, Numbered("has_many")),
           Present(m, Unrenamed, Numbers, C), Free(m, Unrenamed)
    PROVE  /\ Knows(Put(m, p, v), Unrenamed, Numbers, Numbered("has_many"))
           /\ Present(Put(m, p, v), Unrenamed, Numbers, C)
           /\ Free(Put(m, p, v), Unrenamed)
  <1> DEFINE w == Put(m, p, v)
  <1>1. /\ DOMAIN w = (DOMAIN m \ Under(m, p)) \cup {p} /\ w[p] = v
        /\ \A q \in DOMAIN m : ~IsPrefix(p, q) => w[q] = m[q]
        /\ \A q \in DOMAIN w : q # p => q \in DOMAIN m /\ ~IsPrefix(p, q) /\ w[q] = m[q]
    <2>1. IsPrefix(p, p)
      BY PrefixFacts
    <2>2. /\ DOMAIN w = (DOMAIN m \ Under(m, p)) \cup {p} /\ w[p] = v
          /\ \A q \in DOMAIN w : q # p => q \in DOMAIN m /\ ~IsPrefix(p, q) /\ w[q] = m[q]
      BY DEF Put, Under
    <2>3. \A q \in DOMAIN m : ~IsPrefix(p, q) => w[q] = m[q]
      BY <2>1 DEF Put, Under
    <2> QED
      BY <2>2, <2>3
  <1> HIDE DEF w
  <1>2. Knows(w, Unrenamed, Numbers, Numbered("has_many"))
    BY <1>1 DEF Knows
  <1>3. Present(w, Unrenamed, Numbers, C)
    <2> SUFFICES ASSUME NEW i \in Numbers, F(i).type # "nested_field", F(i).type = "formatter" => i \in C,
                        IsObject(w, PathIn(Unrenamed, F(i).prefix))
                 PROVE  PlaceIn(Unrenamed, i) \in DOMAIN w
      BY DEF Present
    <2>1. /\ F(i).prefix \in Chains /\ F(i).prefix \in ItemPath /\ PathIn(Unrenamed, F(i).prefix) = F(i).prefix
          /\ PlaceIn(Unrenamed, i) \in ItemPath /\ PlaceIn(Unrenamed, i) # <<>>
          /\ Front(PlaceIn(Unrenamed, i)) = F(i).prefix
      BY PlainPaths, PrefixIsChain, CaseFields
    <2>2. F(i).prefix # p
      BY <1>1, <2>1 DEF IsObject
    <2>3. IsObject(m, F(i).prefix) /\ ~IsPrefix(p, F(i).prefix)
      BY <1>1, <2>1, <2>2 DEF IsObject
    <2>4. PlaceIn(Unrenamed, i) \in DOMAIN m
      BY <2>1, <2>3 DEF Present
    <2>5. IsPrefix(p, PlaceIn(Unrenamed, i)) => p = PlaceIn(Unrenamed, i)
      BY <2>1, <2>3, PrefixOfFront
    <2> QED
      BY <1>1, <2>4, <2>5 DEF Under
  <1>4. Free(w, Unrenamed)
    <2> SUFFICES ASSUME NEW c \in Containers \ Unrenamed,
                        IsObject(w, Below(Unrenamed, c, fieldKey(F(c))))
                 PROVE  FALSE
      BY DEF Free
    <2>1. Below(Unrenamed, c, fieldKey(F(c))) = Target(c)
      BY PlainPaths, ContainerFacts
    <2>2. ~IsObject(m, Target(c))
      BY <2>1 DEF Free
    <2> QED
      BY <1>1, <2>1, <2>2 DEF IsObject
  <1> QED
    BY <1>2, <1>3, <1>4 DEF w
-----------------------------------------------------------------------------
(* Internal fields go. *)

VisibleFields == {i \in Numbers : Visible(i)}
ShownKeys == {i \in Numbered("has_many") : KeyShown(i)}

LEMMA RemoveKeeps ==
    ASSUME SensibleCases, case \in Cases, NEW m, IsItem(m),
           Knows(m, Unrenamed, Numbers, Numbered("has_many")),
           Present(m, Unrenamed, Numbers, Numbers), Free(m, Unrenamed)
    PROVE  /\ Knows(RemoveInternal(m), Unrenamed, VisibleFields, ShownKeys)
           /\ Present(RemoveInternal(m), Unrenamed, VisibleFields, Numbers)
           /\ Free(RemoveInternal(m), Unrenamed)
  <1> DEFINE w == RemoveInternal(m)
  <1>1. /\ DOMAIN w = {q \in DOMAIN m : \A j \in Numbers : F(j).internal => ~IsPrefix(Source(j), q)}
        /\ \A q \in DOMAIN w : w[q] = m[q]
    BY RemoveItem
  <1> HIDE DEF w
  <1>2. ASSUME NEW q \in DOMAIN w
        PROVE  q \in KnownPaths(Unrenamed, VisibleFields, ShownKeys)
    <2>0. /\ q \in KnownPaths(Unrenamed, Numbers, Numbered("has_many")) /\ q \in ItemPath
          /\ \A j \in Numbers : F(j).internal => ~IsPrefix(Source(j), q)
      BY <1>1 DEF Knows, IsItem
    <2>1. ASSUME NEW i \in Numbers, IsPrefix(F(i).prefix, q), ~F(i).internal
          PROVE  i \in VisibleFields
      <3>1. ASSUME NEW c \in Containers, F(c).internal, IsPrefix(Source(c), F(i).prefix)
            PROVE  FALSE
        <4>1. c \in Numbers /\ Source(c) \in ItemPath /\ F(i).prefix \in ItemPath
          BY ContainerFacts, CaseFields
        <4>2. IsPrefix(Source(c), q)
          BY <2>0, <2>1, <3>1, <4>1, PrefixFacts
        <4> QED
          BY <2>0, <3>1, <4>1, <4>2
      <3> QED
        BY <2>1, <3>1 DEF VisibleFields, Visible, Containers
    <2>2. CASE q = <<>>
      BY <2>2 DEF KnownPaths
    <2>3. ASSUME NEW c \in Containers, q = PathIn(Unrenamed, Source(c))
          PROVE  q \in KnownPaths(Unrenamed, VisibleFields, ShownKeys)
      <3>1. /\ c \in Numbers /\ q = Source(c) /\ IsPrefix(q, q)
            /\ F(c).prefix \in ItemPath /\ F(c).source \in Keys /\ q = Append(F(c).prefix, F(c).source)
        BY <2>0, <2>3, PlainPaths, ContainerFacts, PrefixFacts
      <3>2. ~F(c).internal
        BY <2>0, <3>1
      <3>3. IsPrefix(F(c).prefix, q)
        BY <3>1, PrefixFacts
      <3>4. c \in VisibleFields
        BY <2>1, <3>1, <3>2, <3>3
      <3> QED
        BY <2>3, <3>4 DEF KnownPaths
    <2>4. ASSUME NEW i \in Numbers, Named(i), q = Below(Unrenamed, i, fieldKey(F(i)))
          PROVE  q \in KnownPaths(Unrenamed, VisibleFields, ShownKeys)
      <3>1. q = Target(i) /\ q # <<>> /\ Front(q) = F(i).prefix /\ F(i).prefix \in ItemPath /\ IsPrefix(q, q)
        BY <2>0, <2>4, PlainPaths, FieldPaths, CaseFields, PrefixFacts
      <3>2. ~F(i).internal
        <4>1. F(i).internal => ~HasOtherName(F(i))
          BY <2>4, Kinds DEF Named, Containers, Numbered
        <4>2. ~HasOtherName(F(i)) => Target(i) = Source(i)
          BY FieldPaths
        <4> QED
          BY <2>0, <3>1, <4>1, <4>2
      <3>3. IsPrefix(F(i).prefix, q)
        BY <2>0, <3>1, PrefixFacts, PrefixOfFront
      <3>4. i \in VisibleFields
        BY <2>1, <3>2, <3>3
      <3> QED
        BY <2>4, <3>4 DEF KnownPaths
    <2>5. ASSUME NEW i \in Numbered("has_many"), q = Below(Unrenamed, i, "id")
          PROVE  q \in KnownPaths(Unrenamed, VisibleFields, ShownKeys)
      <3>1. i \in Numbers /\ "id" \in Keys /\ F(i).prefix \in ItemPath /\ IsPrefix(q, q)
        BY <2>0, CaseFields, PrefixFacts DEF Numbered, Keys
      <3>2. q = Append(F(i).prefix, "id")
        BY <2>5, <3>1, PlainPaths
      <3>3. IsPrefix(F(i).prefix, q)
        BY <3>1, <3>2, PrefixFacts
      <3>4. ASSUME NEW c \in Containers, F(c).internal, IsPrefix(Source(c), F(i).prefix)
            PROVE  FALSE
        <4>1. c \in Numbers /\ Source(c) \in ItemPath
          BY ContainerFacts
        <4>2. IsPrefix(Source(c), q)
          BY <2>0, <3>1, <3>3, <3>4, <4>1, PrefixFacts
        <4> QED
          BY <2>0, <3>4, <4>1, <4>2
      <3>5. \A j \in Numbers : F(j).internal => Source(j) # q
        BY <2>0, <3>1
      <3>6. KeyShown(i)
        BY <3>2, <3>4, <3>5 DEF KeyShown, Containers
      <3> QED
        BY <2>5, <3>6 DEF KnownPaths, ShownKeys
    <2> QED
      BY <2>0, <2>2, <2>3, <2>4, <2>5 DEF KnownPaths
  <1>3. Present(w, Unrenamed, VisibleFields, Numbers)
    <2> SUFFICES ASSUME NEW i \in VisibleFields, F(i).type # "nested_field",
                        IsObject(w, PathIn(Unrenamed, F(i).prefix))
                 PROVE  PlaceIn(Unrenamed, i) \in DOMAIN w
      BY DEF Present
    <2>0. i \in Numbers /\ Visible(i)
      BY DEF VisibleFields
    <2>1. /\ F(i).prefix \in Chains /\ F(i).prefix \in ItemPath /\ PathIn(Unrenamed, F(i).prefix) = F(i).prefix
          /\ PlaceIn(Unrenamed, i) \in ItemPath /\ PlaceIn(Unrenamed, i) # <<>>
          /\ Front(PlaceIn(Unrenamed, i)) = F(i).prefix
      BY <2>0, PlainPaths, PrefixIsChain, CaseFields
    <2>2. PlaceIn(Unrenamed, i) \in DOMAIN m
      <3>1. IsObject(m, PathIn(Unrenamed, F(i).prefix))
        BY <1>1 DEF IsObject
      <3> QED
        BY <2>0, <3>1 DEF Present
    <2>3. ASSUME NEW j \in Numbers, F(j).internal, IsPrefix(Source(j), PlaceIn(Unrenamed, i))
          PROVE  FALSE
      <3>1. Source(j) \in ItemPath /\ ~IsPrefix(Source(j), F(i).prefix)
        BY <1>1, <2>1, <2>3, FieldPaths DEF IsObject
      <3>2. Source(j) = PlaceIn(Unrenamed, i)
        BY <2>1, <2>3, <3>1, PrefixOfFront
      <3>3. j # i /\ Stored(F(j)) /\ F(j).type # "formatter"
        BY <2>0, <2>3, Kinds DEF Visible, Stored
      <3>4. CASE i \in Containers
        <4>1. F(j).prefix = F(i).prefix /\ F(j).source = F(i).source
          BY <2>0, <3>2, <3>4, PlainPaths, FieldPaths
        <4> QED
          BY <2>0, <3>3, <3>4, <4>1, Apart, ContainerFacts
      <3>5. CASE i \notin Containers
        <4>1. F(j).prefix = F(i).prefix /\ F(j).source = fieldKey(F(i))
          BY <2>0, <3>2, <3>5, PlainPaths, FieldPaths
        <4> QED
          BY <2>0, <3>3, <4>1, Apart
      <3> QED
        BY <3>4, <3>5
    <2> QED
      BY <1>1, <2>2, <2>3
  <1>4. Free(w, Unrenamed)
    BY <1>1 DEF Free, IsObject
  <1> QED
    BY <1>2, <1>3, <1>4 DEF Knows, w
-----------------------------------------------------------------------------
(* Containers get their aliases. *)

LEMMA KnownRenamed ==
    ASSUME SensibleCases, case \in Cases, NEW R, NEW i, Ready(R, i), HasOtherName(F(i)),
           NEW V, V \subseteq Numbers, NEW K, K \subseteq Numbered("has_many"),
           NEW r \in KnownPaths(R, V, K)
    PROVE  /\ IsPrefix(Source(i), r) =>
                 Relabel(r, Len(Source(i)), fieldKey(F(i))) \in KnownPaths(R \cup {i}, V, K)
           /\ ~IsPrefix(Source(i), r) => r \in KnownPaths(R \cup {i}, V, K)
  <1> DEFINE T == R \cup {i}
             s == Source(i)
             n == Len(s)
             key == fieldKey(F(i))
  <1>0. /\ s \in Chains /\ s \in ItemPath /\ s # <<>> /\ key \in Keys /\ i \in Containers /\ i \in Numbers
        /\ PathIn(R, s) = s /\ key # F(i).source
    BY ReadyFacts, FieldPaths
  <1>1. CASE r = <<>>
    <2>1. ~IsPrefix(s, r)
      BY <1>0, <1>1, OnlyEmptyBeginsEmpty
    <2> QED
      BY <1>1, <2>1 DEF KnownPaths
  <1>2. ASSUME NEW c \in Containers, c \in V, r = PathIn(R, Source(c))
        PROVE  /\ IsPrefix(s, r) => Relabel(r, n, key) \in KnownPaths(T, V, K)
               /\ ~IsPrefix(s, r) => r \in KnownPaths(T, V, K)
    <2>1. /\ IsPrefix(s, r) => IsPrefix(s, Source(c))
          /\ IsPrefix(s, Source(c)) => IsPrefix(s, r)
      <3>1. /\ IsPrefix(PathIn(R, s), PathIn(R, Source(c))) => IsPrefix(s, Source(c))
            /\ IsPrefix(s, Source(c)) => IsPrefix(PathIn(R, s), PathIn(R, Source(c)))
        BY <1>0, PlacesNested, ContainerFacts
      <3> QED
        BY <1>0, <1>2, <3>1
    <2>2. /\ IsPrefix(s, Source(c)) => PathIn(T, Source(c)) = Relabel(r, n, key)
          /\ ~IsPrefix(s, Source(c)) => PathIn(T, Source(c)) = r
      BY <1>2, PathRenamed, ContainerFacts
    <2>3. PathIn(T, Source(c)) \in KnownPaths(T, V, K)
      BY <1>2 DEF KnownPaths
    <2> QED
      BY <2>1, <2>2, <2>3
  <1>3. ASSUME NEW j \in Numbers, NEW k \in Keys, r = Below(R, j, k),
               F(j).prefix = F(i).prefix => k # F(i).source,
               Below(T, j, k) \in KnownPaths(T, V, K)
        PROVE  /\ IsPrefix(s, r) => Relabel(r, n, key) \in KnownPaths(T, V, K)
               /\ ~IsPrefix(s, r) => r \in KnownPaths(T, V, K)
    <2>1. /\ IsPrefix(s, F(j).prefix) =>
                /\ IsPrefix(s, Below(R, j, k))
                /\ IsPrefix(s, PathIn(R, F(j).prefix))
                /\ Below(T, j, k) = Relabel(Below(R, j, k), n, key)
          /\ ~IsPrefix(s, F(j).prefix) =>
                /\ Below(T, j, k) = Below(R, j, k)
                /\ ~IsPrefix(s, PathIn(R, F(j).prefix))
                /\ IsPrefix(s, Below(R, j, k)) => F(j).prefix = F(i).prefix /\ k = F(i).source
      BY BelowRenamed
    <2> HIDE DEF T, s, n, key
    <2> QED
      BY <1>3, <2>1
  <1>4. ASSUME NEW j \in V, Named(j), r = Below(R, j, fieldKey(F(j)))
        PROVE  /\ IsPrefix(s, r) => Relabel(r, n, key) \in KnownPaths(T, V, K)
               /\ ~IsPrefix(s, r) => r \in KnownPaths(T, V, K)
    <2>1. j \in Numbers /\ fieldKey(F(j)) \in Keys
      BY FieldPaths
    <2>2. F(j).prefix = F(i).prefix => fieldKey(F(j)) # F(i).source
      BY <1>0, <2>1, Apart, ContainerFacts
    <2>3. Below(T, j, fieldKey(F(j))) \in KnownPaths(T, V, K)
      BY <1>4 DEF KnownPaths
    <2> QED
      BY <1>3, <1>4, <2>1, <2>2, <2>3
  <1>5. ASSUME NEW j \in K, r = Below(R, j, "id")
        PROVE  /\ IsPrefix(s, r) => Relabel(r, n, key) \in KnownPaths(T, V, K)
               /\ ~IsPrefix(s, r) => r \in KnownPaths(T, V, K)
    <2>1. j \in Numbers /\ F(j).type = "has_many" /\ "id" \in Keys
      BY DEF Numbered, Keys
    <2>2. F(j).prefix = F(i).prefix => "id" # F(i).source
      <3>1. F(i).type # "column"
        BY <1>0, ContainerFacts
      <3> QED
        BY <1>0, <2>1, <3>1, IdOfRows
    <2>3. Below(T, j, "id") \in KnownPaths(T, V, K)
      BY <1>5 DEF KnownPaths
    <2> QED
      BY <1>3, <1>5, <2>1, <2>2, <2>3
  <1> QED
    BY <1>1, <1>2, <1>4, <1>5 DEF KnownPaths

(* A has_many branch is under its alias from the beginning. *)
LEMMA ManyNotThere ==
    ASSUME SensibleCases, case \in Cases, NEW R, NEW i \in Numbered("has_many"), HasOtherName(F(i)),
           PathIn(R, F(i).prefix) = F(i).prefix,
           NEW V, V \subseteq Numbers, NEW K, K \subseteq Numbered("has_many")
    PROVE  Source(i) \notin KnownPaths(R, V, K)
  <1>0. /\ i \in Numbers /\ F(i).type = "has_many" /\ F(i).source \in Keys /\ Source(i) # <<>>
        /\ Source(i) = Below(R, i, F(i).source) /\ i \notin Containers
        /\ fieldKey(F(i)) # F(i).source
    BY CaseFields, FieldPaths DEF Numbered, Below, Source, Containers
  <1>1. ASSUME NEW j \in Numbers, NEW k \in Keys, Source(i) = Below(R, j, k)
        PROVE  F(i).prefix = F(j).prefix /\ F(i).source = k
    <2>1. \A x, y \in Keys : Below(R, i, x) = Below(R, j, y) => F(i).prefix = F(j).prefix /\ x = y
      BY <1>0, BelowAlike
    <2> QED
      BY <1>0, <1>1, <2>1
  <1>2. ASSUME NEW c \in Containers, Source(i) = PathIn(R, Source(c))
        PROVE  FALSE
    <2>1. c \in Numbers /\ c # i /\ Stored(F(c)) /\ KeyIn(R, c) \in Keys /\ PathIn(R, Source(c)) = Below(R, c, KeyIn(R, c))
      BY <1>0, ContainerFacts, ContainerPlace
    <2>2. F(i).prefix = F(c).prefix /\ F(i).source = KeyIn(R, c)
      BY <1>1, <1>2, <2>1
    <2>3. fieldKey(F(c)) # F(i).source /\ F(c).source # F(i).source
      BY <1>0, <2>1, <2>2, Apart
    <2> QED
      BY <2>2, <2>3 DEF KeyIn
  <1>3. ASSUME NEW j \in V, Source(i) = Below(R, j, fieldKey(F(j)))
        PROVE  FALSE
    <2>1. j \in Numbers /\ fieldKey(F(j)) \in Keys
      BY FieldPaths
    <2>2. F(i).prefix = F(j).prefix /\ F(i).source = fieldKey(F(j))
      BY <1>1, <1>3, <2>1
    <2> QED
      BY <1>0, <2>1, <2>2, Apart
  <1>4. ASSUME NEW j \in K, Source(i) = Below(R, j, "id")
        PROVE  FALSE
    <2>1. j \in Numbers /\ F(j).type = "has_many" /\ "id" \in Keys
      BY DEF Numbered, Keys
    <2>2. F(i).prefix = F(j).prefix /\ F(i).source = "id"
      BY <1>1, <1>4, <2>1
    <2> QED
      BY <1>0, <2>1, <2>2, IdOfRows
  <1> QED
    BY <1>0, <1>2, <1>3, <1>4 DEF KnownPaths

(* What renaming does to the item: nothing remains under the source, and    *)
(* unless the alias is taken it all goes there.                             *)
GoesTo(m, w, i) ==
    LET s == Source(i)
        t == Target(i)
        n == Len(s)
        key == fieldKey(F(i))
    IN  /\ \A q \in DOMAIN w :
              \/ q \in DOMAIN m /\ ~IsPrefix(s, q) /\ w[q] = m[q]
              \/ t \notin DOMAIN m /\ \E r \in DOMAIN m :
                    IsPrefix(s, r) /\ q = Relabel(r, n, key) /\ w[q] = m[r]
        /\ \A q \in DOMAIN m : ~IsPrefix(s, q) => q \in DOMAIN w
        /\ t \notin DOMAIN m => \A q \in DOMAIN m : IsPrefix(s, q) => Relabel(q, n, key) \in DOMAIN w
        /\ s \in DOMAIN m => t \in DOMAIN w

MovedTo(m, w, p, key) ==
    /\ \A q \in DOMAIN m : ~IsPrefix(p, q) => q \in DOMAIN w /\ w[q] = m[q]
    /\ \A q \in DOMAIN m : IsPrefix(p, q) =>
          Relabel(q, Len(p), key) \in DOMAIN w /\ w[Relabel(q, Len(p), key)] = m[q]
    /\ \A q \in DOMAIN w : \/ q \in DOMAIN m /\ ~IsPrefix(p, q)
                           \/ \E r \in DOMAIN m : IsPrefix(p, r) /\ q = Relabel(r, Len(p), key)

LEMMA MovedWhere ==
    ASSUME NEW m, IsItem(m), NEW p \in ItemPath, p # <<>>, p \in DOMAIN m, NEW key \in Keys,
           Append(Front(p), key) \notin DOMAIN m
    PROVE  MovedTo(m, Moved(m, p, key), p, key)
  BY MovedItem DEF MovedTo

LEMMA RenameGoes ==
    ASSUME SensibleCases, case \in Cases, NEW m, IsItem(m), NEW R, NEW i, Ready(R, i), HasOtherName(F(i))
    PROVE  GoesTo(m, applyPresetAlias(m, i), i)
  <1> DEFINE s == Source(i)
             t == Target(i)
             n == Len(s)
             key == fieldKey(F(i))
             w == applyPresetAlias(m, i)
  <1>0. /\ i \in Numbers /\ s \in ItemPath /\ s # <<>> /\ key \in Keys
        /\ Append(Front(s), key) = t /\ ~IsPrefix(s, F(i).prefix)
        /\ t \in ItemPath /\ t # <<>> /\ Front(t) = F(i).prefix
    BY ReadyFacts, FieldPaths
  <1>1. ~IsPrefix(s, t)
    <2>1. s # t
      <3>1. s[Len(F(i).prefix) + 1] = F(i).source /\ t[Len(F(i).prefix) + 1] = key /\ key # F(i).source
        BY <1>0, FieldPaths
      <3> QED
        BY <3>1
    <2> QED
      BY <1>0, <2>1, PrefixOfFront
  <1>2. CASE s \notin DOMAIN m
    <2>1. w = m
      BY <1>2 DEF applyPresetAlias
    <2>2. \A q \in DOMAIN m : ~IsPrefix(s, q)
      <3>1. \A q \in DOMAIN m : q \in ItemPath
        BY DEF IsItem
      <3>2. \A q \in ItemPath : q \in DOMAIN m =>
              \A p \in ItemPath : IsPrefix(p, q) => p \in DOMAIN m /\ (p # q => IsObject(m, p))
        BY WayThere
      <3> QED
        BY <1>0, <1>2, <3>1, <3>2
    <2> QED
      BY <1>2, <2>1, <2>2 DEF GoesTo
  <1>3. CASE s \in DOMAIN m /\ t \in DOMAIN m
    <2>1. w = Drop(m, s)
      BY <1>3 DEF applyPresetAlias
    <2>2. /\ DOMAIN w = {q \in DOMAIN m : ~IsPrefix(s, q)}
          /\ \A q \in DOMAIN w : w[q] = m[q]
      BY <1>0, <2>1, DropItem
    <2> HIDE DEF w
    <2>3. \A q \in DOMAIN w : q \in DOMAIN m /\ ~IsPrefix(s, q) /\ w[q] = m[q]
      BY <2>2
    <2>4. /\ \A q \in DOMAIN m : ~IsPrefix(s, q) => q \in DOMAIN w
          /\ t \in DOMAIN w
      BY <1>1, <1>3, <2>2
    <2>5. GoesTo(m, w, i)
      BY <1>3, <2>3, <2>4 DEF GoesTo
    <2> QED
      BY <2>5 DEF w
  <1>4. CASE s \in DOMAIN m /\ t \notin DOMAIN m
    <2>1. w = Moved(m, s, key)
      BY <1>4 DEF applyPresetAlias
    <2>2. MovedTo(m, w, s, key)
      BY <1>0, <1>4, <2>1, MovedWhere
    <2>3. IsPrefix(s, s) /\ Relabel(s, n, key) = t
      BY <1>0, PrefixFacts, Relabelled
    <2> HIDE DEF w, s, key
    <2>8. /\ \A q \in DOMAIN m : ~IsPrefix(s, q) => q \in DOMAIN w /\ w[q] = m[q]
          /\ \A q \in DOMAIN m : IsPrefix(s, q) =>
                 Relabel(q, n, key) \in DOMAIN w /\ w[Relabel(q, n, key)] = m[q]
          /\ \A q \in DOMAIN w : \/ q \in DOMAIN m /\ ~IsPrefix(s, q)
                                 \/ \E r \in DOMAIN m : IsPrefix(s, r) /\ q = Relabel(r, n, key)
      BY <2>2 DEF MovedTo
    <2>4. \A q \in DOMAIN w :
              \/ q \in DOMAIN m /\ ~IsPrefix(s, q) /\ w[q] = m[q]
              \/ \E r \in DOMAIN m : IsPrefix(s, r) /\ q = Relabel(r, n, key) /\ w[q] = m[r]
      BY <2>8
    <2>5. /\ \A q \in DOMAIN m : ~IsPrefix(s, q) => q \in DOMAIN w
          /\ \A q \in DOMAIN m : IsPrefix(s, q) => Relabel(q, n, key) \in DOMAIN w
      BY <2>8
    <2>6. t \in DOMAIN w
      BY <1>4, <2>3, <2>5
    <2>7. GoesTo(m, w, i)
      BY <1>4, <2>4, <2>5, <2>6 DEF GoesTo, s, key
    <2> QED
      BY <2>7 DEF w
  <1> QED
    BY <1>2, <1>3, <1>4

(* Nothing was at the alias, so what is found there now is the container's. *)
LEMMA UnderAlias ==
    ASSUME SensibleCases, case \in Cases, NEW R, NEW i, Ready(R, i), HasOtherName(F(i)),
           NEW p \in Chains, ~IsPrefix(Source(i), p)
    PROVE  ~IsPrefix(Target(i), PathIn(R, p))
  <1> DEFINE T == R \cup {i}
             s == Source(i)
  <1>0. /\ i \in Containers /\ s \in Chains /\ s \in ItemPath /\ s # <<>> /\ PathIn(R, s) = s
        /\ fieldKey(F(i)) \in Keys /\ Append(Front(s), fieldKey(F(i))) = Target(i)
    BY ReadyFacts
  <1>1. IsPrefix(s, s)
    BY <1>0, PrefixFacts
  <1>2. Relabel(s, Len(s), fieldKey(F(i))) = Target(i)
    BY <1>0, <1>1, Relabelled
  <1>3. PathIn(T, s) = Target(i) /\ PathIn(T, p) = PathIn(R, p)
    <2>1. \A q \in Chains :
              /\ IsPrefix(s, q) => PathIn(T, q) = Relabel(PathIn(R, q), Len(s), fieldKey(F(i)))
              /\ ~IsPrefix(s, q) => PathIn(T, q) = PathIn(R, q)
      BY PathRenamed
    <2> QED
      BY <1>0, <1>1, <1>2, <2>1
  <1>4. \A x, y \in Chains : IsPrefix(PathIn(T, y), PathIn(T, x)) => IsPrefix(y, x)
    BY PlacesNested
  <1> QED
    BY <1>0, <1>3, <1>4

LEMMA BelowStays ==
    ASSUME SensibleCases, case \in Cases, NEW R, NEW i, Ready(R, i), NEW j \in Numbers, NEW k \in Keys,
           ~IsPrefix(Source(i), F(j).prefix)
    PROVE  /\ PathIn(R \cup {i}, F(j).prefix) = PathIn(R, F(j).prefix)
           /\ Below(R \cup {i}, j, k) = Below(R, j, k)
  <1>1. PathIn(R \cup {i}, F(j).prefix) = PathIn(R, F(j).prefix)
    BY PathRenamed, PrefixIsChain
  <1> QED
    BY <1>1 DEF Below

LEMMA BelowMoves ==
    ASSUME SensibleCases, case \in Cases, NEW R, NEW i, Ready(R, i), NEW j \in Numbers, NEW k \in Keys,
           IsPrefix(Source(i), F(j).prefix)
    PROVE  /\ PathIn(R \cup {i}, F(j).prefix) =
                 Relabel(PathIn(R, F(j).prefix), Len(Source(i)), fieldKey(F(i)))
           /\ Below(R \cup {i}, j, k) = Relabel(Below(R, j, k), Len(Source(i)), fieldKey(F(i)))
           /\ IsPrefix(Source(i), PathIn(R, F(j).prefix)) /\ IsPrefix(Source(i), Below(R, j, k))
  <1>1. PathIn(R \cup {i}, F(j).prefix) =
           Relabel(PathIn(R, F(j).prefix), Len(Source(i)), fieldKey(F(i)))
    BY PathRenamed, PrefixIsChain
  <1> QED
    BY <1>1, BelowRenamed

LEMMA BelowSource ==
    ASSUME SensibleCases, case \in Cases, NEW R, NEW i, Ready(R, i), NEW j \in Numbers, NEW k \in Keys,
           ~IsPrefix(Source(i), F(j).prefix), IsPrefix(Source(i), Below(R, j, k))
    PROVE  F(j).prefix = F(i).prefix /\ k = F(i).source
  BY BelowRenamed

LEMMA RenameKnows ==
    ASSUME SensibleCases, case \in Cases, NEW m, IsItem(m), NEW R, NEW i, Ready(R, i), HasOtherName(F(i)),
           NEW V, V \subseteq Numbers, NEW K, K \subseteq Numbered("has_many"),
           Knows(m, R, V, K)
    PROVE  Knows(applyPresetAlias(m, i), R \cup {i}, V, K)
  <1> DEFINE w == applyPresetAlias(m, i)
             s == Source(i)
             n == Len(s)
             key == fieldKey(F(i))
             T == R \cup {i}
  <1>1. GoesTo(m, w, i)
    BY RenameGoes
  <1>2. \A q \in DOMAIN w :
              \/ q \in DOMAIN m /\ ~IsPrefix(s, q)
              \/ \E r \in DOMAIN m : IsPrefix(s, r) /\ q = Relabel(r, n, key)
    BY <1>1 DEF GoesTo
  <1>3. \A r \in KnownPaths(R, V, K) :
           /\ IsPrefix(s, r) => Relabel(r, n, key) \in KnownPaths(T, V, K)
           /\ ~IsPrefix(s, r) => r \in KnownPaths(T, V, K)
    BY KnownRenamed
  <1>4. DOMAIN m \subseteq KnownPaths(R, V, K)
    BY DEF Knows
  <1> HIDE DEF w, s, n, key, T
  <1>5. DOMAIN w \subseteq KnownPaths(T, V, K)
    BY <1>2, <1>3, <1>4
  <1> QED
    BY <1>5 DEF Knows, w, T

LEMMA RenameFree ==
    ASSUME SensibleCases, case \in Cases, NEW m, IsItem(m), NEW R, NEW i, Ready(R, i), HasOtherName(F(i)),
           \A c \in Containers \ R : c # i => ~IsPrefix(Source(i), F(c).prefix),
           Free(m, R)
    PROVE  Free(applyPresetAlias(m, i), R \cup {i})
  <1> DEFINE w == applyPresetAlias(m, i)
             s == Source(i)
             t == Target(i)
             n == Len(s)
             key == fieldKey(F(i))
             T == R \cup {i}
  <1>0. /\ i \in Containers /\ i \in Numbers /\ s \in ItemPath /\ s # <<>> /\ key \in Keys
        /\ Append(Front(s), key) = t /\ t = Below(R, i, key) /\ t \in ItemPath
    BY ReadyFacts, FieldPaths
  <1>1. GoesTo(m, w, i)
    BY RenameGoes
  <1>2. \A q \in DOMAIN w :
              \/ q \in DOMAIN m /\ w[q] = m[q]
              \/ \E r \in DOMAIN m : IsPrefix(s, r) /\ q = Relabel(r, n, key)
    BY <1>1 DEF GoesTo
  <1>3. \A r \in DOMAIN m : r \in ItemPath
    BY DEF IsItem
  <1>4. \A r \in ItemPath : IsPrefix(s, r) => IsPrefix(t, Relabel(r, n, key))
    <2>1. \A r \in ItemPath : IsPrefix(s, r) => IsPrefix(Append(Front(s), key), Relabel(r, Len(s), key))
      BY <1>0, Relabelled
    <2> QED
      BY <1>0, <2>1
  <1> SUFFICES ASSUME NEW c \in Containers \ T, IsObject(w, Below(T, c, fieldKey(F(c))))
               PROVE  FALSE
    BY DEF Free
  <1>5. /\ c \in Numbers /\ c # i /\ c \in Containers \ R /\ fieldKey(F(c)) \in Keys
        /\ ~IsPrefix(s, F(c).prefix) /\ F(c).prefix \in Chains
    BY ContainerFacts
  <1>6. Below(T, c, fieldKey(F(c))) = Below(R, c, fieldKey(F(c)))
    BY <1>5, BelowStays
  <1>7. ~IsPrefix(t, Below(R, c, fieldKey(F(c))))
    <2>1. ~IsPrefix(t, PathIn(R, F(c).prefix))
      BY <1>5, UnderAlias
    <2>2. t # Below(R, c, fieldKey(F(c)))
      <3>1. Below(R, i, fieldKey(F(i))) = Below(R, c, fieldKey(F(c))) =>
              F(i).prefix = F(c).prefix /\ fieldKey(F(i)) = fieldKey(F(c))
        BY <1>0, <1>5, BelowAlike
      <3> QED
        BY <1>0, <1>5, <3>1, Apart
    <2>3. /\ PathIn(R, F(c).prefix) \in ItemPath
          /\ Below(R, c, fieldKey(F(c))) = Append(PathIn(R, F(c).prefix), fieldKey(F(c)))
      BY <1>5, BelowFacts
    <2> QED
      BY <1>0, <1>5, <2>1, <2>2, <2>3, PrefixFacts
  <1>8. Below(R, c, fieldKey(F(c))) \in DOMAIN w /\ w[Below(R, c, fieldKey(F(c)))] = Object
    BY <1>6 DEF IsObject
  <1>9. Below(R, c, fieldKey(F(c))) \in DOMAIN m /\ m[Below(R, c, fieldKey(F(c)))] = Object
    BY <1>2, <1>3, <1>4, <1>7, <1>8
  <1> QED
    BY <1>5, <1>9 DEF Free, IsObject

LEMMA RenamePresent ==
    ASSUME SensibleCases, case \in Cases, NEW m, IsItem(m), NEW R, NEW i, Ready(R, i), HasOtherName(F(i)),
           NEW V, V \subseteq Numbers, NEW C, Present(m, R, V, C), Free(m, R)
    PROVE  Present(applyPresetAlias(m, i), R \cup {i}, V, C)
  <1> DEFINE w == applyPresetAlias(m, i)
             s == Source(i)
             t == Target(i)
             n == Len(s)
             key == fieldKey(F(i))
             T == R \cup {i}
  <1>0. /\ i \in Containers /\ i \in Numbers /\ i \notin R /\ s \in ItemPath /\ s # <<>> /\ key \in Keys
        /\ Append(Front(s), key) = t /\ t = Below(R, i, key) /\ t \in ItemPath
        /\ ~IsPrefix(s, F(i).prefix) /\ F(i).type = "belongs_to" /\ F(i).prefix \in Chains
    BY ReadyFacts, FieldPaths, ContainerFacts
  <1>1. GoesTo(m, w, i)
    BY RenameGoes
  <1>2. /\ \A q \in DOMAIN w :
              \/ q \in DOMAIN m /\ ~IsPrefix(s, q) /\ w[q] = m[q]
              \/ t \notin DOMAIN m /\ \E r \in DOMAIN m :
                    IsPrefix(s, r) /\ q = Relabel(r, n, key) /\ w[q] = m[r]
        /\ \A q \in DOMAIN m : ~IsPrefix(s, q) => q \in DOMAIN w
        /\ t \notin DOMAIN m => \A q \in DOMAIN m : IsPrefix(s, q) => Relabel(q, n, key) \in DOMAIN w
        /\ s \in DOMAIN m => t \in DOMAIN w
    BY <1>1 DEF GoesTo
  <1>3. \A r \in DOMAIN m : r \in ItemPath
    BY DEF IsItem
  <1>4. \A r \in ItemPath : IsPrefix(s, r) => IsPrefix(t, Relabel(r, n, key))
    <2>1. \A r \in ItemPath : IsPrefix(s, r) => IsPrefix(Append(Front(s), key), Relabel(r, Len(s), key))
      BY <1>0, Relabelled
    <2> QED
      BY <1>0, <2>1
  <1>5. \A r \in ItemPath : IsPrefix(s, r) => Relabel(Relabel(r, n, key), n, s[n]) = r
    BY <1>0, RelabelBack
  <1>6. ~IsObject(m, t)
    BY <1>0 DEF Free
  <1> SUFFICES ASSUME NEW j \in V, F(j).type # "nested_field", F(j).type = "formatter" => j \in C,
                      IsObject(w, PathIn(T, F(j).prefix))
               PROVE  PlaceIn(T, j) \in DOMAIN w
    BY DEF Present
  <1> DEFINE k == IF j \in Containers THEN KeyIn(R, j) ELSE fieldKey(F(j))
             l == IF j \in Containers THEN KeyIn(T, j) ELSE fieldKey(F(j))
             P == PathIn(R, F(j).prefix)
  <1>7. /\ j \in Numbers /\ F(j).prefix \in Chains /\ k \in Keys /\ l \in Keys
        /\ P \in ItemPath
        /\ PlaceIn(R, j) = Below(R, j, k) /\ PlaceIn(T, j) = Below(T, j, l)
        /\ j # i => k = l
        /\ j = i => k = F(i).source /\ l = key
    BY <1>0, PrefixIsChain, PathsInItem, FieldPaths, ContainerFacts DEF PlaceIn, KeyIn
  <1>8. IsObject(m, P) => Below(R, j, k) \in DOMAIN m
    BY <1>7 DEF Present
  <1>9. \A r \in ItemPath : r \in DOMAIN m => \A p \in ItemPath : IsPrefix(p, r) =>
           p \in DOMAIN m /\ (p # r => IsObject(m, p))
    BY WayThere
  <1> HIDE DEF w, k, l
  <1>10. CASE IsPrefix(s, F(j).prefix)
    <2>1. /\ PathIn(T, F(j).prefix) = Relabel(P, n, key)
          /\ Below(T, j, k) = Relabel(Below(R, j, k), n, key)
          /\ IsPrefix(s, P) /\ IsPrefix(s, Below(R, j, k))
      BY <1>7, <1>10, BelowMoves
    <2>2. j # i
      BY <1>0, <1>10
    <2>3. IsPrefix(t, Relabel(P, n, key)) /\ Relabel(P, n, key) \in DOMAIN w /\ w[Relabel(P, n, key)] = Object
      BY <1>4, <1>7, <2>1 DEF IsObject
    <2>4. ~IsObject(m, Relabel(P, n, key))
      BY <1>0, <1>3, <1>6, <1>9, <2>3 DEF IsObject
    <2>5. PICK r \in DOMAIN m : t \notin DOMAIN m /\ IsPrefix(s, r)
                                /\ Relabel(P, n, key) = Relabel(r, n, key) /\ w[Relabel(P, n, key)] = m[r]
      BY <1>2, <2>3, <2>4 DEF IsObject
    <2>6. r = P
      BY <1>3, <1>5, <1>7, <2>1, <2>5
    <2>7. Below(R, j, k) \in DOMAIN m
      BY <1>8, <2>3, <2>5, <2>6 DEF IsObject
    <2>8. Relabel(Below(R, j, k), n, key) \in DOMAIN w
      BY <1>2, <2>1, <2>5, <2>7
    <2> QED
      BY <1>7, <2>1, <2>2, <2>8
  <1>11. CASE ~IsPrefix(s, F(j).prefix)
    <2>1. PathIn(T, F(j).prefix) = P /\ Below(T, j, l) = Below(R, j, l)
      BY <1>7, <1>11, BelowStays
    <2>2. ~IsPrefix(t, P)
      BY <1>7, <1>11, UnderAlias
    <2>3. IsObject(m, P)
      BY <1>2, <1>3, <1>4, <2>1, <2>2 DEF IsObject
    <2>4. Below(R, j, k) \in DOMAIN m
      BY <1>8, <2>3
    <2>5. CASE j = i
      <3>1. Below(R, j, k) = s /\ Below(R, j, l) = t
        BY <1>0, <1>7, <2>5, ReadyFacts
      <3> QED
        BY <1>2, <1>7, <2>1, <2>4, <3>1
    <2>6. CASE j # i
      <3>1. ~IsPrefix(s, Below(R, j, k))
        <4>1. IsPrefix(s, Below(R, j, k)) => F(j).prefix = F(i).prefix /\ k = F(i).source
          BY <1>7, <1>11, BelowSource
        <4>2. F(j).prefix = F(i).prefix => fieldKey(F(j)) # F(i).source
          BY <1>0, <1>7, <2>6, Apart
        <4>3. F(j).prefix = F(i).prefix /\ j \in Containers => F(j).source # F(i).source
          BY <1>0, <1>7, <2>6, Apart, ContainerFacts
        <4> QED
          BY <4>1, <4>2, <4>3 DEF k, KeyIn
      <3> QED
        BY <1>2, <1>7, <2>1, <2>4, <2>6, <3>1
    <2> QED
      BY <2>5, <2>6
  <1> QED
    BY <1>10, <1>11
-----------------------------------------------------------------------------
(* From state to state.                                                    *)

Kept(m, R, V, K, C) == Knows(m, R, V, K) /\ Present(m, R, V, C) /\ Free(m, R)

LEMMA SamePaths ==
    ASSUME case' = case
    PROVE  \A p, k : ContainerAt(p, k)' = ContainerAt(p, k)
  BY DEF ContainerAt, Numbered, Numbers, F, Source

LEMMA SamePlaces ==
    ASSUME case' = case
    PROVE  /\ \A R, p : PathIn(R, p)' = PathIn(R, p)
           /\ \A R, i, key : Below(R, i, key)' = Below(R, i, key)
           /\ \A R, i : PlaceIn(R, i)' = PlaceIn(R, i)
  <1>1. \A R, c : KeyIn(R, c)' = KeyIn(R, c)
    BY SameCase DEF KeyIn
  <1>2. \A R, p : PathIn(R, p)' = PathIn(R, p)
    BY <1>1, SamePaths DEF PathIn
  <1>3. \A R, i, key : Below(R, i, key)' = Below(R, i, key)
    BY <1>2, SameCase DEF Below
  <1>4. \A R, i : PlaceIn(R, i)' = PlaceIn(R, i)
    BY <1>1, <1>3, SameCase DEF PlaceIn
  <1> QED
    BY <1>2, <1>3, <1>4

LEMMA SameKept ==
    ASSUME case' = case, Kept(item', Renamed', Left', KeysLeft', Computed')
    PROVE  /\ Knows(item, Renamed, Left, KeysLeft)'
           /\ Present(item, Renamed, Left, Computed)'
           /\ Free(item, Renamed)'
  <1>1. /\ Knows(item', Renamed', Left', KeysLeft')
        /\ Present(item', Renamed', Left', Computed')
        /\ Free(item', Renamed')
    BY DEF Kept
  <1>2. Knows(item, Renamed, Left, KeysLeft)'
    BY <1>1, SameCase, SamePlaces DEF Knows, KnownPaths, Named
  <1>3. Present(item, Renamed, Left, Computed)'
    BY <1>1, SameCase, SamePlaces DEF Present
  <1>4. Free(item, Renamed)'
    BY <1>1, SameCase, SamePlaces DEF Free
  <1> QED
    BY <1>2, <1>3, <1>4

(* Which containers have their aliases, which fields are left and which     *)
(* formatters have written, pass by pass.                                   *)
LEMMA NamesNow ==
    /\ stage \in Early => Renamed = Unrenamed /\ Left = Numbers /\ KeysLeft = Numbered("has_many")
    /\ stage = "rename" => /\ Renamed = Unrenamed \cup (Containers \cap done)
                           /\ Left = VisibleFields /\ KeysLeft = ShownKeys /\ Computed = Numbers
    /\ stage = "done" => /\ Renamed = Containers
                         /\ Left = VisibleFields /\ KeysLeft = ShownKeys /\ Computed = Numbers
    /\ stage \in {"alias", "collapse", "localize"} => Computed = {}
    /\ stage = "format" => Computed = done
    /\ stage = "remove" => Computed = Numbers
  BY DEF Renamed, Unrenamed, Left, KeysLeft, Computed, Early, VisibleFields, ShownKeys

LEMMA SameVisible ==
    ASSUME case' = case
    PROVE  /\ Unrenamed' = Unrenamed /\ VisibleFields' = VisibleFields /\ ShownKeys' = ShownKeys
           /\ Numbers' = Numbers /\ Containers' = Containers
           /\ Numbered("has_many")' = Numbered("has_many")
  <1>1. Numbers' = Numbers /\ Containers' = Containers /\ Numbered("has_many")' = Numbered("has_many")
    BY DEF Containers, Numbered, Numbers, F
  <1>2. \A i : HasOtherName(F(i))' = HasOtherName(F(i)) /\ F(i)' = F(i)
    BY DEF HasOtherName, F
  <1>3. Unrenamed' = Unrenamed
    BY <1>1, <1>2 DEF Unrenamed
  <1>4. VisibleFields' = VisibleFields
    BY DEF VisibleFields, Visible, Numbers, Numbered, F, Source
  <1>5. ShownKeys' = ShownKeys
    BY DEF ShownKeys, KeyShown, Numbers, Numbered, F, Source
  <1> QED
    BY <1>1, <1>3, <1>4, <1>5

LEMMA NamesNext ==
    ASSUME case' = case
    PROVE  /\ stage' \in Early =>
                 Renamed' = Unrenamed /\ Left' = Numbers /\ KeysLeft' = Numbered("has_many")
           /\ stage' = "rename" => /\ Renamed' = Unrenamed \cup (Containers \cap done')
                                   /\ Left' = VisibleFields /\ KeysLeft' = ShownKeys /\ Computed' = Numbers
           /\ stage' = "done" => /\ Renamed' = Containers
                                 /\ Left' = VisibleFields /\ KeysLeft' = ShownKeys /\ Computed' = Numbers
           /\ stage' \in {"alias", "collapse", "localize"} => Computed' = {}
           /\ stage' = "format" => Computed' = done'
           /\ stage' = "remove" => Computed' = Numbers
  <1>1. /\ Unrenamed' = Unrenamed /\ VisibleFields' = VisibleFields /\ ShownKeys' = ShownKeys
        /\ Numbers' = Numbers /\ Containers' = Containers
        /\ Numbered("has_many")' = Numbered("has_many")
    BY SameVisible
  <1>2. Renamed' = {c \in Containers' : \/ stage' = "done" \/ c \in Unrenamed'
                                        \/ stage' = "rename" /\ c \in done'}
    BY DEF Renamed, Unrenamed
  <1>3. /\ Left' = IF stage' \in Early THEN Numbers' ELSE VisibleFields'
        /\ KeysLeft' = IF stage' \in Early THEN Numbered("has_many")' ELSE ShownKeys'
    BY DEF Left, KeysLeft, Early, VisibleFields, ShownKeys
  <1>4. Computed' = IF stage' = "format" THEN done'
                    ELSE IF stage' \in {"remove", "rename", "done"} THEN Numbers' ELSE {}
    BY DEF Computed
  <1>5. Unrenamed \subseteq Containers
    BY DEF Unrenamed
  <1> QED
    BY <1>1, <1>2, <1>3, <1>4, <1>5 DEF Early
-----------------------------------------------------------------------------
(* The passes, one field at a time.                                        *)

KeptAll(m, C) == Kept(m, Unrenamed, Numbers, Numbered("has_many"), C)

LEMMA PutKeepsAll ==
    ASSUME SensibleCases, case \in Cases, NEW m, IsItem(m), NEW p \in ItemPath, p # <<>>, IsObject(m, Front(p)),
           NEW v, v = Object => p \notin Chains /\ \A c \in Containers : p # Target(c),
           p \in KnownPaths(Unrenamed, Numbers, Numbered("has_many")),
           NEW C, KeptAll(m, C)
    PROVE  KeptAll(Put(m, p, v), C)
  <1>1. /\ Knows(m, Unrenamed, Numbers, Numbered("has_many"))
        /\ Present(m, Unrenamed, Numbers, C) /\ Free(m, Unrenamed)
    BY DEF KeptAll, Kept
  <1>2. /\ Knows(Put(m, p, v), Unrenamed, Numbers, Numbered("has_many"))
        /\ Present(Put(m, p, v), Unrenamed, Numbers, C)
        /\ Free(Put(m, p, v), Unrenamed)
    BY <1>1, PutKeeps
  <1> QED
    BY <1>2 DEF KeptAll, Kept

LEMMA NilIsNoMap == Nil # Object
  BY DEF Nil, Object

LEMMA CollapseKept ==
    ASSUME SensibleCases, case \in Cases, NEW m, IsItem(m), NEW i \in Numbers, NEW C, KeptAll(m, C)
    PROVE  KeptAll(collapseEmpty(m, i), C)
  <1>1. CASE collapseEmpty(m, i) = m
    BY <1>1
  <1>2. ASSUME NEW p \in {Source(i), Target(i)}, p \in DOMAIN m, IsObject(m, Front(p)),
               collapseEmpty(m, i) = Put(m, p, Nil)
        PROVE  KeptAll(collapseEmpty(m, i), C)
    <2>1. p \in ItemPath /\ p # <<>>
      BY <1>2, FieldPaths
    <2>2. p \in KnownPaths(Unrenamed, Numbers, Numbered("has_many"))
      BY <1>2 DEF KeptAll, Kept, Knows
    <2>3. KeptAll(Put(m, p, Nil), C)
      BY <1>2, <2>1, <2>2, NilIsNoMap, PutKeepsAll
    <2> QED
      BY <1>2, <2>3
  <1> QED
    BY <1>1, <1>2, CollapseItem

(* A field that is no container has a place of its own.                     *)
LEMMA OwnTarget ==
    ASSUME SensibleCases, case \in Cases, NEW i \in Numbers, F(i).type # "belongs_to"
    PROVE  Target(i) \notin Chains /\ \A c \in Containers : Target(i) # Target(c)
  <1>1. Target(i) # <<>> /\ \A c \in Containers : Target(i) # Source(c)
    BY FieldPaths, ChainsApart
  <1>2. ASSUME NEW c \in Containers, Target(i) = Target(c)
        PROVE  FALSE
    <2>1. c \in Numbers /\ c # i
      BY ContainerFacts
    <2>2. F(i).prefix = F(c).prefix /\ fieldKey(F(i)) = fieldKey(F(c))
      BY <1>2, <2>1, FieldPaths
    <2> QED
      BY <2>1, <2>2, Apart
  <1> QED
    BY <1>1, <1>2 DEF Chains

LEMMA NamedTarget ==
    ASSUME SensibleCases, case \in Cases, NEW i \in Numbers, Named(i)
    PROVE  Target(i) \in KnownPaths(Unrenamed, Numbers, Numbered("has_many"))
  <1>1. Below(Unrenamed, i, fieldKey(F(i))) = Target(i)
    BY PlainPaths
  <1> QED
    BY <1>1 DEF KnownPaths

LEMMA LocalizeKept ==
    ASSUME SensibleCases, case \in Cases, NEW m, IsItem(m), NEW i \in Numbers,
           F(i).prefix = <<>>, F(i).localize, NEW C, KeptAll(m, C)
    PROVE  KeptAll(applyLocalization(m, i), C)
  <1>1. CASE applyLocalization(m, i) = m
    BY <1>1
  <1>2. ASSUME NEW v, applyLocalization(m, i) = Put(m, Target(i), v)
        PROVE  KeptAll(applyLocalization(m, i), C)
    <2>1. F(i).type = "column"
      BY Kinds
    <2>2. Named(i)
      BY <2>1 DEF Named, Containers, Numbered
    <2>3. /\ Target(i) \in ItemPath /\ Target(i) # <<>> /\ Front(Target(i)) = <<>>
          /\ IsObject(m, <<>>)
      BY FieldPaths DEF IsItem
    <2>4. KeptAll(Put(m, Target(i), v), C)
      BY <2>1, <2>2, <2>3, OwnTarget, NamedTarget, PutKeepsAll
    <2> QED
      BY <1>2, <2>4
  <1> QED
    BY <1>1, <1>2, LocalizeItem

LEMMA NodeKept ==
    ASSUME SensibleCases, case \in Cases, NEW m, IsItem(m), NEW i \in Numbers, IsNode(F(i)),
           NEW C, KeptAll(m, C)
    PROVE  KeptAll(executeNode(m, i), C)
  <1>1. CASE executeNode(m, i) = m
    BY <1>1
  <1>2. ASSUME NEW v, executeNode(m, i) = Put(m, Target(i), v), IsObject(m, F(i).prefix),
               F(i).type # "nested_field" => v # Object
        PROVE  KeptAll(executeNode(m, i), C)
    <2>1. Named(i)
      BY DEF Named, IsNode, Containers, Numbered
    <2>2. Target(i) \in ItemPath /\ Target(i) # <<>> /\ IsObject(m, Front(Target(i)))
      BY <1>2, FieldPaths
    <2>3. v = Object => Target(i) \notin Chains /\ \A c \in Containers : Target(i) # Target(c)
      BY <1>2, OwnTarget
    <2>4. KeptAll(Put(m, Target(i), v), C)
      BY <2>1, <2>2, <2>3, NamedTarget, PutKeepsAll
    <2> QED
      BY <1>2, <2>4
  <1>3. \/ executeNode(m, i) = m
        \/ \E v : /\ executeNode(m, i) = Put(m, Target(i), v) /\ IsObject(m, F(i).prefix)
                  /\ F(i).type # "nested_field" => v # Object
    BY NodeItem
  <1>4. CASE executeNode(m, i) # m
    <2>1. PICK v : /\ executeNode(m, i) = Put(m, Target(i), v) /\ IsObject(m, F(i).prefix)
                   /\ F(i).type # "nested_field" => v # Object
      BY <1>3, <1>4
    <2> QED
      BY <1>2, <2>1
  <1> QED
    BY <1>1, <1>4

(* A formatter writes wherever there is a map to write into.                *)
LEMMA NodeComputed ==
    ASSUME SensibleCases, case \in Cases, NEW m, IsItem(m), NEW i \in Numbers, IsNode(F(i)),
           NEW C, KeptAll(m, C)
    PROVE  KeptAll(executeNode(m, i), C \cup {i})
  <1> DEFINE w == executeNode(m, i)
  <1>1. KeptAll(w, C)
    BY NodeKept
  <1>2. F(i).type = "formatter" /\ IsObject(w, F(i).prefix) => Target(i) \in DOMAIN w
    <2> SUFFICES ASSUME F(i).type = "formatter", IsObject(w, F(i).prefix)
                 PROVE  Target(i) \in DOMAIN w
      OBVIOUS
    <2>1. CASE IsObject(m, F(i).prefix)
      <3>1. F(i).alias # NoAlias
        BY Kinds
      <3>2. Append(F(i).prefix, F(i).alias) = Target(i)
        BY <3>1 DEF Target, fieldKey
      <3>3. w = Put(m, Target(i), Str(applyFormatter(F(i).template, m, F(i).prefix)))
        BY <2>1, <3>2 DEF executeNode
      <3> QED
        BY <3>3 DEF Put
    <2>2. CASE ~IsObject(m, F(i).prefix)
      <3>1. w = m
        BY <2>2 DEF executeNode
      <3> QED
        BY <2>2, <3>1
    <2> QED
      BY <2>1, <2>2
  <1> HIDE DEF w
  <1>3. PathIn(Unrenamed, F(i).prefix) = F(i).prefix /\ (i \notin Containers => PlaceIn(Unrenamed, i) = Target(i))
    BY PlainPaths, PrefixIsChain
  <1>4. Present(w, Unrenamed, Numbers, C \cup {i})
    <2>1. F(i).type = "formatter" => i \notin Containers
      BY DEF Containers, Numbered
    <2> QED
      BY <1>1, <1>2, <1>3, <2>1 DEF KeptAll, Kept, Present
  <1> QED
    BY <1>1, <1>4 DEF KeptAll, Kept, w

(* A container is renamed after those in it and before the one around it;   *)
(* R have their aliases before the step, T after it.                       *)
LEMMA RenameTurn ==
    ASSUME SensibleCases, ItemInv, KeysInv, stage = "rename", NEW i \in Numbers, Turn(i)
    PROVE  LET R == Unrenamed \cup (Containers \cap done)
               T == Unrenamed \cup (Containers \cap (done \cup {i}))
           IN  /\ HasOtherName(F(i)) /\ F(i).type \in {"belongs_to", "has_many"}
               /\ PathIn(R, F(i).prefix) = F(i).prefix
               /\ F(i).type = "belongs_to" => i \notin R /\ Ready(R, i) /\ T = R \cup {i}
               /\ F(i).type = "has_many" => i \in Numbered("has_many") /\ i \notin Containers /\ T = R
  <1> DEFINE R == Unrenamed \cup (Containers \cap done)
             T == Unrenamed \cup (Containers \cap (done \cup {i}))
  <1>0. case \in Cases
    BY DEF ItemInv
  <1>1. /\ \A d \in done : \A j \in Work : j < d => j \in done
        /\ i \in Work \ done
    BY DEF KeysInv, Turn
  <1>2. HasOtherName(F(i)) /\ F(i).type \in {"belongs_to", "has_many"}
    BY <1>1, WorkIs
  <1>3. PathIn(R, F(i).prefix) = F(i).prefix
    <2>1. F(i).prefix \in Chains
      BY <1>0, PrefixIsChain
    <2>2. ASSUME NEW c \in Containers, IsPrefix(Source(c), F(i).prefix), c \in R
          PROVE  ~HasOtherName(F(c))
      <3>1. i < c
        BY <1>0, <2>2, ContentsFirst
      <3>2. c \notin done
        BY <1>1, <3>1
      <3> QED
        BY <2>2, <3>2 DEF Unrenamed
    <2> HIDE DEF R
    <2> QED
      BY <1>0, <2>1, <2>2, PathUnchanged
  <1>4. ASSUME F(i).type = "belongs_to"
        PROVE  i \notin R /\ Ready(R, i) /\ T = R \cup {i}
    <2>1. i \in Containers /\ i \notin R
      BY <1>1, <1>2, <1>4 DEF Containers, Numbered, Unrenamed
    <2>2. PathIn(R, Source(i)) = Append(PathIn(R, F(i).prefix), KeyIn(R, i))
      BY <1>0, <2>1, PathStep
    <2>3. Ready(R, i)
      BY <1>3, <2>1, <2>2 DEF Ready, KeyIn, Source
    <2> QED
      BY <2>1, <2>3
  <1>5. ASSUME F(i).type = "has_many"
        PROVE  i \in Numbered("has_many") /\ i \notin Containers /\ T = R
    <2>1. i \in Numbered("has_many") /\ i \notin Containers
      BY <1>5 DEF Containers, Numbered
    <2> QED
      BY <2>1
  <1> HIDE DEF R, T
  <1>6. /\ HasOtherName(F(i)) /\ F(i).type \in {"belongs_to", "has_many"}
        /\ PathIn(R, F(i).prefix) = F(i).prefix
        /\ F(i).type = "belongs_to" => i \notin R /\ Ready(R, i) /\ T = R \cup {i}
        /\ F(i).type = "has_many" => i \in Numbered("has_many") /\ i \notin Containers /\ T = R
    BY <1>2, <1>3, <1>4, <1>5
  <1> QED
    BY <1>6 DEF R, T

LEMMA RenameKept ==
    ASSUME SensibleCases, ItemInv, KeysInv, stage = "rename",
           NEW i \in Numbers, Turn(i)
    PROVE  Kept(applyPresetAlias(item, i), Unrenamed \cup (Containers \cap (done \cup {i})),
                VisibleFields, ShownKeys, Numbers)
  <1> DEFINE R == Unrenamed \cup (Containers \cap done)
             T == Unrenamed \cup (Containers \cap (done \cup {i}))
             w == applyPresetAlias(item, i)
  <1>0. /\ case \in Cases /\ IsItem(item)
        /\ VisibleFields \subseteq Numbers /\ ShownKeys \subseteq Numbered("has_many")
    BY DEF ItemInv, VisibleFields, ShownKeys
  <1>1. /\ Knows(item, R, VisibleFields, ShownKeys)
        /\ Present(item, R, VisibleFields, Numbers)
        /\ Free(item, R)
    BY NamesNow DEF KeysInv
  <1>2. /\ done \subseteq Work /\ \A d \in done : \A j \in Work : j < d => j \in done
        /\ i \in Work \ done /\ \A j \in Work : j < i => j \in done
    BY DEF KeysInv, Turn
  <1>3. Work = {j \in Numbers : HasOtherName(F(j)) /\ F(j).type \in {"belongs_to", "has_many"}}
    BY WorkIs
  <1>4. HasOtherName(F(i)) /\ F(i).type \in {"belongs_to", "has_many"}
    BY <1>2, <1>3
  <1>5. \A c \in Containers : c \in Numbers /\ F(c).type = "belongs_to" /\ Numbers \subseteq Nat
    BY <1>0, ContainerFacts, CaseFields
  <1>6. /\ PathIn(R, F(i).prefix) = F(i).prefix
        /\ F(i).type = "belongs_to" => i \notin R /\ Ready(R, i) /\ T = R \cup {i}
        /\ F(i).type = "has_many" => i \in Numbered("has_many") /\ i \notin Containers /\ T = R
    BY RenameTurn
  <1>7. CASE F(i).type = "belongs_to"
    <2>1. i \in Containers /\ i \notin R
      BY <1>6, <1>7 DEF Ready
    <2>2. Ready(R, i)
      BY <1>6, <1>7
    <2>3. \A c \in Containers \ R : c # i => ~IsPrefix(Source(i), F(c).prefix)
      <3> SUFFICES ASSUME NEW c \in Containers \ R, c # i, IsPrefix(Source(i), F(c).prefix)
                   PROVE  FALSE
        OBVIOUS
      <3>1. c < i
        BY <1>0, <1>5, <2>1, ContentsFirst
      <3>2. c \in Work
        BY <1>3, <1>5 DEF Unrenamed
      <3> QED
        BY <1>2, <3>1, <3>2
    <2>4. T = R \cup {i}
      BY <1>6, <1>7
    <2> HIDE DEF R, T
    <2>5. /\ Knows(w, R \cup {i}, VisibleFields, ShownKeys)
          /\ Present(w, R \cup {i}, VisibleFields, Numbers)
          /\ Free(w, R \cup {i})
      BY <1>0, <1>1, <1>4, <2>2, <2>3, RenameKnows, RenamePresent, RenameFree
    <2>6. Kept(w, T, VisibleFields, ShownKeys, Numbers)
      BY <2>4, <2>5 DEF Kept
    <2> QED
      BY <2>6 DEF T
  <1>8. CASE F(i).type = "has_many"
    <2>1. i \in Numbered("has_many") /\ T = R
      BY <1>6, <1>8
    <2> HIDE DEF R, T
    <2>3. Source(i) \notin KnownPaths(R, VisibleFields, ShownKeys)
      BY <1>0, <1>4, <1>6, <2>1, ManyNotThere
    <2>4. w = item
      BY <1>1, <2>3 DEF Knows, applyPresetAlias
    <2>5. Kept(w, T, VisibleFields, ShownKeys, Numbers)
      BY <1>1, <2>1, <2>4 DEF Kept
    <2> QED
      BY <2>5 DEF T
  <1> QED
    BY <1>4, <1>7, <1>8

LEMMA RemoveKept ==
    ASSUME SensibleCases, case \in Cases, NEW m, IsItem(m), KeptAll(m, Numbers)
    PROVE  Kept(RemoveInternal(m), Unrenamed, VisibleFields, ShownKeys, Numbers)
  BY RemoveKeeps DEF KeptAll, Kept

LEMMA AttachKept ==
    ASSUME SensibleCases, case \in Cases, NEW m, Filled(m)
    PROVE  KeptAll(AttachBranches(m), {})
  BY AttachFills, FilledKnows DEF KeptAll, Kept
-----------------------------------------------------------------------------
(* All steps.                                                              *)

LEMMA SameWork ==
    ASSUME case' = case, stage' = stage
    PROVE  Work' = Work
  BY DEF Work, Numbers, Numbered, F, HasOtherName, IsNode

KeptNext == Kept(item', Renamed', Left', KeysLeft', Computed')

LEMMA KeysKeptSo ==
    ASSUME case' = case, KeptNext,
           stage' \in {"remove", "done"} => done' = {},
           stage' \notin {"scan", "attach"},
           stage' = "rename" => /\ done' \subseteq Work'
                                /\ \A i \in done' : \A j \in Work' : j < i => j \in done'
    PROVE  KeysInv'
  <1>1. /\ Knows(item, Renamed, Left, KeysLeft)'
        /\ Present(item, Renamed, Left, Computed)'
        /\ Free(item, Renamed)'
    BY SameKept DEF KeptNext
  <1> QED
    BY <1>1 DEF KeysInv

LEMMA KeysStep ==
    ASSUME SensibleCases, ItemInv, KeysInv, [FinalizeNext]_finalizeVars
    PROVE  KeysInv'
  <1>0. /\ case \in Cases /\ stage \in Stages /\ done \subseteq Numbers
        /\ stage # "scan" => IsItem(item)
    BY DEF ItemInv
  <1>1. stage \notin {"scan", "attach"} => Kept(item, Renamed, Left, KeysLeft, Computed)
    BY DEF KeysInv, Kept
  <1>2. stage \in {"alias", "collapse", "localize", "format", "remove"} => KeptAll(item, Computed)
    BY <1>1, NamesNow DEF KeptAll, Early
  <1>3. stage = "rename" => Kept(item, Unrenamed \cup (Containers \cap done), VisibleFields, ShownKeys, Numbers)
    BY <1>1, NamesNow
  <1>4. CASE UNCHANGED finalizeVars
    <2>1. case' = case /\ item' = item /\ stage' = stage /\ done' = done
      BY <1>4 DEF finalizeVars
    <2>2. Work' = Work
      BY <2>1, SameWork
    <2>3. CASE stage \in {"scan", "attach"}
      BY <2>1, <2>3 DEF KeysInv
    <2>4. CASE stage \notin {"scan", "attach"}
      <3>1. /\ Renamed' = Renamed /\ Left' = Left /\ KeysLeft' = KeysLeft /\ Computed' = Computed
        BY <1>0, <2>1, <2>4, NamesNow, NamesNext DEF Stages, Early
      <3>2. KeptNext
        BY <1>1, <2>1, <2>4, <3>1 DEF KeptNext
      <3> QED
        BY <2>1, <2>2, <2>4, <3>2, KeysKeptSo DEF KeysInv
    <2> QED
      BY <2>3, <2>4
  <1>5. CASE FinalizeNext
    <2>0. case' = case
      BY <1>5, Actions
    <2>1. CASE stage = "scan" /\ stage' = "attach" /\ item' = ScanColumns /\ done' = done
      BY <2>1 DEF KeysInv
    <2>2. CASE stage = "attach" /\ stage' = "alias" /\ item' = AttachBranches(item) /\ done' = done
      <3>1. KeptAll(item', {})
        BY <1>0, <2>2, AttachKept DEF ItemInv
      <3>2. /\ Renamed' = Unrenamed /\ Left' = Numbers /\ KeysLeft' = Numbered("has_many") /\ Computed' = {}
        BY <2>0, <2>2, NamesNext DEF Early
      <3>3. KeptNext
        BY <3>1, <3>2 DEF KeptNext, KeptAll
      <3> QED
        BY <2>0, <2>2, <3>3, KeysKeptSo
    <2>3. CASE stage = "remove" /\ stage' = "rename" /\ item' = RemoveInternal(item) /\ done' = done
      <3>1. done' = {}
        BY <2>3 DEF KeysInv
      <3>2. Kept(item', Unrenamed, VisibleFields, ShownKeys, Numbers)
        BY <1>0, <1>2, <2>3, NamesNow, RemoveKept
      <3>3. Unrenamed \cup (Containers \cap done') = Unrenamed
        BY <3>1
      <3>4. /\ Renamed' = Unrenamed /\ Left' = VisibleFields /\ KeysLeft' = ShownKeys /\ Computed' = Numbers
        BY <2>0, <2>3, <3>3, NamesNext
      <3>5. KeptNext
        BY <3>2, <3>4 DEF KeptNext
      <3> QED
        BY <2>0, <2>3, <3>1, <3>5, KeysKeptSo
    <2>4. CASE /\ stage \in {"alias", "collapse", "localize", "format", "rename"} /\ stage' = After[stage]
               /\ item' = item /\ Work \subseteq done /\ done' = {}
      <3>1. CASE stage \in {"alias", "collapse", "localize"}
        <4>1. stage' \in {"collapse", "localize", "format"}
          BY <2>4, <3>1, AfterIs
        <4>2. /\ Renamed' = Unrenamed /\ Left' = Numbers /\ KeysLeft' = Numbered("has_many") /\ Computed' = {}
          BY <2>0, <2>4, <4>1, NamesNext DEF Early
        <4>3. KeptAll(item', {})
          BY <1>2, <2>4, <3>1, NamesNow
        <4>4. KeptNext
          BY <4>2, <4>3 DEF KeptNext, KeptAll
        <4> QED
          BY <2>0, <2>4, <4>1, <4>4, KeysKeptSo
      <3>2. CASE stage = "format"
        <4>1. stage' = "remove"
          BY <2>4, <3>2, AfterIs
        <4>2. /\ Renamed' = Unrenamed /\ Left' = Numbers /\ KeysLeft' = Numbered("has_many") /\ Computed' = Numbers
          BY <2>0, <4>1, NamesNext DEF Early
        <4>3. \A j \in Numbers : F(j).type = "formatter" => j \in done
          BY <2>4, <3>2, WorkIs DEF IsNode
        <4>4. KeptAll(item, done)
          BY <1>2, <3>2, NamesNow
        <4>5. KeptAll(item, Numbers)
          BY <4>3, <4>4 DEF KeptAll, Kept, Present
        <4>6. KeptNext
          BY <2>4, <4>2, <4>5 DEF KeptNext, KeptAll
        <4> QED
          BY <2>0, <2>4, <4>1, <4>6, KeysKeptSo
      <3>3. CASE stage = "rename"
        <4>1. stage' = "done"
          BY <2>4, <3>3, AfterIs
        <4>2. /\ Renamed' = Containers /\ Left' = VisibleFields /\ KeysLeft' = ShownKeys /\ Computed' = Numbers
          BY <2>0, <4>1, NamesNext
        <4>3. \A c \in Containers : HasOtherName(F(c)) => c \in done
          BY <1>0, <2>4, <3>3, WorkIs, ContainerFacts
        <4>4. Unrenamed \cup (Containers \cap done) = Containers
          BY <4>3 DEF Unrenamed
        <4>5. KeptNext
          BY <1>3, <2>4, <3>3, <4>2, <4>4 DEF KeptNext
        <4> QED
          BY <2>0, <2>4, <4>1, <4>5, KeysKeptSo
      <3> QED
        BY <2>4, <3>1, <3>2, <3>3
    <2>5. ASSUME NEW i \in Numbers, stage' = stage, Turn(i), i \in Work, done' = done \cup {i},
                 \/ stage = "alias" /\ item' = applyFieldAlias(item, i)
                 \/ stage = "collapse" /\ item' = collapseEmpty(item, i)
                 \/ stage = "localize" /\ item' = applyLocalization(item, i)
                 \/ stage = "format" /\ item' = executeNode(item, i)
                 \/ stage = "rename" /\ item' = applyPresetAlias(item, i)
          PROVE  KeysInv'
      <3>0. IsItem(item) /\ stage' \notin {"scan", "attach", "remove", "done"}
        BY <1>0, <2>5
      <3>1. CASE stage \in {"alias", "collapse", "localize"}
        <4>1. KeptAll(item, {})
          BY <1>2, <3>1, NamesNow
        <4>2. KeptAll(item', {})
          <5>1. CASE stage = "alias" /\ item' = applyFieldAlias(item, i)
            <6>1. F(i).prefix = <<>> /\ F(i).type \in {"column", "nested_field"}
              BY <2>5, <5>1, WorkIs
            <6>2. item' = item
              BY <1>0, <5>1, <6>1, AliasKeeps DEF ItemInv
            <6> QED
              BY <4>1, <6>2
          <5>2. CASE stage = "collapse" /\ item' = collapseEmpty(item, i)
            BY <1>0, <3>0, <4>1, <5>2, CollapseKept
          <5>3. CASE stage = "localize" /\ item' = applyLocalization(item, i)
            <6>1. F(i).prefix = <<>> /\ F(i).localize
              BY <2>5, <5>3, WorkIs
            <6> QED
              BY <1>0, <3>0, <4>1, <5>3, <6>1, LocalizeKept
          <5> QED
            BY <2>5, <3>1, <5>1, <5>2, <5>3
        <4>3. /\ Renamed' = Unrenamed /\ Left' = Numbers /\ KeysLeft' = Numbered("has_many") /\ Computed' = {}
          BY <2>0, <2>5, <3>1, NamesNext DEF Early
        <4>4. KeptNext
          BY <4>2, <4>3 DEF KeptNext, KeptAll
        <4> QED
          BY <2>0, <2>5, <3>0, <3>1, <4>4, KeysKeptSo
      <3>2. CASE stage = "format"
        <4>1. KeptAll(item, done) /\ IsNode(F(i))
          BY <1>2, <2>5, <3>2, NamesNow, WorkIs
        <4>2. KeptAll(item', done')
          BY <1>0, <2>5, <3>0, <3>2, <4>1, NodeComputed
        <4>3. /\ Renamed' = Unrenamed /\ Left' = Numbers /\ KeysLeft' = Numbered("has_many") /\ Computed' = done'
          BY <2>0, <2>5, <3>2, NamesNext DEF Early
        <4>4. KeptNext
          BY <4>2, <4>3 DEF KeptNext, KeptAll
        <4> QED
          BY <2>0, <2>5, <3>0, <3>2, <4>4, KeysKeptSo
      <3>3. CASE stage = "rename"
        <4>1. Kept(item', Unrenamed \cup (Containers \cap done'), VisibleFields, ShownKeys, Numbers)
          BY <2>5, <3>3, RenameKept
        <4>2. /\ Renamed' = Unrenamed \cup (Containers \cap done')
              /\ Left' = VisibleFields /\ KeysLeft' = ShownKeys /\ Computed' = Numbers
          BY <2>0, <2>5, <3>3, NamesNext
        <4>3. KeptNext
          BY <4>1, <4>2 DEF KeptNext
        <4>4. Work' = Work
          BY <2>0, <2>5, SameWork
        <4>5. done \subseteq Work /\ \A d \in done : \A j \in Work : j < d => j \in done
          BY <3>3 DEF KeysInv
        <4>6. \A j \in Work : j < i => j \in done
          BY <2>5, <3>3 DEF Turn
        <4>7. done' \subseteq Work' /\ \A d \in done' : \A j \in Work' : j < d => j \in done'
          BY <2>5, <4>4, <4>5, <4>6
        <4> QED
          BY <2>0, <3>0, <4>3, <4>7, KeysKeptSo
      <3> QED
        BY <2>5, <3>1, <3>2, <3>3
    <2> QED
      BY <1>5, <2>1, <2>2, <2>3, <2>4, <2>5, Actions
  <1> QED
    BY <1>4, <1>5

LEMMA KeysInit ==
    ASSUME FinalizeInit
    PROVE  KeysInv
  BY DEF FinalizeInit, KeysInv

LEMMA KeysEnd ==
    ASSUME SensibleCases, ItemInv, KeysInv
    PROVE  OnlyVisibleKeys
  <1> SUFFICES ASSUME stage = "done"
               PROVE  /\ DOMAIN item \subseteq {<<>>} \cup VisiblePaths
                      /\ \A i \in Numbers :
                            Visible(i) /\ F(i).type # "nested_field" /\ IsObject(item, ClientPath(F(i).prefix)) =>
                                Append(ClientPath(F(i).prefix), fieldKey(F(i))) \in DOMAIN item
    BY DEF OnlyVisibleKeys, Done
  <1>0. case \in Cases
    BY DEF ItemInv
  <1>1. /\ Knows(item, Containers, VisibleFields, ShownKeys)
        /\ Present(item, Containers, VisibleFields, Numbers)
    BY NamesNow DEF KeysInv
  <1>2. \A i \in Numbers : PathIn(Containers, F(i).prefix) = ClientPath(F(i).prefix)
    BY <1>0, ClientPathIs, PrefixIsChain
  <1>3. \A i \in Numbers : \A key : Below(Containers, i, key) = Append(ClientPath(F(i).prefix), key)
    BY <1>2 DEF Below
  <1>4. \A c \in Containers : /\ c \in Numbers
                              /\ PathIn(Containers, Source(c)) = Append(ClientPath(F(c).prefix), fieldKey(F(c)))
    BY <1>0, <1>3, ContainerFacts, ContainerPlace DEF KeyIn
  <1>5. \A i \in Numbers : PlaceIn(Containers, i) = Append(ClientPath(F(i).prefix), fieldKey(F(i)))
    BY <1>3 DEF PlaceIn, KeyIn
  <1>6. KnownPaths(Containers, VisibleFields, ShownKeys) \subseteq {<<>>} \cup VisiblePaths
    <2>1. \A c \in Containers \cap VisibleFields : PathIn(Containers, Source(c)) \in VisiblePaths
      BY <1>4 DEF VisibleFields, VisiblePaths
    <2>2. \A i \in VisibleFields : Below(Containers, i, fieldKey(F(i))) \in VisiblePaths
      BY <1>3 DEF VisibleFields, VisiblePaths
    <2>3. \A i \in ShownKeys : Below(Containers, i, "id") \in VisiblePaths
      BY <1>3 DEF ShownKeys, VisiblePaths, Numbered
    <2> QED
      BY <2>1, <2>2, <2>3 DEF KnownPaths
  <1>7. ASSUME NEW i \in Numbers, Visible(i), F(i).type # "nested_field", IsObject(item, ClientPath(F(i).prefix))
        PROVE  Append(ClientPath(F(i).prefix), fieldKey(F(i))) \in DOMAIN item
    <2>1. i \in VisibleFields
      BY <1>7 DEF VisibleFields
    <2>2. PlaceIn(Containers, i) \in DOMAIN item
      BY <1>1, <1>2, <1>7, <2>1 DEF Present
    <2> QED
      BY <1>5, <2>2
  <1> QED
    BY <1>1, <1>6, <1>7 DEF Knows

(* What has left the server is what the preset shows and all it shows: from *)
(* the rows to the response every pass knows each key of the item, at any   *)
(* depth, and loses none (FinalizeItems: applyFieldAliases to               *)
(* applyPresetAliases, collectInternalMarkers, deletePrefix).               *)
THEOREM OnlyVisibleKeysAlways ==
    ASSUME SensibleCases
    PROVE  FinalizeSpec => []OnlyVisibleKeys
  <1>1. FinalizeInit => ItemInv /\ KeysInv
    BY ItemInit, KeysInit
  <1>2. ItemInv /\ KeysInv /\ [FinalizeNext]_finalizeVars => (ItemInv /\ KeysInv)'
    BY ItemStep, KeysStep
  <1>3. ItemInv /\ KeysInv => OnlyVisibleKeys
    BY KeysEnd
  <1> QED
    BY <1>1, <1>2, <1>3, PTL DEF FinalizeSpec
-----------------------------------------------------------------------------
(* Containers and what the database holds for them.                        *)

(* One that has not had its turn: it holds its columns, and anything else   *)
(* in it that would keep it shows that one of them is not null.             *)
Intact(m, c) ==
    /\ IsObject(m, Source(c))
    /\ \A j \in Numbers : ReadsColumn(j) /\ F(j).prefix = Source(c) =>
          ColumnPath(j) \in DOMAIN m /\ m[ColumnPath(j)] = Value(j)
    /\ \A q \in DOMAIN m : q # <<>> /\ Front(q) = Source(c) /\ IsScalar(m[q]) =>
          ~(OwnColumns(Source(c)) \subseteq {Nil})

(* One that has had it. *)
Outcome(c) == IF OwnColumns(Source(c)) \subseteq {Nil} THEN Nil ELSE Object
Decided(m, R, c) == PlaceIn(R, c) \in DOMAIN m => m[PlaceIn(R, c)] = Outcome(c)

DataInv ==
    /\ stage = "alias" => \A c \in Containers : Intact(item, c)
    /\ stage = "collapse" =>
          /\ \A c \in Containers \ done : Intact(item, c)
          /\ \A c \in VisibleContainers \cap done : Decided(item, Unrenamed, c)
    /\ stage \in {"localize", "format", "remove", "rename", "done"} =>
          \A c \in VisibleContainers : Decided(item, Renamed, c)

LEMMA TagsDiffer ==
    /\ ~IsScalar(Nil) /\ ~IsScalar(Object) /\ ~IsScalar(List(<<>>))
    /\ Nil # Object
  BY DEF IsScalar, Nil, Object, List

LEMMA AttachIntact ==
    ASSUME SensibleCases, case \in Cases, NEW m, Filled(m), NEW c \in Containers
    PROVE  Intact(AttachBranches(m), c)
  <1> DEFINE w == AttachBranches(m)
             Of(path) == {i \in Numbered("has_many") : Target(i) = path}
  <1>1. Filled(w)
    BY AttachFills
  <1>2. /\ DOMAIN w = DOMAIN m \cup {Target(i) : i \in Numbered("has_many")}
        /\ \A q \in DOMAIN w : w[q] = IF Of(q) = {} THEN m[q] ELSE ChildRows(m, Max(Of(q)))
    BY DEF AttachBranches
  <1> HIDE DEF w
  <1>3. IsObject(w, Source(c))
    BY <1>1, ContainerFacts DEF Filled
  <1>4. \A j \in Numbers : ReadsColumn(j) => ColumnPath(j) \in DOMAIN w /\ w[ColumnPath(j)] = Value(j)
    BY <1>1 DEF Filled
  <1>5. ASSUME NEW q \in DOMAIN w, q # <<>>, Front(q) = Source(c), IsScalar(w[q])
        PROVE  ~(OwnColumns(Source(c)) \subseteq {Nil})
    <2>1. q \notin Chains
      BY <1>1, <1>5, TagsDiffer DEF Filled, IsObject
    <2>2. ASSUME NEW j \in Numbers, ReadsColumn(j), F(j).prefix = Source(c), Value(j) # Nil
          PROVE  ~(OwnColumns(Source(c)) \subseteq {Nil})
      BY <2>2 DEF OwnColumns
    <2>3. CASE Of(q) = {}
      <3>1. q \in AllColumns
        BY <1>1, <1>2, <1>5, <2>1, <2>3 DEF Filled, HasManyPaths
      <3>2. PICK j \in Numbers : ReadsColumn(j) /\ q = ColumnPath(j)
        BY <3>1 DEF AllColumns
      <3>3. F(j).prefix = Source(c)
        BY <1>5, <3>2, ColumnPaths
      <3>4. Value(j) # Nil
        BY <1>4, <1>5, <3>2, TagsDiffer
      <3> QED
        BY <2>2, <3>2, <3>3, <3>4
    <2>4. CASE Of(q) # {}
      <3> DEFINE j == Max(Of(q))
      <3>1. Of(q) \subseteq Numbers
        BY DEF Numbered
      <3>2. j \in Of(q)
        BY <2>4, <3>1, MaxOfNumbers
      <3>3. j \in Numbers /\ F(j).type = "has_many" /\ Target(j) = q
        BY <3>2 DEF Numbered
      <3> HIDE DEF j
      <3>4. F(j).prefix = Source(c)
        BY <1>5, <3>3, FieldPaths
      <3>5. ReadsColumn(j) /\ ColumnPath(j) = Append(F(j).prefix, "id")
        BY <3>3 DEF ReadsColumn, ColumnPath
      <3>6. F(j).prefix \o <<"id">> = ColumnPath(j)
        <4>1. F(j).prefix \in Seq(Keys) /\ "id" \in Keys
          BY <3>3, CaseFields DEF ItemPath, Keys
        <4> QED
          BY <3>5, <4>1, AppendIsOne
      <3>7. w[q] = ChildRows(m, j)
        BY <1>2, <2>4 DEF j
      <3>8. getNested(m, F(j).prefix, <<"id">>) # Nil
        BY <1>5, <3>7, TagsDiffer DEF ChildRows
      <3>9. Value(j) # Nil
        BY <3>3, <3>5, <3>6, <3>8 DEF getNested, Filled
      <3> QED
        BY <2>2, <3>3, <3>4, <3>5, <3>9
    <2> QED
      BY <2>3, <2>4
  <1>6. Intact(w, c)
    BY <1>3, <1>4, <1>5 DEF Intact
  <1> QED
    BY <1>6 DEF w

(* A container collapses exactly if its columns are null. *)
LEMMA CollapseDecides ==
    ASSUME SensibleCases, case \in Cases, NEW m, IsItem(m), NEW i \in Containers, Intact(m, i),
           Free(m, Unrenamed)
    PROVE  /\ collapseEmpty(m, i) = IF OwnColumns(Source(i)) \subseteq {Nil} THEN Put(m, Source(i), Nil) ELSE m
           /\ Decided(collapseEmpty(m, i), Unrenamed, i)
  <1>0. /\ i \in Numbers /\ Source(i) \in ItemPath /\ Source(i) # <<>> /\ PlaceIn(Unrenamed, i) = Source(i)
        /\ IsObject(m, Source(i))
    BY ContainerFacts, PlainPaths DEF Intact
  <1>1. ~(Source(i) # Target(i) /\ IsObject(m, Target(i)))
    <2>1. Source(i) # Target(i) => i \in Containers \ Unrenamed
      BY <1>0, FieldPaths DEF Unrenamed
    <2>2. Below(Unrenamed, i, fieldKey(F(i))) = Target(i)
      BY <1>0, PlainPaths
    <2> QED
      BY <2>1, <2>2 DEF Free
  <1>2. isEmptyMap(m, Source(i)) <=> OwnColumns(Source(i)) \subseteq {Nil}
    <2>1. ASSUME OwnColumns(Source(i)) \subseteq {Nil}
          PROVE  isEmptyMap(m, Source(i))
      BY <2>1 DEF isEmptyMap, Intact
    <2>2. ASSUME NEW v \in OwnColumns(Source(i)), v # Nil
          PROVE  ~isEmptyMap(m, Source(i))
      <3>1. PICK j \in Numbers : ReadsColumn(j) /\ F(j).prefix = Source(i) /\ v = Value(j)
        BY DEF OwnColumns
      <3>2. IsScalar(Value(j))
        <4>1. Value(j) = Nil \/ IsScalar(Value(j))
          BY <3>1 DEF SensibleCases, ScalarColumns, Value, Reads, ReadsColumn, F, Numbers
        <4> QED
          BY <2>2, <3>1, <4>1
      <3>3. ColumnPath(j) \in DOMAIN m /\ m[ColumnPath(j)] = Value(j)
        BY <3>1 DEF Intact
      <3>4. ColumnPath(j) # <<>> /\ Front(ColumnPath(j)) = Source(i)
        BY <3>1, ColumnPaths
      <3> QED
        BY <3>2, <3>3, <3>4 DEF isEmptyMap
    <2> QED
      BY <2>1, <2>2
  <1>3. collapseEmpty(m, i) = IF isEmptyMap(m, Source(i)) THEN Put(m, Source(i), Nil) ELSE m
    BY <1>0, <1>1 DEF collapseEmpty
  <1>4. Put(m, Source(i), Nil)[Source(i)] = Nil
    BY DEF Put
  <1> QED
    BY <1>0, <1>2, <1>3, <1>4 DEF Decided, Outcome, IsObject

(* It does not reach into containers that are still to come.               *)
LEMMA CollapseIntact ==
    ASSUME SensibleCases, case \in Cases, NEW m, IsItem(m), NEW i \in Containers, NEW c \in Containers,
           c # i, ~IsPrefix(Source(i), F(c).prefix), Intact(m, c)
    PROVE  Intact(Put(m, Source(i), Nil), c)
  <1> DEFINE w == Put(m, Source(i), Nil)
  <1>0. /\ i \in Numbers /\ Source(i) \in ItemPath /\ c \in Numbers /\ Source(c) \in ItemPath
        /\ Source(c) # <<>> /\ Front(Source(c)) = F(c).prefix
    BY ContainerFacts, FieldPaths
  <1>1. ~IsPrefix(Source(i), Source(c)) /\ Source(i) # Source(c)
    <2>1. Source(i) # Source(c)
      BY OneContainer
    <2>2. IsPrefix(Source(i), Source(c)) <=> IsPrefix(Source(i), Front(Source(c))) \/ Source(i) = Source(c)
      BY <1>0, PrefixOfFront
    <2> QED
      BY <1>0, <2>1, <2>2
  <1>2. \A q \in DOMAIN m : ~IsPrefix(Source(i), q) /\ Source(i) # q => q \in DOMAIN w /\ w[q] = m[q]
    BY PutElsewhere
  <1>3. \A q \in DOMAIN w : w[q] = Nil \/ (q \in DOMAIN m /\ w[q] = m[q])
    BY DEF Put
  <1> HIDE DEF w
  <1>4. IsObject(w, Source(c))
    BY <1>1, <1>2 DEF Intact, IsObject
  <1>5. ASSUME NEW j \in Numbers, ReadsColumn(j), F(j).prefix = Source(c)
        PROVE  ColumnPath(j) \in DOMAIN w /\ w[ColumnPath(j)] = Value(j)
    <2>1. ColumnPath(j) # Source(i)
      BY <1>5, ChainsApart
    <2>2. ColumnPath(j) \in ItemPath /\ ColumnPath(j) # <<>> /\ Front(ColumnPath(j)) = Source(c)
      BY <1>5, ColumnPaths
    <2>3. ~IsPrefix(Source(i), ColumnPath(j))
      BY <1>0, <1>1, <2>1, <2>2, PrefixOfFront
    <2> QED
      BY <1>2, <1>5, <2>1, <2>3 DEF Intact
  <1>6. ASSUME NEW q \in DOMAIN w, q # <<>>, Front(q) = Source(c), IsScalar(w[q])
        PROVE  ~(OwnColumns(Source(c)) \subseteq {Nil})
    BY <1>3, <1>6, TagsDiffer DEF Intact
  <1>7. Intact(w, c)
    BY <1>4, <1>5, <1>6 DEF Intact
  <1> QED
    BY <1>7 DEF w

(* Nor does what is written elsewhere change what has been decided.        *)
LEMMA PutDecided ==
    ASSUME SensibleCases, case \in Cases, NEW m, NEW p, NEW v, NEW c \in Containers,
           p # Source(c), Decided(m, Unrenamed, c)
    PROVE  Decided(Put(m, p, v), Unrenamed, c)
  <1>1. PlaceIn(Unrenamed, c) = Source(c)
    BY PlainPaths
  <1>2. \A q \in DOMAIN Put(m, p, v) : q # p => q \in DOMAIN m /\ Put(m, p, v)[q] = m[q]
    BY DEF Put
  <1> QED
    BY <1>1, <1>2 DEF Decided

LEMMA LocalizeDecided ==
    ASSUME SensibleCases, case \in Cases, NEW m, IsItem(m), NEW i \in Numbers,
           F(i).prefix = <<>>, F(i).localize, NEW c \in Containers, Decided(m, Unrenamed, c)
    PROVE  Decided(applyLocalization(m, i), Unrenamed, c)
  <1>1. F(i).type # "belongs_to"
    BY Kinds
  <1>2. Target(i) # Source(c)
    BY <1>1, ChainsApart
  <1>3. \A v : Decided(Put(m, Target(i), v), Unrenamed, c)
    BY <1>2, PutDecided
  <1>4. \/ applyLocalization(m, i) = m
        \/ \E v : applyLocalization(m, i) = Put(m, Target(i), v)
    BY LocalizeItem
  <1> QED
    BY <1>3, <1>4

LEMMA NodeDecided ==
    ASSUME SensibleCases, case \in Cases, NEW m, IsItem(m), NEW i \in Numbers, IsNode(F(i)),
           NEW c \in VisibleContainers, Decided(m, Unrenamed, c)
    PROVE  Decided(executeNode(m, i), Unrenamed, c)
  <1>0. c \in Containers /\ c \in Numbers /\ F(c).type = "belongs_to" /\ F(c).template = <<>>
        /\ F(c).prefix \in ItemPath
    BY ContainerFacts DEF VisibleContainers, Containers
  <1>1. Target(i) # Source(c)
    <2>1. CASE F(i).type # "belongs_to"
      BY <1>0, <2>1, ChainsApart
    <2>2. CASE F(i).type = "belongs_to"
      <3>1. i # c
        BY <1>0, <2>2 DEF IsNode
      <3>2. Target(i) = Source(c) => F(i).prefix = F(c).prefix /\ fieldKey(F(i)) = F(c).source
        BY <1>0, FieldPaths
      <3> QED
        BY <1>0, <3>1, <3>2, Apart
    <2> QED
      BY <2>1, <2>2
  <1>2. \A v : Decided(Put(m, Target(i), v), Unrenamed, c)
    BY <1>0, <1>1, PutDecided
  <1>3. \/ executeNode(m, i) = m
        \/ \E v : executeNode(m, i) = Put(m, Target(i), v)
    BY NodeItem
  <1> QED
    BY <1>2, <1>3

(* No field answers to the alias of a container that is still under its     *)
(* source; only its own template would be written there.                   *)
LEMMA AliasNotThere ==
    ASSUME SensibleCases, case \in Cases, NEW R, NEW i, Ready(R, i), HasOtherName(F(i)), F(i).template = <<>>,
           NEW V, V \subseteq Numbers, NEW K, K \subseteq Numbered("has_many")
    PROVE  Target(i) \notin KnownPaths(R, V, K)
  <1> DEFINE key == fieldKey(F(i))
  <1>0. /\ i \in Numbers /\ i \in Containers /\ i \notin R /\ F(i).type = "belongs_to" /\ Stored(F(i))
        /\ key \in Keys /\ key # F(i).source /\ Target(i) # <<>> /\ Target(i) = Below(R, i, key)
    BY ReadyFacts, ContainerFacts, FieldPaths
  <1>1. ASSUME NEW j \in Numbers, NEW k \in Keys, Target(i) = Below(R, j, k)
        PROVE  F(i).prefix = F(j).prefix /\ key = k
    <2>1. \A x, y \in Keys : Below(R, i, x) = Below(R, j, y) => F(i).prefix = F(j).prefix /\ x = y
      BY <1>0, BelowAlike
    <2> QED
      BY <1>0, <1>1, <2>1
  <1>2. ASSUME NEW c \in Containers, Target(i) = PathIn(R, Source(c))
        PROVE  FALSE
    <2>1. /\ c \in Numbers /\ Stored(F(c)) /\ F(c).type = "belongs_to" /\ KeyIn(R, c) \in Keys
          /\ PathIn(R, Source(c)) = Below(R, c, KeyIn(R, c))
      BY ContainerFacts, ContainerPlace
    <2>2. F(i).prefix = F(c).prefix /\ key = KeyIn(R, c)
      BY <1>1, <1>2, <2>1
    <2>3. c # i
      BY <1>0, <2>2 DEF KeyIn
    <2>4. key # fieldKey(F(c)) /\ key # F(c).source
      BY <1>0, <2>1, <2>2, <2>3, Apart
    <2> QED
      BY <2>2, <2>4 DEF KeyIn
  <1>3. ASSUME NEW j \in V, Named(j), Target(i) = Below(R, j, fieldKey(F(j)))
        PROVE  FALSE
    <2>1. j \in Numbers /\ fieldKey(F(j)) \in Keys /\ j # i
      BY <1>0, <1>3, FieldPaths DEF Named
    <2>2. F(i).prefix = F(j).prefix /\ key = fieldKey(F(j))
      BY <1>1, <1>3, <2>1
    <2> QED
      BY <1>0, <2>1, <2>2, Apart
  <1>4. ASSUME NEW j \in K, Target(i) = Below(R, j, "id")
        PROVE  FALSE
    <2>1. j \in Numbers /\ F(j).type = "has_many" /\ "id" \in Keys
      BY DEF Numbered, Keys
    <2>2. F(i).prefix = F(j).prefix /\ key = "id"
      BY <1>1, <1>4, <2>1
    <2> QED
      BY <1>0, <2>1, <2>2, IdOfRows
  <1> QED
    BY <1>0, <1>2, <1>3, <1>4 DEF KnownPaths

LEMMA RenameDecided ==
    ASSUME SensibleCases, case \in Cases, NEW m, IsItem(m), NEW R, NEW i, Ready(R, i), HasOtherName(F(i)),
           NEW V, V \subseteq Numbers, NEW K, K \subseteq Numbered("has_many"),
           Knows(m, R, V, K), Free(m, R), NEW c \in VisibleContainers, Decided(m, R, c)
    PROVE  Decided(applyPresetAlias(m, i), R \cup {i}, c)
  <1> DEFINE w == applyPresetAlias(m, i)
             s == Source(i)
             t == Target(i)
             n == Len(s)
             key == fieldKey(F(i))
             T == R \cup {i}
             P == PathIn(R, Source(c))
  <1>0. /\ i \in Containers /\ i \in Numbers /\ i \notin R /\ s \in ItemPath /\ s # <<>> /\ key \in Keys
        /\ Append(Front(s), key) = t /\ t = Below(R, i, key) /\ t \in ItemPath /\ s \in Chains
        /\ PathIn(R, s) = s
    BY ReadyFacts, FieldPaths
  <1>c. /\ c \in Containers /\ F(c).template = <<>> /\ Source(c) \in Chains /\ Source(c) \in ItemPath
        /\ P \in ItemPath /\ PlaceIn(R, c) = P /\ PlaceIn(T, c) = PathIn(T, Source(c))
    BY ContainerFacts, ContainerPlace, PathsInItem DEF VisibleContainers, Containers
  <1>1. GoesTo(m, w, i)
    BY RenameGoes
  <1>2. \A q \in DOMAIN w :
              \/ q \in DOMAIN m /\ ~IsPrefix(s, q) /\ w[q] = m[q]
              \/ t \notin DOMAIN m /\ \E r \in DOMAIN m :
                    IsPrefix(s, r) /\ q = Relabel(r, n, key) /\ w[q] = m[r]
    BY <1>1 DEF GoesTo
  <1>3. \A r \in DOMAIN m : r \in ItemPath
    BY DEF IsItem
  <1>4. \A r \in ItemPath : IsPrefix(s, r) =>
           /\ IsPrefix(t, Relabel(r, n, key)) /\ Relabel(r, n, key) \in ItemPath
           /\ (Relabel(r, n, key) = t => r = s)
    <2>1. \A r \in ItemPath : IsPrefix(s, r) =>
             /\ IsPrefix(Append(Front(s), key), Relabel(r, Len(s), key))
             /\ Relabel(r, Len(s), key) \in ItemPath
             /\ (Relabel(r, Len(s), key) = Append(Front(s), key) => r = s)
      BY <1>0, Relabelled
    <2> QED
      BY <1>0, <2>1
  <1>5. \A r \in ItemPath : IsPrefix(s, r) => Relabel(Relabel(r, n, key), n, s[n]) = r
    BY <1>0, RelabelBack
  <1>6. ~IsObject(m, t)
    BY <1>0 DEF Free
  <1>7. \A r \in ItemPath : r \in DOMAIN m => \A p \in ItemPath : IsPrefix(p, r) =>
           p \in DOMAIN m /\ (p # r => IsObject(m, p))
    BY WayThere
  <1>8. /\ IsPrefix(s, Source(c)) => PathIn(T, Source(c)) = Relabel(P, n, key) /\ IsPrefix(s, P)
        /\ ~IsPrefix(s, Source(c)) => PathIn(T, Source(c)) = P /\ ~IsPrefix(t, P)
    <2>1. \A q \in Chains :
              /\ IsPrefix(s, q) => PathIn(T, q) = Relabel(PathIn(R, q), Len(s), fieldKey(F(i)))
              /\ ~IsPrefix(s, q) => PathIn(T, q) = PathIn(R, q)
      BY PathRenamed
    <2>2. IsPrefix(s, Source(c)) => IsPrefix(PathIn(R, s), P)
      BY <1>0, <1>c, PlacesNested
    <2>3. ~IsPrefix(s, Source(c)) => ~IsPrefix(t, P)
      BY <1>c, UnderAlias
    <2> QED
      BY <1>0, <1>c, <2>1, <2>2, <2>3
  <1>9. P \in DOMAIN m => m[P] = Outcome(c)
    BY <1>c DEF Decided
  <1> HIDE DEF w, P
  <1>10. ASSUME PathIn(T, Source(c)) \in DOMAIN w
         PROVE  w[PathIn(T, Source(c))] = Outcome(c)
    <2>1. CASE IsPrefix(s, Source(c))
      <3> DEFINE q == Relabel(P, n, key)
      <3>1. q \in DOMAIN w /\ IsPrefix(t, q) /\ q \in ItemPath /\ PathIn(T, Source(c)) = q
        BY <1>4, <1>8, <1>c, <1>10, <2>1
      <3>2. q \notin DOMAIN m
        <4> SUFFICES ASSUME q \in DOMAIN m PROVE FALSE
          OBVIOUS
        <4>1. q = t
          BY <1>0, <1>6, <1>7, <3>1
        <4>2. P = s
          BY <1>4, <1>8, <1>c, <2>1, <4>1
        <4>3. Source(c) = s
          <5>1. \A x, y \in Chains : PathIn(R, x) = PathIn(R, y) => x = y
            BY PlacesApart
          <5> QED
            BY <1>0, <1>c, <4>2, <5>1 DEF P
        <4>4. c = i
          BY <1>0, <1>c, <4>3, OneContainer
        <4>5. t \notin KnownPaths(R, V, K)
          BY <1>c, <4>4, AliasNotThere
        <4> QED
          BY <4>1, <4>5 DEF Knows
      <3> HIDE DEF q
      <3>3. PICK r \in DOMAIN m : IsPrefix(s, r) /\ q = Relabel(r, n, key) /\ w[q] = m[r]
        BY <1>2, <3>1, <3>2
      <3>4. r = P
        BY <1>3, <1>5, <1>8, <1>c, <2>1, <3>3 DEF q
      <3> QED
        BY <1>9, <3>1, <3>3, <3>4
    <2>2. CASE ~IsPrefix(s, Source(c))
      <3>1. PathIn(T, Source(c)) = P /\ ~IsPrefix(t, P)
        BY <1>8, <2>2
      <3>2. P \in DOMAIN m /\ w[P] = m[P]
        BY <1>2, <1>3, <1>4, <1>10, <3>1
      <3> QED
        BY <1>9, <3>1, <3>2
    <2> QED
      BY <2>1, <2>2
  <1>11. Decided(w, T, c)
    BY <1>10, <1>c DEF Decided
  <1> QED
    BY <1>11 DEF w
-----------------------------------------------------------------------------
(* Pass by pass.                                                           *)

IntactIn(m, S) == \A c \in S : Intact(m, c)
DecidedIn(m, R, S) == \A c \in S : Decided(m, R, c)

LEMMA SameData ==
    ASSUME case' = case
    PROVE  /\ VisibleContainers' = VisibleContainers /\ Containers' = Containers
           /\ \A c : Intact(item', c) => Intact(item, c)'
           /\ \A c : Decided(item', Renamed', c) => Decided(item, Renamed, c)'
           /\ \A c : Decided(item', Unrenamed, c) => Decided(item, Unrenamed, c)'
  <1>1. /\ Numbers' = Numbers /\ Containers' = Containers /\ Unrenamed' = Unrenamed
        /\ \A i : F(i)' = F(i) /\ Source(i)' = Source(i)
    BY SameCase, SameVisible
  <1>2. VisibleContainers' = VisibleContainers
    BY DEF VisibleContainers, Visible, Numbers, Numbered, F, Source
  <1>3. \A p : OwnColumns(p)' = OwnColumns(p)
    BY DEF OwnColumns, Numbers, F, ReadsColumn, Value, Reads
  <1>4. \A c : Outcome(c)' = Outcome(c)
    BY <1>1, <1>3 DEF Outcome
  <1>5. \A c : Intact(item', c) => Intact(item, c)'
    BY <1>1, <1>3, SameColumns DEF Intact
  <1>6. \A R, c : PlaceIn(R, c)' = PlaceIn(R, c)
    BY SamePlaces
  <1>7. \A c : Decided(item', Renamed', c) => Decided(item, Renamed, c)'
    BY <1>4, <1>6, SamePlaces DEF Decided
  <1>8. \A c : Decided(item', Unrenamed, c) => Decided(item, Unrenamed, c)'
    BY <1>1, <1>4, <1>6, SamePlaces DEF Decided
  <1> QED
    BY <1>1, <1>2, <1>5, <1>7, <1>8

LEMMA DataKeptSo ==
    ASSUME case' = case,
           stage' = "alias" => IntactIn(item', Containers),
           stage' = "collapse" => /\ IntactIn(item', Containers \ done')
                                  /\ DecidedIn(item', Unrenamed, VisibleContainers \cap done'),
           stage' \in {"localize", "format", "remove", "rename", "done"} =>
               DecidedIn(item', Renamed', VisibleContainers)
    PROVE  DataInv'
  BY SameData DEF DataInv, IntactIn, DecidedIn

(* The collapse pass: the containers in this one have had their turn.       *)
LEMMA CollapseStep ==
    ASSUME SensibleCases, case \in Cases, IsItem(item), stage = "collapse", NEW i \in Numbers, Turn(i),
           Free(item, Unrenamed), DataInv
    PROVE  /\ IntactIn(collapseEmpty(item, i), Containers \ (done \cup {i}))
           /\ DecidedIn(collapseEmpty(item, i), Unrenamed, VisibleContainers \cap (done \cup {i}))
  <1> DEFINE w == collapseEmpty(item, i)
  <1>0. /\ i \in Containers \ done /\ \A j \in Containers : j < i => j \in done
        /\ \A c \in Containers : c \in Numbers
        /\ VisibleContainers \subseteq Containers
    BY WorkIs, ContainerFacts DEF Turn, VisibleContainers, Containers
  <1>1. /\ \A c \in Containers \ done : Intact(item, c)
        /\ \A c \in VisibleContainers \cap done : Decided(item, Unrenamed, c)
    BY DEF DataInv
  <1>2. /\ w = IF OwnColumns(Source(i)) \subseteq {Nil} THEN Put(item, Source(i), Nil) ELSE item
        /\ Decided(w, Unrenamed, i)
    BY <1>0, <1>1, CollapseDecides
  <1> HIDE DEF w
  <1>3. ASSUME NEW c \in Containers \ (done \cup {i})
        PROVE  Intact(w, c)
    <2>1. ~IsPrefix(Source(i), F(c).prefix)
      <3>1. IsPrefix(Source(i), F(c).prefix) => c < i
        BY <1>0, ContentsFirst
      <3> QED
        BY <1>0, <3>1
    <2>2. Intact(item, c)
      BY <1>1
    <2>3. Intact(Put(item, Source(i), Nil), c)
      BY <1>0, <2>1, <2>2, CollapseIntact
    <2> QED
      BY <1>2, <2>2, <2>3
  <1>4. ASSUME NEW c \in VisibleContainers \cap done
        PROVE  Decided(w, Unrenamed, c)
    <2>1. Source(i) # Source(c)
      BY <1>0, OneContainer
    <2>2. Decided(item, Unrenamed, c)
      BY <1>1
    <2>3. Decided(Put(item, Source(i), Nil), Unrenamed, c)
      BY <1>0, <2>1, <2>2, PutDecided
    <2> QED
      BY <1>2, <2>2, <2>3
  <1>5. IntactIn(w, Containers \ (done \cup {i})) /\ DecidedIn(w, Unrenamed, VisibleContainers \cap (done \cup {i}))
    BY <1>2, <1>3, <1>4 DEF IntactIn, DecidedIn
  <1> QED
    BY <1>5 DEF w

LEMMA RemoveDecided ==
    ASSUME case \in Cases, NEW m, IsItem(m), NEW R, NEW S, DecidedIn(m, R, S)
    PROVE  DecidedIn(RemoveInternal(m), R, S)
  <1> DEFINE w == RemoveInternal(m)
  <1>1. DOMAIN w \subseteq DOMAIN m /\ \A q \in DOMAIN w : w[q] = m[q]
    BY RemoveItem
  <1> HIDE DEF w
  <1>2. DecidedIn(w, R, S)
    BY <1>1 DEF DecidedIn, Decided
  <1> QED
    BY <1>2 DEF w

LEMMA RenameStep ==
    ASSUME SensibleCases, ItemInv, KeysInv, DataInv, stage = "rename", NEW i \in Numbers, Turn(i)
    PROVE  DecidedIn(applyPresetAlias(item, i), Unrenamed \cup (Containers \cap (done \cup {i})), VisibleContainers)
  <1> DEFINE R == Unrenamed \cup (Containers \cap done)
             T == Unrenamed \cup (Containers \cap (done \cup {i}))
             w == applyPresetAlias(item, i)
  <1>0. /\ case \in Cases /\ IsItem(item)
        /\ VisibleFields \subseteq Numbers /\ ShownKeys \subseteq Numbered("has_many")
    BY DEF ItemInv, VisibleFields, ShownKeys
  <1>1. Knows(item, R, VisibleFields, ShownKeys) /\ Free(item, R)
        /\ \A c \in VisibleContainers : Decided(item, R, c)
    BY NamesNow DEF KeysInv, DataInv
  <1>2. /\ HasOtherName(F(i)) /\ F(i).type \in {"belongs_to", "has_many"}
        /\ PathIn(R, F(i).prefix) = F(i).prefix
        /\ F(i).type = "belongs_to" => Ready(R, i) /\ T = R \cup {i}
        /\ F(i).type = "has_many" => i \in Numbered("has_many") /\ T = R
    BY RenameTurn
  <1> HIDE DEF R, T
  <1>3. CASE F(i).type = "belongs_to"
    <2>1. ASSUME NEW c \in VisibleContainers
          PROVE  Decided(w, R \cup {i}, c)
      BY <1>0, <1>1, <1>2, <1>3, RenameDecided
    <2>2. DecidedIn(w, T, VisibleContainers)
      BY <1>2, <1>3, <2>1 DEF DecidedIn
    <2> QED
      BY <2>2 DEF T
  <1>4. CASE F(i).type = "has_many"
    <2>1. Source(i) \notin KnownPaths(R, VisibleFields, ShownKeys)
      BY <1>0, <1>2, <1>4, ManyNotThere
    <2>2. w = item
      BY <1>1, <2>1 DEF Knows, applyPresetAlias
    <2>3. DecidedIn(w, T, VisibleContainers)
      BY <1>1, <1>2, <1>4, <2>2 DEF DecidedIn
    <2> QED
      BY <2>3 DEF T
  <1> QED
    BY <1>2, <1>3, <1>4

LEMMA DataStep ==
    ASSUME SensibleCases, ItemInv, KeysInv, DataInv, [FinalizeNext]_finalizeVars
    PROVE  DataInv'
  <1>0. /\ case \in Cases /\ stage \in Stages
        /\ stage # "scan" => IsItem(item)
    BY DEF ItemInv
  <1>1. /\ stage = "alias" => IntactIn(item, Containers)
        /\ stage = "collapse" => /\ IntactIn(item, Containers \ done)
                                 /\ DecidedIn(item, Unrenamed, VisibleContainers \cap done)
        /\ stage \in {"localize", "format", "remove", "rename", "done"} =>
               DecidedIn(item, Renamed, VisibleContainers)
    BY DEF DataInv, IntactIn, DecidedIn
  <1>2. /\ stage \in Early => Renamed = Unrenamed
        /\ stage \notin {"scan", "attach"} => Free(item, Renamed)
    BY NamesNow DEF KeysInv
  <1>3. VisibleContainers \subseteq Containers
    BY DEF VisibleContainers, Containers
  <1>4. CASE UNCHANGED finalizeVars
    <2>1. case' = case /\ item' = item /\ stage' = stage /\ done' = done
      BY <1>4 DEF finalizeVars
    <2>2. stage \notin {"scan", "attach"} => Renamed' = Renamed
      BY <1>0, <2>1, NamesNow, NamesNext DEF Stages, Early
    <2> QED
      BY <1>1, <2>1, <2>2, DataKeptSo
  <1>5. CASE FinalizeNext
    <2>0. case' = case
      BY <1>5, Actions
    <2>1. CASE stage = "scan" /\ stage' = "attach" /\ item' = ScanColumns /\ done' = done
      BY <2>0, <2>1, DataKeptSo
    <2>2. CASE stage = "attach" /\ stage' = "alias" /\ item' = AttachBranches(item) /\ done' = done
      <3>1. Filled(item)
        BY <2>2 DEF ItemInv
      <3>2. IntactIn(item', Containers)
        BY <1>0, <2>2, <3>1, AttachIntact DEF IntactIn
      <3> QED
        BY <2>0, <2>2, <3>2, DataKeptSo
    <2>3. CASE stage = "remove" /\ stage' = "rename" /\ item' = RemoveInternal(item) /\ done' = done
      <3>1. done' = {}
        BY <2>3 DEF KeysInv
      <3>2. Renamed' = Unrenamed
        BY <2>0, <2>3, <3>1, NamesNext
      <3>3. DecidedIn(item', Unrenamed, VisibleContainers)
        BY <1>0, <1>1, <1>2, <2>3, RemoveDecided DEF Early
      <3> QED
        BY <2>0, <2>3, <3>2, <3>3, DataKeptSo
    <2>4. CASE /\ stage \in {"alias", "collapse", "localize", "format", "rename"} /\ stage' = After[stage]
               /\ item' = item /\ Work \subseteq done /\ done' = {}
      <3>1. CASE stage = "alias"
        <4>1. stage' = "collapse"
          BY <3>1, <2>4, AfterIs
        <4>2. IntactIn(item', Containers \ done') /\ DecidedIn(item', Unrenamed, VisibleContainers \cap done')
          BY <1>1, <2>4, <3>1 DEF DecidedIn
        <4> QED
          BY <2>0, <4>1, <4>2, DataKeptSo
      <3>2. CASE stage = "collapse"
        <4>1. stage' = "localize"
          BY <3>2, <2>4, AfterIs
        <4>2. Renamed' = Unrenamed
          BY <2>0, <4>1, NamesNext DEF Early
        <4>3. Containers \subseteq done
          BY <2>4, <3>2, WorkIs
        <4>4. DecidedIn(item', Unrenamed, VisibleContainers)
          BY <1>1, <1>3, <2>4, <3>2, <4>3 DEF DecidedIn
        <4> QED
          BY <2>0, <4>1, <4>2, <4>4, DataKeptSo
      <3>3. CASE stage \in {"localize", "format"}
        <4>1. stage' \in {"format", "remove"}
          BY <3>3, <2>4, AfterIs
        <4>2. Renamed' = Unrenamed
          BY <2>0, <4>1, NamesNext DEF Early
        <4>3. DecidedIn(item', Unrenamed, VisibleContainers)
          BY <1>1, <1>2, <2>4, <3>3 DEF Early
        <4> QED
          BY <2>0, <4>1, <4>2, <4>3, DataKeptSo
      <3>4. CASE stage = "rename"
        <4>1. stage' = "done"
          BY <3>4, <2>4, AfterIs
        <4>2. Renamed' = Containers
          BY <2>0, <4>1, NamesNext
        <4>3. Renamed = Unrenamed \cup (Containers \cap done)
          BY <3>4, NamesNow
        <4>4. \A c \in Containers : HasOtherName(F(c)) => c \in done
          BY <1>0, <2>4, <3>4, WorkIs, ContainerFacts
        <4>5. Renamed = Containers
          BY <4>3, <4>4 DEF Unrenamed
        <4>6. DecidedIn(item', Renamed', VisibleContainers)
          BY <1>1, <2>4, <3>4, <4>2, <4>5
        <4> QED
          BY <2>0, <4>1, <4>6, DataKeptSo
      <3> QED
        BY <2>4, <3>1, <3>2, <3>3, <3>4
    <2>5. ASSUME NEW i \in Numbers, stage' = stage, Turn(i), i \in Work, done' = done \cup {i},
                 \/ stage = "alias" /\ item' = applyFieldAlias(item, i)
                 \/ stage = "collapse" /\ item' = collapseEmpty(item, i)
                 \/ stage = "localize" /\ item' = applyLocalization(item, i)
                 \/ stage = "format" /\ item' = executeNode(item, i)
                 \/ stage = "rename" /\ item' = applyPresetAlias(item, i)
          PROVE  DataInv'
      <3>0. IsItem(item)
        BY <1>0, <2>5
      <3>1. CASE stage = "alias" /\ item' = applyFieldAlias(item, i)
        <4>1. F(i).prefix = <<>> /\ F(i).type \in {"column", "nested_field"}
          BY <2>5, <3>1, WorkIs
        <4>2. item' = item
          BY <1>0, <3>1, <4>1, AliasKeeps DEF ItemInv
        <4> QED
          BY <1>1, <2>0, <2>5, <3>1, <4>2, DataKeptSo
      <3>2. CASE stage = "collapse" /\ item' = collapseEmpty(item, i)
        <4>1. Free(item, Unrenamed)
          BY <1>2, <3>2 DEF Early
        <4>2. /\ IntactIn(item', Containers \ done')
              /\ DecidedIn(item', Unrenamed, VisibleContainers \cap done')
          BY <1>0, <2>5, <3>0, <3>2, <4>1, CollapseStep
        <4> QED
          BY <2>0, <2>5, <3>2, <4>2, DataKeptSo
      <3>3. CASE stage = "localize" /\ item' = applyLocalization(item, i)
        <4>1. F(i).prefix = <<>> /\ F(i).localize
          BY <2>5, <3>3, WorkIs
        <4>2. Renamed' = Unrenamed /\ Renamed = Unrenamed
          BY <1>2, <2>0, <2>5, <3>3, NamesNext DEF Early
        <4>3. \A c \in VisibleContainers : Decided(item', Unrenamed, c)
          BY <1>0, <1>1, <1>3, <3>0, <3>3, <4>1, <4>2, LocalizeDecided DEF DecidedIn
        <4> QED
          BY <2>0, <2>5, <3>3, <4>2, <4>3, DataKeptSo DEF DecidedIn
      <3>4. CASE stage = "format" /\ item' = executeNode(item, i)
        <4>1. IsNode(F(i))
          BY <2>5, <3>4, WorkIs
        <4>2. Renamed' = Unrenamed /\ Renamed = Unrenamed
          BY <1>2, <2>0, <2>5, <3>4, NamesNext DEF Early
        <4>3. \A c \in VisibleContainers : Decided(item', Unrenamed, c)
          BY <1>0, <1>1, <3>0, <3>4, <4>1, <4>2, NodeDecided DEF DecidedIn
        <4> QED
          BY <2>0, <2>5, <3>4, <4>2, <4>3, DataKeptSo DEF DecidedIn
      <3>5. CASE stage = "rename" /\ item' = applyPresetAlias(item, i)
        <4>1. Renamed' = Unrenamed \cup (Containers \cap done')
          BY <2>0, <2>5, <3>5, NamesNext
        <4>2. DecidedIn(item', Renamed', VisibleContainers)
          BY <2>5, <3>5, <4>1, RenameStep
        <4> QED
          BY <2>0, <2>5, <3>5, <4>2, DataKeptSo
      <3> QED
        BY <2>5, <3>1, <3>2, <3>3, <3>4, <3>5
    <2> QED
      BY <1>5, <2>1, <2>2, <2>3, <2>4, <2>5, Actions
  <1> QED
    BY <1>4, <1>5

LEMMA DataInit ==
    ASSUME FinalizeInit
    PROVE  DataInv
  BY DEF FinalizeInit, DataInv

LEMMA DataEnd ==
    ASSUME SensibleCases, ItemInv, KeysInv, DataInv
    PROVE  ContainersKept
  <1> SUFFICES ASSUME stage = "done", NEW i \in VisibleContainers, IsObject(item, ClientPath(F(i).prefix))
               PROVE  LET path == Append(ClientPath(F(i).prefix), fieldKey(F(i))) IN
                      /\ path \in DOMAIN item
                      /\ OwnColumns(Source(i)) \subseteq {Nil} \/ item[path] = Object
                      /\ DeepColumns(Source(i)) \subseteq {Nil} => item[path] = Nil
    BY DEF ContainersKept, Done
  <1> DEFINE path == Append(ClientPath(F(i).prefix), fieldKey(F(i)))
  <1>0. /\ case \in Cases /\ i \in Containers /\ i \in Numbers /\ F(i).type = "belongs_to"
        /\ i \in VisibleFields
    BY ContainerFacts DEF ItemInv, VisibleContainers, Containers, VisibleFields
  <1>1. /\ Renamed = Containers
        /\ Present(item, Containers, VisibleFields, Numbers)
        /\ Decided(item, Containers, i)
    BY NamesNow DEF KeysInv, DataInv
  <1>2. PathIn(Containers, F(i).prefix) = ClientPath(F(i).prefix)
    BY <1>0, ClientPathIs, PrefixIsChain
  <1>3. PlaceIn(Containers, i) = path
    BY <1>0, <1>2 DEF PlaceIn, Below, KeyIn
  <1>4. PlaceIn(Containers, i) \in DOMAIN item
    BY <1>0, <1>1, <1>2 DEF Present
  <1>5. item[path] = Outcome(i)
    BY <1>1, <1>3, <1>4 DEF Decided
  <1>6. OwnColumns(Source(i)) \subseteq DeepColumns(Source(i))
    <2>1. IsPrefix(Source(i), Source(i))
      BY <1>0, ContainerFacts, PrefixPointwise DEF ItemPath
    <2> QED
      BY <2>1 DEF OwnColumns, DeepColumns
  <1> QED
    BY <1>3, <1>4, <1>5, <1>6 DEF Outcome

(* What becomes of a container is settled by its columns alone, in its own  *)
(* turn of collapseEmptyBelongsTo, although maps collapse, move and go      *)
(* around it and in it: with a value it reaches the client as an object,    *)
(* without any, here and below, as null.                                    *)
THEOREM ContainersKeptAlways ==
    ASSUME SensibleCases
    PROVE  FinalizeSpec => []ContainersKept
  <1>1. FinalizeInit => ItemInv /\ KeysInv /\ DataInv
    BY ItemInit, KeysInit, DataInit
  <1>2. ItemInv /\ KeysInv /\ DataInv /\ [FinalizeNext]_finalizeVars => (ItemInv /\ KeysInv /\ DataInv)'
    BY ItemStep, KeysStep, DataStep
  <1>3. ItemInv /\ KeysInv /\ DataInv => ContainersKept
    BY DataEnd
  <1> QED
    BY <1>1, <1>2, <1>3, PTL DEF FinalizeSpec
-----------------------------------------------------------------------------
(* Texts: what a formatter makes depends on the values it names alone.     *)

LEMMA FlattenIn ==
    ASSUME NEW S, NEW ss \in Seq(Seq(S))
    PROVE  FlattenSeq(ss) \in Seq(S)
  <1>0. Len(ss) \in Nat /\ DOMAIN ss = 1..Len(ss) /\ \A i \in 1..Len(ss) : ss[i] \in Seq(S)
    OBVIOUS
  <1>1. CASE Len(ss) = 0
    BY <1>1, EmptySeq DEF FlattenSeq
  <1>2. CASE Len(ss) # 0
    <2> DEFINE n == Len(ss) - 1
               step == [i \in 1..n |-> [s \in Seq(S) |-> s \o ss[i + 1]]]
               Solves(f) == f = [i \in 1..Len(ss) |-> IF i = 1 THEN ss[i] ELSE f[i - 1] \o ss[i]]
    <2>1. n \in Nat /\ ss[1] \in Seq(S) /\ \A i \in 1..n : i + 1 \in 1..Len(ss)
      BY <1>0, <1>2
    <2>2. step \in [1..n -> [Seq(S) -> Seq(S)]]
      BY <1>0, <2>1, ConcatProperties
    <2> HIDE DEF step
    <2>3. PICK g \in [0..n -> Seq(S)] : GoesOn(g, n, ss[1], step)
      BY <2>1, <2>2, StepsExist
    <2> DEFINE f == [i \in 1..Len(ss) |-> g[i - 1]]
    <2>4. \A i \in 1..Len(ss) : f[i] = g[i - 1] /\ f[i] \in Seq(S)
      <3>1. \A i \in 1..Len(ss) : i - 1 \in 0..n
        BY <2>1
      <3> QED
        BY <3>1
    <2>5. ASSUME NEW i \in 1..Len(ss)
          PROVE  f[i] = IF i = 1 THEN ss[i] ELSE f[i - 1] \o ss[i]
      <3>1. CASE i = 1
        BY <2>3, <2>4, <3>1 DEF GoesOn
      <3>2. CASE i # 1
        <4>1. i - 1 \in 1..n /\ i - 1 \in 1..Len(ss) /\ (i - 1) + 1 = i
          BY <1>0, <3>2
        <4>2. g[i - 1] = step[i - 1][g[(i - 1) - 1]] /\ g[(i - 1) - 1] = f[i - 1]
          BY <2>3, <2>4, <4>1 DEF GoesOn
        <4>3. step[i - 1][f[i - 1]] = f[i - 1] \o ss[i]
          BY <2>4, <4>1 DEF step
        <4> QED
          BY <2>4, <3>2, <4>2, <4>3
      <3> QED
        BY <3>1, <3>2
    <2>6. Solves(f)
      BY <2>5
    <2>7. ASSUME NEW h, Solves(h)
          PROVE  \A i \in 1..Len(ss) : h[i] \in Seq(S)
      <3> DEFINE Good == {i \in Nat : i + 1 \in 1..Len(ss) => h[i + 1] \in Seq(S)}
      <3>0. \A i \in 1..Len(ss) : h[i] = IF i = 1 THEN ss[i] ELSE h[i - 1] \o ss[i]
        BY <2>7
      <3> HIDE DEF Solves
      <3>1. 0 \in Good
        BY <1>0, <3>0
      <3>2. ASSUME NEW i \in Nat, i \in Good
            PROVE  i + 1 \in Good
        <4> SUFFICES ASSUME (i + 1) + 1 \in 1..Len(ss) PROVE h[(i + 1) + 1] \in Seq(S)
          OBVIOUS
        <4>1. h[i + 1] \in Seq(S) /\ ((i + 1) + 1) - 1 = i + 1 /\ (i + 1) + 1 # 1
          BY <1>0, <3>2
        <4>2. h[(i + 1) + 1] = h[i + 1] \o ss[(i + 1) + 1] /\ ss[(i + 1) + 1] \in Seq(S)
          BY <1>0, <3>0, <4>1
        <4> QED
          BY <4>1, <4>2, ConcatProperties
      <3> HIDE DEF Good
      <3>3. \A i \in Nat : i \in Good
        BY <3>1, <3>2, InductionOnNats
      <3>4. ASSUME NEW i \in 1..Len(ss)
            PROVE  h[i] \in Seq(S)
        <4>1. i - 1 \in Nat /\ (i - 1) + 1 = i
          BY <1>0
        <4>2. i - 1 \in Good
          BY <3>3, <4>1
        <4> QED
          BY <4>1, <4>2 DEF Good
      <3> QED
        BY <3>4
    <2> DEFINE flat == CHOOSE h : Solves(h)
    <2>8. FlattenSeq(ss) = flat[Len(ss)]
      BY <1>2 DEF FlattenSeq
    <2>9. Solves(flat)
      <3> HIDE DEF Solves, f
      <3> QED
        BY <2>6
    <2>10. Len(ss) \in 1..Len(ss)
      BY <1>0, <1>2
    <2> HIDE DEF flat, Solves
    <2> QED
      BY <2>7, <2>8, <2>9, <2>10
  <1> QED
    BY <1>1, <1>2

(* A template, unfolded level by level.                                     *)
Unfolded(t, m, ctx) ==
    LET after[n \in 0..MaxNesting] ==
            IF n = 0 THEN t
            ELSE FlattenSeq([i \in DOMAIN after[n - 1] |-> Chosen(after[n - 1][i], m, ctx)])
    IN  after
Pieces(s, m, ctx) == [i \in DOMAIN s |-> Chosen(s[i], m, ctx)]

LEMMA ChosenIn ==
    ASSUME NEW t, IsTemplate(t), NEW m, NEW ctx, NEW s \in Seq(PartsIn(t))
    PROVE  FlattenSeq(Pieces(s, m, ctx)) \in Seq(PartsIn(t))
  <1>1. ASSUME NEW part \in PartsIn(t)
        PROVE  Chosen(part, m, ctx) \in Seq(PartsIn(t))
    <2>1. PICK n \in 0..MaxNesting : part \in PartsAt(t)[n]
      BY DEF PartsIn
    <2>2. CASE part.kind # "ternary"
      BY <2>2 DEF Chosen
    <2>3. CASE part.kind = "ternary"
      <3>1. n + 1 \in 0..MaxNesting /\ {part.then, part.else} \subseteq Seq(PartsAt(t)[n + 1])
        <4>1. part.kind = "ternary" => n < MaxNesting /\ {part.then, part.else} \subseteq Seq(PartsAt(t)[n + 1])
        BY <2>1 DEF IsTemplate
      <4>2. n + 1 \in 0..MaxNesting
        BY <2>3, <4>1, NestingAssumption
      <4> QED
        BY <2>3, <4>1, <4>2
      <3>2. PartsAt(t)[n + 1] \subseteq PartsIn(t)
        BY <3>1 DEF PartsIn
      <3>3. {part.then, part.else} \subseteq Seq(PartsIn(t))
        BY <3>1, <3>2
      <3> QED
        BY <2>3, <3>3 DEF Chosen
    <2> QED
      BY <2>2, <2>3
  <1>2. Pieces(s, m, ctx) \in Seq(Seq(PartsIn(t)))
    <2>1. Len(s) \in Nat /\ DOMAIN s = 1..Len(s) /\ \A i \in 1..Len(s) : s[i] \in PartsIn(t)
      OBVIOUS
    <2>2. Pieces(s, m, ctx) \in [1..Len(s) -> Seq(PartsIn(t))]
      BY <1>1, <2>1 DEF Pieces
    <2> QED
      BY <2>1, <2>2
  <1> QED
    BY <1>2, FlattenIn

LEMMA UnfoldedIs ==
    ASSUME NEW t, IsTemplate(t), NEW m, NEW ctx
    PROVE  LET g == Unfolded(t, m, ctx) IN
           /\ replaceTernaries(t, m, ctx) = g[MaxNesting]
           /\ g[0] = t
           /\ \A n \in 1..MaxNesting : g[n] = FlattenSeq(Pieces(g[n - 1], m, ctx))
           /\ \A n \in 0..MaxNesting : g[n] \in Seq(PartsIn(t))
  <1> DEFINE P == PartsIn(t)
             Solves(f) == f = [n \in 0..MaxNesting |->
                                 IF n = 0 THEN t
                                 ELSE FlattenSeq([i \in DOMAIN f[n - 1] |-> Chosen(f[n - 1][i], m, ctx)])]
             g == Unfolded(t, m, ctx)
             step == [n \in 1..MaxNesting |-> [s \in Seq(P) |-> FlattenSeq(Pieces(s, m, ctx))]]
  <1>0. MaxNesting \in Nat
    BY NestingAssumption
  <1>1. t \in Seq(P)
    <2>1. 0 \in 0..MaxNesting
      BY <1>0
    <2>2. t \in Seq(PartsAt(t)[0])
      BY DEF IsTemplate
    <2>3. PartsAt(t)[0] \subseteq P
      BY <2>1 DEF PartsIn
    <2> QED
      BY <2>2, <2>3
  <1>2. step \in [1..MaxNesting -> [Seq(P) -> Seq(P)]]
    BY ChosenIn
  <1>3. PICK h \in [0..MaxNesting -> Seq(P)] : GoesOn(h, MaxNesting, t, step)
    <2> HIDE DEF step, P
    <2> QED
      BY <1>0, <1>1, <1>2, StepsExist
  <1>4. h[0] = t /\ \A n \in 1..MaxNesting : h[n] = FlattenSeq(Pieces(h[n - 1], m, ctx))
    <2>1. \A n \in 1..MaxNesting : n - 1 \in 0..MaxNesting
      BY <1>0
    <2>2. \A n \in 1..MaxNesting : h[n - 1] \in Seq(P) /\ h[n] = step[n][h[n - 1]]
      BY <1>3, <2>1 DEF GoesOn
    <2> HIDE DEF P
    <2> QED
      BY <1>3, <2>2 DEF GoesOn
  <1>5. Solves(h)
    <2>1. \A n \in 0..MaxNesting : n # 0 => n \in 1..MaxNesting
      BY <1>0
    <2> QED
      BY <1>3, <1>4, <2>1 DEF Pieces
  <1>6. g = CHOOSE f : Solves(f)
    BY DEF Unfolded
  <1>7. Solves(g)
    <2> HIDE DEF Solves, g
    <2> QED
      BY <1>5, <1>6
  <1>8. replaceTernaries(t, m, ctx) = g[MaxNesting]
    BY DEF replaceTernaries, Unfolded
  <1> HIDE DEF g, step, P
  <1>9. g[0] = t /\ \A n \in 1..MaxNesting : g[n] = FlattenSeq(Pieces(g[n - 1], m, ctx))
    <2>1. 0 \in 0..MaxNesting /\ \A n \in 1..MaxNesting : n \in 0..MaxNesting /\ n # 0
      BY <1>0
    <2> QED
      BY <1>7, <2>1 DEF Pieces
  <1> HIDE DEF Solves
  <1>10. Alike(g, h, MaxNesting)
    BY <1>4, <1>9 DEF Alike
  <1>11. \A n \in 0..MaxNesting : g[n] = h[n]
    BY <1>0, <1>10, SameSteps
  <1>12. \A n \in 0..MaxNesting : g[n] \in Seq(P)
    BY <1>3, <1>11
  <1> QED
    BY <1>8, <1>9, <1>12 DEF g, P

(* Ternaries of a level that are left stand deeper in the template.         *)
Down(t, n) == {part \in PartsIn(t) : part.kind = "ternary" => part \in PartsAt(t)[n]}

LEMMA UnfoldedDown ==
    ASSUME NEW t, IsTemplate(t), NEW m, NEW ctx
    PROVE  \A n \in 0..MaxNesting : Unfolded(t, m, ctx)[n] \in Seq(Down(t, n))
  <1> DEFINE g == Unfolded(t, m, ctx)
             Good == {n \in Nat : n <= MaxNesting => g[n] \in Seq(Down(t, n))}
  <1>0. MaxNesting \in Nat
    BY NestingAssumption
  <1>1. g[0] = t /\ \A n \in 1..MaxNesting : g[n] = FlattenSeq(Pieces(g[n - 1], m, ctx))
    BY UnfoldedIs
  <1> HIDE DEF g
  <1>2. 0 \in Good
    <2>1. 0 \in 0..MaxNesting
      BY <1>0
    <2>2. t \in Seq(PartsAt(t)[0])
      BY DEF IsTemplate
    <2>3. PartsAt(t)[0] \subseteq Down(t, 0)
      BY <2>1 DEF PartsIn, Down
    <2>4. t \in Seq(Down(t, 0))
      BY <2>2, <2>3
    <2> QED
      BY <1>1, <2>4
  <1>3. ASSUME NEW n \in Nat, n \in Good
        PROVE  n + 1 \in Good
    <2> SUFFICES ASSUME n + 1 <= MaxNesting PROVE g[n + 1] \in Seq(Down(t, n + 1))
      OBVIOUS
    <2>1. /\ n \in 0..MaxNesting /\ n + 1 \in 0..MaxNesting /\ n + 1 \in 1..MaxNesting /\ (n + 1) - 1 = n
          /\ g[n] \in Seq(Down(t, n))
      BY <1>0, <1>3
    <2>2. ASSUME NEW part \in Down(t, n)
          PROVE  Chosen(part, m, ctx) \in Seq(Down(t, n + 1))
      <3>1. CASE part.kind # "ternary"
        <4>1. part \in Down(t, n + 1)
          BY <3>1 DEF Down
        <4> QED
          BY <3>1, <4>1 DEF Chosen
      <3>2. CASE part.kind = "ternary"
        <4>1. part \in PartsAt(t)[n]
          BY <3>2 DEF Down
        <4>2. {part.then, part.else} \subseteq Seq(PartsAt(t)[n + 1])
          BY <2>1, <3>2, <4>1 DEF IsTemplate
        <4>3. PartsAt(t)[n + 1] \subseteq Down(t, n + 1)
          BY <2>1 DEF PartsIn, Down
        <4>4. {part.then, part.else} \subseteq Seq(Down(t, n + 1))
          BY <4>2, <4>3
        <4> QED
          BY <3>2, <4>4 DEF Chosen
      <3> QED
        BY <3>1, <3>2
    <2>3. Pieces(g[n], m, ctx) \in Seq(Seq(Down(t, n + 1)))
      <3> DEFINE s == g[n]
      <3>1. Len(s) \in Nat /\ DOMAIN s = 1..Len(s) /\ \A i \in 1..Len(s) : s[i] \in Down(t, n)
        BY <2>1
      <3> HIDE DEF s
      <3>2. Pieces(s, m, ctx) \in [1..Len(s) -> Seq(Down(t, n + 1))]
        BY <2>2, <3>1 DEF Pieces
      <3>3. Pieces(s, m, ctx) \in Seq(Seq(Down(t, n + 1)))
        BY <3>1, <3>2
      <3> QED
        BY <3>3 DEF s
    <2>4. FlattenSeq(Pieces(g[n], m, ctx)) \in Seq(Down(t, n + 1))
      BY <2>3, FlattenIn
    <2> QED
      BY <1>1, <2>1, <2>4
  <1> HIDE DEF Good
  <1>4. \A n \in Nat : n \in Good
    BY <1>2, <1>3, InductionOnNats
  <1>5. \A n \in 0..MaxNesting : n \in Nat /\ n <= MaxNesting
    BY <1>0
  <1> QED
    BY <1>4, <1>5 DEF Good, g

(* Two maps that hold the same where the names of a template lead.          *)
SameReads(m, w, ctx, names) ==
    \A path \in Seq(STRING) : ToSet(path) \subseteq names => getNested(m, ctx, path) = getNested(w, ctx, path)

LEMMA NamesOfPart ==
    ASSUME NEW t, IsTemplate(t), NEW part \in PartsIn(t)
    PROVE  /\ part.kind \in {"text", "token", "ternary"}
           /\ part.kind = "token" => part.path \in Seq(STRING) /\ ToSet(part.path) \subseteq NamesIn(t)
           /\ part.kind = "ternary" => part.cond.path \in Seq(STRING) /\ ToSet(part.cond.path) \subseteq NamesIn(t)
  <1>1. PICK n \in 0..MaxNesting : part \in PartsAt(t)[n]
    BY DEF PartsIn
  <1>2. /\ part.kind \in {"text", "token", "ternary"}
        /\ part.kind = "token" => part.path \in Seq(STRING)
        /\ part.kind = "ternary" => part.cond.path \in Seq(STRING)
    BY <1>1 DEF IsTemplate
  <1>3. part.kind = "token" => ToSet(part.path) \subseteq NamesIn(t)
    BY DEF NamesIn
  <1>4. part.kind = "ternary" => ToSet(part.cond.path) \subseteq NamesIn(t)
    BY DEF NamesIn
  <1> QED
    BY <1>2, <1>3, <1>4

LEMMA SameText ==
    ASSUME NEW t, IsTemplate(t), NEW m, NEW w, NEW ctx, SameReads(m, w, ctx, NamesIn(t))
    PROVE  applyFormatter(t, m, ctx) = applyFormatter(t, w, ctx)
  <1> DEFINE g == Unfolded(t, m, ctx)
             h == Unfolded(t, w, ctx)
  <1>0. MaxNesting \in Nat /\ MaxNesting \in 0..MaxNesting
    BY NestingAssumption
  <1>1. /\ replaceTernaries(t, m, ctx) = g[MaxNesting] /\ g[0] = t
        /\ \A n \in 1..MaxNesting : g[n] = FlattenSeq(Pieces(g[n - 1], m, ctx))
        /\ \A n \in 0..MaxNesting : g[n] \in Seq(PartsIn(t))
    BY UnfoldedIs
  <1>2. /\ replaceTernaries(t, w, ctx) = h[MaxNesting] /\ h[0] = t
        /\ \A n \in 1..MaxNesting : h[n] = FlattenSeq(Pieces(h[n - 1], w, ctx))
    BY UnfoldedIs
  <1>3. g[MaxNesting] \in Seq(Down(t, MaxNesting))
    BY <1>0, UnfoldedDown
  <1> HIDE DEF g, h
  <1>4. ASSUME NEW part \in PartsIn(t)
        PROVE  Chosen(part, m, ctx) = Chosen(part, w, ctx)
    <2>1. part.kind = "ternary" => getNested(m, ctx, part.cond.path) = getNested(w, ctx, part.cond.path)
      BY NamesOfPart DEF SameReads
    <2>2. part.kind = "ternary" => evalCondition(part.cond, m, ctx) = evalCondition(part.cond, w, ctx)
      BY <2>1 DEF evalCondition
    <2> QED
      BY <2>2 DEF Chosen
  <1>5. ASSUME NEW n \in 1..MaxNesting, g[n - 1] = h[n - 1]
        PROVE  g[n] = h[n]
    <2>1. g[n - 1] \in Seq(PartsIn(t))
      BY <1>0, <1>1
    <2>2. \A i \in DOMAIN g[n - 1] : g[n - 1][i] \in PartsIn(t)
      BY <2>1
    <2>3. Pieces(g[n - 1], m, ctx) = Pieces(g[n - 1], w, ctx)
      BY <1>4, <2>2 DEF Pieces
    <2> QED
      BY <1>1, <1>2, <1>5, <2>3
  <1>6. Alike(g, h, MaxNesting)
    BY <1>1, <1>2, <1>5 DEF Alike
  <1>7. g[MaxNesting] = h[MaxNesting]
    BY <1>0, <1>6, SameSteps
  <1> DEFINE parts == g[MaxNesting]
             Render(part, x) ==
                IF part.kind = "text" THEN part.text
                ELSE SliceOf(toString(getNested(x, ctx, part.path)), part.from, part.to)
  <1>8. \A i \in DOMAIN parts : parts[i] \in Down(t, MaxNesting)
    BY <1>3
  <1>9. ASSUME NEW part \in Down(t, MaxNesting)
        PROVE  Render(part, m) = Render(part, w)
    <2>1. part \in PartsIn(t) /\ part.kind # "ternary"
      <3>1. part \in PartsIn(t) /\ (part.kind = "ternary" => part \in PartsAt(t)[MaxNesting])
        BY DEF Down
      <3>2. part \in PartsAt(t)[MaxNesting] => ~(part.kind = "ternary" /\ ~(MaxNesting < MaxNesting))
        BY <1>0 DEF IsTemplate
      <3> QED
        BY <1>0, <3>1, <3>2
    <2>2. part.kind = "token" => getNested(m, ctx, part.path) = getNested(w, ctx, part.path)
      BY <2>1, NamesOfPart DEF SameReads
    <2>3. part.kind \in {"text", "token"}
      BY <2>1, NamesOfPart
    <2> QED
      BY <2>2, <2>3
  <1>10. [i \in DOMAIN parts |-> Render(parts[i], m)] = [i \in DOMAIN parts |-> Render(parts[i], w)]
    <2> HIDE DEF Render, parts
    <2> QED
      BY <1>8, <1>9
  <1>11. applyFormatter(t, m, ctx) = FlattenSeq([i \in DOMAIN parts |-> Render(parts[i], m)])
    BY <1>1 DEF applyFormatter
  <1>12. applyFormatter(t, w, ctx) = FlattenSeq([i \in DOMAIN parts |-> Render(parts[i], w)])
    BY <1>2, <1>7 DEF applyFormatter
  <1> QED
    BY <1>10, <1>11, <1>12
-----------------------------------------------------------------------------
(* The order of nodes.                                                     *)

LEMMA Inserted ==
    ASSUME NEW S, NEW s \in Seq(S), NEW e \in S, NEW p \in 1..(Len(s) + 1)
    PROVE  LET w == InsertAt(s, p, e) IN
           /\ w \in Seq(S) /\ Len(w) = Len(s) + 1
           /\ \A k \in 1..(Len(s) + 1) : w[k] = IF k < p THEN s[k] ELSE IF k = p THEN e ELSE s[k - 1]
  <1> DEFINE a == SubSeq(s, 1, p - 1)
             b == SubSeq(s, p, Len(s))
             c == a \o <<e>>
             w == InsertAt(s, p, e)
  <1>0. Len(s) \in Nat /\ p \in Nat /\ 1 <= p /\ p <= Len(s) + 1
    OBVIOUS
  <1>1. a \in Seq(S) /\ Len(a) = p - 1 /\ \A k \in 1..(p - 1) : a[k] = s[k]
    BY <1>0
  <1>2. b \in Seq(S) /\ Len(b) = (Len(s) - p) + 1 /\ \A k \in 1..((Len(s) - p) + 1) : b[k] = s[(p + k) - 1]
    BY <1>0
  <1>3. w = c \o b
    BY DEF InsertAt
  <1> HIDE DEF a, b, w
  <1>4. c \in Seq(S) /\ Len(c) = p /\ c[p] = e /\ \A k \in 1..(p - 1) : c[k] = s[k]
    <2>1. c = Append(a, e)
      BY <1>1
    <2> QED
      BY <1>0, <1>1, <2>1, AppendProperties
  <1> HIDE DEF c
  <1>5. /\ w \in Seq(S) /\ Len(w) = Len(c) + Len(b)
        /\ \A k \in 1..Len(c) : w[k] = c[k]
        /\ \A k \in 1..Len(b) : w[Len(c) + k] = b[k]
    BY <1>2, <1>3, <1>4, ConcatProperties
  <1>6. ASSUME NEW k \in 1..(Len(s) + 1)
        PROVE  w[k] = IF k < p THEN s[k] ELSE IF k = p THEN e ELSE s[k - 1]
    <2>1. CASE k <= p
      <3>1. k \in 1..Len(c) /\ (k < p => k \in 1..(p - 1))
        BY <1>0, <1>4, <2>1
      <3> QED
        BY <1>0, <1>4, <1>5, <2>1, <3>1
    <2>2. CASE k > p
      <3>1. k - p \in 1..Len(b) /\ p + (k - p) = k /\ (p + (k - p)) - 1 = k - 1
        BY <1>0, <1>2, <2>2
      <3>2. w[p + (k - p)] = b[k - p] /\ b[k - p] = s[(p + (k - p)) - 1]
        BY <1>2, <1>4, <1>5, <3>1
      <3> QED
        BY <1>0, <2>2, <3>1, <3>2
    <2> QED
      BY <1>0, <2>1, <2>2
  <1>7. w \in Seq(S) /\ Len(w) = Len(s) + 1
    BY <1>0, <1>2, <1>4, <1>5
  <1> QED
    BY <1>6, <1>7 DEF w

(* The list of a map's nodes among the first n fields: all of them, and     *)
(* none before one that it mentions.                                        *)
NodeOf(prefix, i) == i \in Numbers /\ IsNode(F(i)) /\ F(i).prefix = prefix
NodesOf(prefix, n) == {i \in Numbers : NodeOf(prefix, i) /\ i <= n}
InOrder(list) == \A k, l \in DOMAIN list : k < l => ~Mentions(list[k], list[l])
Lists(list, prefix, n) ==
    /\ list \in Seq(Numbers)
    /\ \A k \in DOMAIN list : list[k] \in NodesOf(prefix, n)
    /\ \A i \in NodesOf(prefix, n) : \E k \in DOMAIN list : list[k] = i
    /\ InOrder(list)

LEMMA FieldCount ==
    ASSUME case \in Cases
    PROVE  Len(case.fields) \in Nat /\ Numbers = 1..Len(case.fields)
  BY CasesAssumption DEF Numbers

LEMMA OrderFitsHere ==
    ASSUME OrderlyCases, case \in Cases, NEW prefix, NEW i, NodeOf(prefix, i), NEW j, NodeOf(prefix, j),
           NEW k, NodeOf(prefix, k), j < i, k < i, Mentions(j, i)
    PROVE  ~Mentions(i, k)
  BY DEF OrderlyCases, OrderFits, NodeOf, Mentions, F, Numbers

LEMMA InsertPlace ==
    ASSUME NEW i, NEW list \in Seq(Numbers)
    PROVE  LET hit == {k \in DOMAIN list : Mentions(i, list[k])}
               p == IF hit = {} THEN 1 ELSE Max(hit) + 1
           IN  /\ insertByDeps(list, i) = InsertAt(list, p, i)
               /\ p \in 1..(Len(list) + 1)
               /\ \A k \in DOMAIN list : k >= p => ~Mentions(i, list[k])
               /\ p # 1 => \E k \in DOMAIN list : Mentions(i, list[k])
  <1> DEFINE hit == {k \in DOMAIN list : Mentions(i, list[k])}
             p == IF hit = {} THEN 1 ELSE Max(hit) + 1
  <1>0. Len(list) \in Nat /\ DOMAIN list = 1..Len(list)
    OBVIOUS
  <1>1. insertByDeps(list, i) = InsertAt(list, p, i)
    BY DEF insertByDeps
  <1>2. CASE hit = {}
    BY <1>0, <1>1, <1>2
  <1>3. CASE hit # {}
    <2>1. hit \subseteq Nat /\ \A k \in hit : k <= Len(list)
      BY <1>0
    <2>2. Max(hit) \in hit /\ \A y \in hit : y <= Max(hit)
      <3> HIDE DEF hit
      <3> QED
        BY <1>0, <1>3, <2>1, MaxOfNats
    <2>4. p = Max(hit) + 1 /\ Max(hit) \in 1..Len(list)
      BY <1>0, <1>3, <2>2
    <2>5. \A k \in DOMAIN list : k >= p => ~Mentions(i, list[k])
      <3>1. \A k \in DOMAIN list : k \in Nat /\ (Mentions(i, list[k]) => k <= Max(hit))
        BY <1>0, <2>2
      <3> HIDE DEF hit
      <3> QED
        BY <1>0, <2>4, <3>1
    <2> QED
      BY <1>0, <1>1, <1>3, <2>4, <2>5
  <1> QED
    BY <1>2, <1>3

LEMMA InsertLists ==
    ASSUME OrderlyCases, case \in Cases, NEW prefix, NEW n \in Nat, NEW list, Lists(list, prefix, n),
           NodeOf(prefix, n + 1)
    PROVE  Lists(insertByDeps(list, n + 1), prefix, n + 1)
  <1> DEFINE i == n + 1
             w == insertByDeps(list, i)
  <1>0. /\ list \in Seq(Numbers) /\ Len(list) \in Nat /\ DOMAIN list = 1..Len(list)
        /\ Numbers \subseteq Nat /\ i \in Numbers
    BY FieldCount DEF Lists, NodeOf
  <1>1. PICK p \in 1..(Len(list) + 1) :
           /\ w = InsertAt(list, p, i)
           /\ \A k \in DOMAIN list : k >= p => ~Mentions(i, list[k])
           /\ p # 1 => \E k \in DOMAIN list : Mentions(i, list[k])
    BY <1>0, InsertPlace
  <1>2. /\ w \in Seq(Numbers) /\ Len(w) = Len(list) + 1
        /\ \A k \in 1..(Len(list) + 1) :
              w[k] = IF k < p THEN list[k] ELSE IF k = p THEN i ELSE list[k - 1]
    BY <1>0, <1>1, Inserted
  <1> HIDE DEF w
  <1>3. DOMAIN w = 1..(Len(list) + 1)
    BY <1>2
  <1>4. \A k \in DOMAIN list : NodeOf(prefix, list[k]) /\ list[k] \in Numbers /\ list[k] <= n
    BY DEF Lists, NodesOf
  <1>5. ASSUME NEW k \in DOMAIN w
        PROVE  w[k] \in NodesOf(prefix, i)
    <2>1. CASE k = p
      BY <1>0, <1>2, <1>3, <2>1 DEF NodesOf
    <2>2. CASE k # p
      <3>1. PICK l \in DOMAIN list : w[k] = list[l]
        <4>1. k < p => k \in DOMAIN list
          BY <1>0, <1>1, <1>3
        <4>2. k > p => k - 1 \in DOMAIN list
          BY <1>0, <1>1, <1>3
        <4> QED
          BY <1>0, <1>1, <1>2, <1>3, <2>2, <4>1, <4>2
      <3>2. list[l] <= n /\ list[l] \in Nat
        BY <1>0, <1>4
      <3>3. list[l] <= i
        BY <3>2
      <3> QED
        BY <1>4, <3>1, <3>3 DEF NodesOf
    <2> QED
      BY <2>1, <2>2
  <1>6. ASSUME NEW j \in NodesOf(prefix, i)
        PROVE  \E k \in DOMAIN w : w[k] = j
    <2>1. CASE j = i
      BY <1>0, <1>1, <1>2, <1>3, <2>1
    <2>2. CASE j # i
      <3>1. j \in NodesOf(prefix, n)
        <4>1. j \in Numbers /\ NodeOf(prefix, j) /\ j <= i
          BY DEF NodesOf
        <4>2. j <= n
          BY <1>0, <2>2, <4>1
        <4> QED
          BY <4>1, <4>2 DEF NodesOf
      <3>2. PICK k \in DOMAIN list : list[k] = j
        BY <3>1 DEF Lists
      <3>3. CASE k < p
        <4>1. k \in DOMAIN w /\ w[k] = j
          BY <1>0, <1>2, <1>3, <3>2, <3>3
        <4> QED
          BY <4>1
      <3>4. CASE k >= p
        <4>1. k + 1 \in DOMAIN w /\ (k + 1) - 1 = k /\ ~(k + 1 < p) /\ k + 1 # p
          BY <1>0, <1>1, <1>3, <3>4
        <4>2. w[k + 1] = list[(k + 1) - 1]
          BY <1>2, <1>3, <4>1
        <4> QED
          BY <3>2, <4>1, <4>2
      <3> QED
        BY <1>0, <1>1, <3>3, <3>4
    <2> QED
      BY <2>1, <2>2
  <1>7. ASSUME NEW k \in DOMAIN w, NEW l \in DOMAIN w, k < l
        PROVE  ~Mentions(w[k], w[l])
    <2>0. /\ k \in Nat /\ l \in Nat /\ p \in Nat /\ k < l
          /\ k < p => k \in DOMAIN list /\ w[k] = list[k]
          /\ l < p => l \in DOMAIN list /\ w[l] = list[l]
          /\ k > p => k - 1 \in DOMAIN list /\ w[k] = list[k - 1]
          /\ l > p => l - 1 \in DOMAIN list /\ w[l] = list[l - 1]
          /\ w[p] = i
      <3>1. \A x \in DOMAIN w : /\ x \in Nat
                                /\ x < p => x \in DOMAIN list /\ w[x] = list[x]
                                /\ x > p => x - 1 \in DOMAIN list /\ w[x] = list[x - 1]
        BY <1>0, <1>1, <1>2, <1>3
      <3>2. w[p] = i /\ p \in Nat
        BY <1>0, <1>1, <1>2, <1>3
      <3> QED
        BY <1>7, <3>1, <3>2
    <2>1. CASE l < p
      <3>1. k \in DOMAIN list /\ l \in DOMAIN list /\ w[k] = list[k] /\ w[l] = list[l]
        BY <2>0, <2>1
      <3> QED
        BY <1>7, <3>1 DEF Lists, InOrder
    <2>2. CASE l = p
      <3>1. k \in DOMAIN list /\ w[k] = list[k] /\ w[l] = i /\ p # 1
        BY <2>0, <2>2
      <3>2. PICK b \in DOMAIN list : Mentions(i, list[b])
        BY <1>1, <3>1
      <3>3. list[k] < i /\ list[b] < i
        <4>1. list[k] \in Nat /\ list[b] \in Nat /\ list[k] <= n /\ list[b] <= n
          BY <1>0, <1>4, <3>1
        <4> QED
          BY <4>1
      <3>4. NodeOf(prefix, list[k]) /\ NodeOf(prefix, list[b]) /\ NodeOf(prefix, i)
        BY <1>4, <3>1
      <3>5. Mentions(list[k], i) => ~Mentions(i, list[b])
        BY <3>3, <3>4, OrderFitsHere
      <3> QED
        BY <3>1, <3>2, <3>5
    <2>3. CASE l > p /\ k < p
      <3>1. k \in DOMAIN list /\ l - 1 \in DOMAIN list /\ w[k] = list[k] /\ w[l] = list[l - 1] /\ k < l - 1
        BY <2>0, <2>3
      <3> QED
        BY <3>1 DEF Lists, InOrder
    <2>4. CASE l > p /\ k = p
      <3>1. l - 1 \in DOMAIN list /\ w[k] = i /\ w[l] = list[l - 1] /\ l - 1 >= p
        BY <2>0, <2>4
      <3> QED
        BY <1>1, <3>1
    <2>5. CASE l > p /\ k > p
      <3>1. k - 1 \in DOMAIN list /\ l - 1 \in DOMAIN list /\ w[k] = list[k - 1] /\ w[l] = list[l - 1]
            /\ k - 1 < l - 1
        BY <2>0, <2>5
      <3> QED
        BY <3>1 DEF Lists, InOrder
    <2> QED
      BY <2>0, <2>1, <2>2, <2>3, <2>4, <2>5
  <1>8. Lists(w, prefix, i)
    BY <1>2, <1>5, <1>6, <1>7 DEF Lists, InOrder
  <1> QED
    BY <1>8 DEF w

LEMMA NodesListed ==
    ASSUME OrderlyCases, case \in Cases, NEW prefix
    PROVE  Lists(NodeList(prefix), prefix, Len(case.fields))
  <1> DEFINE N == Len(case.fields)
             Next1(s, n) == IF IsNode(F(n)) /\ F(n).prefix = prefix THEN insertByDeps(s, n) ELSE s
             Solves(f) == f = [n \in 0..N |->
                                 IF n = 0 THEN <<>>
                                 ELSE IF IsNode(F(n)) /\ F(n).prefix = prefix THEN insertByDeps(f[n - 1], n)
                                 ELSE f[n - 1]]
             list == CHOOSE f : Solves(f)
             step == [n \in 1..N |-> [s \in Seq(Numbers) |-> Next1(s, n)]]
  <1>0. N \in Nat /\ Numbers = 1..N
    BY FieldCount
  <1>1. NodeList(prefix) = list[N]
    BY DEF NodeList
  <1>2. step \in [1..N -> [Seq(Numbers) -> Seq(Numbers)]]
    <2>1. ASSUME NEW n \in 1..N, NEW s \in Seq(Numbers)
          PROVE  Next1(s, n) \in Seq(Numbers)
      <3>1. PICK p \in 1..(Len(s) + 1) : insertByDeps(s, n) = InsertAt(s, p, n)
        BY InsertPlace
      <3>2. n \in Numbers
        BY <1>0
      <3>3. InsertAt(s, p, n) \in Seq(Numbers)
        BY <3>2, Inserted
      <3> QED
        BY <3>1, <3>3
    <2> HIDE DEF Next1
    <2> QED
      BY <2>1
  <1>3. PICK g \in [0..N -> Seq(Numbers)] : GoesOn(g, N, <<>>, step)
    <2>1. <<>> \in Seq(Numbers)
      OBVIOUS
    <2> HIDE DEF step
    <2> QED
      BY <1>0, <1>2, <2>1, StepsExist
  <1>4. \A n \in 1..N : g[n] = Next1(g[n - 1], n)
    <2>1. \A n \in 1..N : n - 1 \in 0..N
      BY <1>0
    <2>2. \A n \in 1..N : g[n - 1] \in Seq(Numbers) /\ g[n] = step[n][g[n - 1]]
      BY <1>3, <2>1 DEF GoesOn
    <2> HIDE DEF Next1
    <2> QED
      BY <2>2
  <1>5. Solves(g)
    <2>1. \A n \in 0..N : n # 0 => n \in 1..N
      BY <1>0
    <2>2. g[0] = <<>>
      BY <1>3 DEF GoesOn
    <2>3. g = [n \in 0..N |-> g[n]]
      BY <1>3
    <2> QED
      BY <1>4, <2>1, <2>2, <2>3
  <1>6. Solves(list)
    <2> HIDE DEF Solves
    <2> QED
      BY <1>5
  <1> HIDE DEF list
  <1>7. list[0] = <<>> /\ \A n \in 1..N : list[n] = Next1(list[n - 1], n)
    <2>1. 0 \in 0..N /\ \A n \in 1..N : n \in 0..N /\ n # 0
      BY <1>0
    <2> QED
      BY <1>6, <2>1
  <1> HIDE DEF Solves, step
  <1> DEFINE Good == {n \in Nat : n <= N => Lists(list[n], prefix, n)}
  <1>8. 0 \in Good
    <2>1. NodesOf(prefix, 0) = {}
      BY <1>0 DEF NodesOf
    <2>2. Lists(<<>>, prefix, 0)
      BY <2>1 DEF Lists, InOrder
    <2> QED
      BY <1>7, <2>2
  <1>9. ASSUME NEW n \in Nat, n \in Good
        PROVE  n + 1 \in Good
    <2> SUFFICES ASSUME n + 1 <= N PROVE Lists(list[n + 1], prefix, n + 1)
      OBVIOUS
    <2>1. n + 1 \in 1..N /\ n + 1 \in Numbers /\ (n + 1) - 1 = n /\ Lists(list[n], prefix, n)
      BY <1>0, <1>9
    <2>2. list[n + 1] = Next1(list[n], n + 1)
      BY <1>7, <2>1
    <2>3. CASE NodeOf(prefix, n + 1)
      <3>1. list[n + 1] = insertByDeps(list[n], n + 1)
        BY <2>2, <2>3 DEF NodeOf
      <3> HIDE DEF Next1
      <3> QED
        BY <2>1, <2>3, <3>1, InsertLists
    <2>4. CASE ~NodeOf(prefix, n + 1)
      <3>1. list[n + 1] = list[n]
        BY <2>1, <2>2, <2>4 DEF NodeOf
      <3>2. NodesOf(prefix, n + 1) = NodesOf(prefix, n)
        <4>1. \A i \in Numbers : i \in Nat /\ (i <= n + 1 <=> i <= n \/ i = n + 1)
          BY <1>0
        <4> QED
          BY <2>4, <4>1 DEF NodesOf
      <3> HIDE DEF Next1
      <3> QED
        BY <2>1, <3>1, <3>2 DEF Lists
    <2> QED
      BY <2>3, <2>4
  <1> HIDE DEF Good
  <1>10. \A n \in Nat : n \in Good
    BY <1>8, <1>9, InductionOnNats
  <1>11. Lists(list[N], prefix, N)
    BY <1>0, <1>10 DEF Good
  <1> QED
    BY <1>1, <1>11

(* In its turn, all that a node mentions has been computed.                 *)
LEMMA MentionedDone ==
    ASSUME OrderlyCases, case \in Cases, stage = "format", NEW i \in Numbers, Turn(i),
           NEW j \in Numbers, IsNode(F(j)), j # i
    PROVE  /\ F(j).prefix = F(i).prefix /\ Mentions(i, j) => j \in done
           /\ IsStrictPrefix(F(i).prefix, F(j).prefix) => j \in done
  <1> DEFINE list == NodeList(F(i).prefix)
  <1>0. Len(case.fields) \in Nat /\ Numbers = 1..Len(case.fields)
    BY FieldCount
  <1>1. i \in Work /\ j \in Work /\ IsNode(F(i))
    BY WorkIs DEF Turn
  <1>2. /\ \A k \in 1..Len(list) : list[k] = i => \A l \in 1..(k - 1) : list[l] \in done
        /\ \A k \in Work : IsStrictPrefix(F(i).prefix, F(k).prefix) => k \in done
    BY DEF Turn
  <1>3. Lists(list, F(i).prefix, Len(case.fields))
    BY NodesListed
  <1> HIDE DEF list
  <1>4. ASSUME F(j).prefix = F(i).prefix, Mentions(i, j)
        PROVE  j \in done
    <2>1. i \in NodesOf(F(i).prefix, Len(case.fields)) /\ j \in NodesOf(F(i).prefix, Len(case.fields))
      BY <1>0, <1>1, <1>4 DEF NodesOf, NodeOf
    <2>2. PICK k \in DOMAIN list : list[k] = i
      BY <1>3, <2>1 DEF Lists
    <2>3. PICK l \in DOMAIN list : list[l] = j
      BY <1>3, <2>1 DEF Lists
    <2>4. ~(k < l) /\ k # l
      BY <1>3, <1>4, <2>2, <2>3 DEF Lists, InOrder
    <2>5. DOMAIN list = 1..Len(list) /\ Len(list) \in Nat
      BY <1>3 DEF Lists
    <2>6. l \in 1..(k - 1)
      BY <2>4, <2>5
    <2> QED
      BY <1>2, <2>2, <2>3, <2>5, <2>6
  <1> QED
    BY <1>1, <1>2, <1>4

-----------------------------------------------------------------------------
(* Formatters after what they mention.                                     *)

(* Where a node writes, no map is around that a prefix leads to.           *)
LEMMA NotAbove ==
    ASSUME SensibleCases, case \in Cases, NEW m, NEW k \in Numbers, IsNode(F(k)), NEW v,
           F(k).type # "nested_field" => v # Object,
           IsItem(Put(m, Target(k), v)), NEW i \in Numbers, IsObject(Put(m, Target(k), v), F(i).prefix)
    PROVE  ~IsPrefix(Target(k), F(i).prefix)
  <1> DEFINE w == Put(m, Target(k), v)
             P == F(i).prefix
             T == Target(k)
  <1> SUFFICES ASSUME IsPrefix(T, P) PROVE FALSE
    OBVIOUS
  <1>0. P \in ItemPath /\ T \in ItemPath /\ P \in Chains /\ P \in DOMAIN w /\ w[P] = Object
    BY CaseFields, FieldPaths, PrefixIsChain DEF IsObject
  <1>1. CASE F(k).type = "nested_field"
    <2>1. T \in Chains
      BY <1>0, ChainsClosed
    <2>2. T \notin Chains
      BY <1>1, OwnTarget
    <2> QED
      BY <2>1, <2>2
  <1>2. CASE F(k).type # "nested_field"
    <2>1. w[T] = v /\ v # Object
      BY <1>2 DEF Put
    <2> HIDE DEF w, T, P
    <2>2. \A p \in ItemPath : IsPrefix(p, P) => p \in DOMAIN w /\ (p # P => IsObject(w, p))
      BY <1>0, WayThere DEF w
    <2>3. T = P \/ IsObject(w, T)
      BY <1>0, <2>2
    <2> QED
      BY <1>0, <2>1, <2>3 DEF IsObject
  <1> QED
    BY <1>1, <1>2

(* Nor anything that a path of other names leads to.                       *)
LEMMA NotRead ==
    ASSUME SensibleCases, case \in Cases, NEW k \in Numbers, IsNode(F(k)), NEW i \in Numbers,
           ~IsPrefix(Target(k), F(i).prefix), ~IsStrictPrefix(F(i).prefix, F(k).prefix),
           NEW path \in Seq(STRING), F(k).prefix = F(i).prefix => F(k).alias \notin ToSet(path)
    PROVE  ~IsPrefix(Target(k), F(i).prefix \o path)
  <1> DEFINE P == F(i).prefix
             K == F(k).prefix
             T == Target(k)
             r == P \o path
  <1> SUFFICES ASSUME IsPrefix(T, r) PROVE FALSE
    OBVIOUS
  <1>0. P \in ItemPath /\ K \in ItemPath /\ F(k).alias \in Keys /\ path \in ItemPath
    BY CaseFields, SeqMonotonic DEF ItemPath, Keys
  <1>1. T = Append(K, F(k).alias)
    BY Kinds DEF Target, fieldKey
  <1>2. /\ T \in ItemPath /\ Len(T) = Len(K) + 1 /\ Len(K) \in Nat
        /\ T[Len(K) + 1] = F(k).alias /\ \A n \in 1..Len(K) : T[n] = K[n]
    BY <1>0, <1>1, AppendParts
  <1>3. /\ r \in ItemPath /\ Len(r) = Len(P) + Len(path) /\ Len(P) \in Nat /\ Len(path) \in Nat
        /\ \A n \in 1..Len(P) : r[n] = P[n]
        /\ \A n \in 1..Len(path) : r[Len(P) + n] = path[n]
    BY <1>0, ConcatProperties, LenProperties DEF ItemPath
  <1> HIDE DEF r, T, P, K
  <1>4. Len(T) <= Len(r) /\ \A n \in 1..Len(T) : T[n] = r[n]
    BY <1>2, <1>3, PrefixPointwise
  <1>5. CASE Len(T) <= Len(P)
    <2>1. \A n \in 1..Len(T) : T[n] = P[n]
      BY <1>2, <1>3, <1>4, <1>5
    <2>2. IsPrefix(T, P)
      BY <1>0, <1>2, <1>5, <2>1, PrefixPointwise
    <2> QED
      BY <2>2 DEF T, P
  <1>6. CASE ~(Len(T) <= Len(P))
    <2>1. Len(P) <= Len(K)
      BY <1>2, <1>3, <1>6
    <2>2. \A n \in 1..Len(P) : P[n] = K[n]
      <3>1. \A n \in 1..Len(P) : n \in 1..Len(T) /\ n \in 1..Len(K)
        BY <1>2, <1>3, <2>1
      <3> QED
        BY <1>2, <1>3, <1>4, <3>1
    <2>3. IsPrefix(P, K)
      BY <1>0, <2>1, <2>2, PrefixPointwise
    <2>4. P = K
      BY <2>3 DEF IsStrictPrefix, P, K
    <2>5. 1 \in 1..Len(path) /\ Len(P) + 1 \in 1..Len(T)
      BY <1>2, <1>3, <1>4, <2>4
    <2>6. path[1] = F(k).alias
      BY <1>2, <1>3, <1>4, <2>4, <2>5
    <2>7. F(k).alias \in ToSet(path)
      BY <2>5, <2>6 DEF ToSet
    <2> QED
      BY <2>4, <2>7 DEF P, K
  <1> QED
    BY <1>5, <1>6

(* What a computed node holds is what it would hold if computed now.       *)
Copied(i) == F(i).prefix \o F(i).template[1].path
RightText(m, i) ==
    F(i).type = "formatter" /\ IsObject(m, F(i).prefix) =>
        /\ Target(i) \in DOMAIN m
        /\ m[Target(i)] = Str(applyFormatter(F(i).template, m, F(i).prefix))
RightCopy(m, i) ==
    F(i).type = "nested_field" /\ Copied(i) \in DOMAIN m =>
        Target(i) \in DOMAIN m /\ m[Target(i)] = m[Copied(i)]
Right(m, i) == RightText(m, i) /\ RightCopy(m, i)

LEMMA TemplateHere ==
    ASSUME OrderlyCases, case \in Cases, NEW i \in Numbers
    PROVE  /\ F(i).type = "nested_field" => F(i).template[1].kind = "token"
           /\ F(i).type \in {"formatter", "nested_field"} =>
                 IsTemplate(F(i).template) /\ F(i).template # <<>> /\ F(i).alias \notin NamesIn(F(i).template)
  BY DEF OrderlyCases, F, Numbers

LEMMA CopiedNames ==
    ASSUME OrderlyCases, case \in Cases, NEW i \in Numbers, F(i).type = "nested_field"
    PROVE  LET path == F(i).template[1].path IN
           path \in Seq(STRING) /\ path \in ItemPath \ {<<>>} /\ ToSet(path) \subseteq NamesIn(F(i).template)
  <1> DEFINE t == F(i).template
  <1>0. IsTemplate(t) /\ t # <<>> /\ t[1].kind = "token" /\ t[1].path \in ItemPath \ {<<>>}
    BY TemplateHere, CaseFields
  <1> HIDE DEF t
  <1>1. t \in Seq(PartsAt(t)[0])
    BY <1>0 DEF IsTemplate
  <1>2. t[1] \in PartsAt(t)[0]
    <2>1. Len(t) \in Nat \ {0}
      BY <1>0, <1>1, EmptySeq
    <2>2. 1 \in 1..Len(t)
      BY <2>1
    <2> QED
      BY <1>1, <2>2
  <1>3. t[1] \in PartsIn(t)
    <2>1. 0 \in 0..MaxNesting
      BY NestingAssumption
    <2> QED
      BY <1>2, <2>1 DEF PartsIn
  <1>4. t[1].path \in Seq(STRING) /\ ToSet(t[1].path) \subseteq NamesIn(t)
    BY <1>0, <1>3, NamesOfPart
  <1> QED
    BY <1>0, <1>4 DEF t

(* A node that i neither mentions nor has in a map below leaves i right.   *)
OutOfSight(k, i) ==
    /\ ~IsStrictPrefix(F(i).prefix, F(k).prefix)
    /\ F(k).prefix = F(i).prefix => F(k).alias \notin NamesIn(F(i).template)

LEMMA SameWhere ==
    ASSUME NEW m, NEW p, NEW v, NEW q, ~IsPrefix(p, q), p # q
    PROVE  /\ q \in DOMAIN Put(m, p, v) <=> q \in DOMAIN m
           /\ q \in DOMAIN m => Put(m, p, v)[q] = m[q]
  BY DEF Put, Under

LEMMA ReadsStay ==
    ASSUME SensibleCases, case \in Cases, NEW m, NEW k \in Numbers, IsNode(F(k)), NEW v,
           NEW i \in Numbers, ~IsPrefix(Target(k), F(i).prefix), OutOfSight(k, i)
    PROVE  \A path \in Seq(STRING) : ToSet(path) \subseteq NamesIn(F(i).template) =>
              LET q == F(i).prefix \o path
                  w == Put(m, Target(k), v)
              IN  (q \in DOMAIN w <=> q \in DOMAIN m) /\ (q \in DOMAIN m => w[q] = m[q])
  <1> SUFFICES ASSUME NEW path \in Seq(STRING), ToSet(path) \subseteq NamesIn(F(i).template)
               PROVE  LET q == F(i).prefix \o path
                          w == Put(m, Target(k), v)
                      IN  (q \in DOMAIN w <=> q \in DOMAIN m) /\ (q \in DOMAIN m => w[q] = m[q])
    OBVIOUS
  <1> DEFINE q == F(i).prefix \o path
  <1>0. /\ ~IsStrictPrefix(F(i).prefix, F(k).prefix)
        /\ F(k).prefix = F(i).prefix => F(k).alias \notin ToSet(path)
    BY DEF OutOfSight
  <1>1. ~IsPrefix(Target(k), q)
    BY <1>0, NotRead
  <1>2. Target(k) # q
    <2>1. IsPrefix(Target(k), Target(k))
      BY FieldPaths, PrefixFacts
    <2> HIDE DEF q
    <2> QED
      BY <1>1, <2>1
  <1> HIDE DEF q
  <1>3. LET w == Put(m, Target(k), v) IN (q \in DOMAIN w <=> q \in DOMAIN m) /\ (q \in DOMAIN m => w[q] = m[q])
    BY <1>1, <1>2, SameWhere
  <1> QED
    BY <1>3 DEF q

LEMMA StaysRight ==
    ASSUME SensibleCases, OrderlyCases, case \in Cases, NEW m, IsItem(m), NEW k \in Numbers, IsNode(F(k)),
           NEW v, F(k).type # "nested_field" => v # Object, IsItem(Put(m, Target(k), v)),
           NEW i \in Numbers, i # k, IsNode(F(i)), OutOfSight(k, i), Right(m, i)
    PROVE  Right(Put(m, Target(k), v), i)
  <1> DEFINE w == Put(m, Target(k), v)
             P == F(i).prefix
  <1>0. P \in ItemPath /\ Target(k) \in ItemPath /\ Target(i) \in ItemPath /\ Target(i) # <<>> /\ Front(Target(i)) = P
    BY CaseFields, FieldPaths
  <1>1. ASSUME IsObject(w, P)
        PROVE  /\ ~IsPrefix(Target(k), P)
               /\ IsObject(m, P)
               /\ (Target(i) \in DOMAIN m => Target(i) \in DOMAIN w /\ w[Target(i)] = m[Target(i)])
    <2>1. ~IsPrefix(Target(k), P)
      BY <1>1, NotAbove
    <2>2. Target(k) # P
      BY <1>0, <2>1, PrefixFacts
    <2>3. Target(k) # Target(i)
      <3>1. SUFFICES ASSUME Target(k) = Target(i) PROVE FALSE
        OBVIOUS
      <3>2. F(k).prefix = F(i).prefix /\ fieldKey(F(k)) = fieldKey(F(i))
        BY <3>1, FieldPaths
      <3> QED
        BY <3>2, Apart
    <2>4. ~IsPrefix(Target(k), Target(i))
      BY <1>0, <2>1, <2>3, PrefixOfFront
    <2>5. IsObject(m, P)
      <3>1. (P \in DOMAIN w <=> P \in DOMAIN m) /\ (P \in DOMAIN m => w[P] = m[P])
        BY <2>1, <2>2, SameWhere
      <3> QED
        BY <1>1, <3>1 DEF IsObject
    <2>6. Target(i) \in DOMAIN m => Target(i) \in DOMAIN w /\ w[Target(i)] = m[Target(i)]
      BY <2>3, <2>4, SameWhere
    <2> QED
      BY <2>1, <2>5, <2>6
  <1>2. RightText(w, i)
    <2> SUFFICES ASSUME F(i).type = "formatter", IsObject(w, P)
                 PROVE  Target(i) \in DOMAIN w /\ w[Target(i)] = Str(applyFormatter(F(i).template, w, P))
      BY DEF RightText
    <2>1. Target(i) \in DOMAIN m /\ m[Target(i)] = Str(applyFormatter(F(i).template, m, P))
      BY <1>1 DEF Right, RightText
    <2>2. IsTemplate(F(i).template)
      BY TemplateHere
    <2>3. SameReads(m, w, P, NamesIn(F(i).template))
      <3>1. \A path \in Seq(STRING) : ToSet(path) \subseteq NamesIn(F(i).template) =>
              LET q == P \o path IN (q \in DOMAIN w <=> q \in DOMAIN m) /\ (q \in DOMAIN m => w[q] = m[q])
        BY <1>1, ReadsStay
      <3> HIDE DEF w, P
      <3> QED
        BY <3>1 DEF SameReads, getNested
    <2> HIDE DEF w, P
    <2>4. applyFormatter(F(i).template, m, P) = applyFormatter(F(i).template, w, P)
      BY <2>2, <2>3, SameText
    <2> QED
      BY <1>1, <2>1, <2>4
  <1>3. RightCopy(w, i)
    <2> SUFFICES ASSUME F(i).type = "nested_field", Copied(i) \in DOMAIN w
                 PROVE  Target(i) \in DOMAIN w /\ w[Target(i)] = w[Copied(i)]
      BY DEF RightCopy
    <2> DEFINE path == F(i).template[1].path
    <2>1. path \in Seq(STRING) /\ path \in ItemPath \ {<<>>} /\ ToSet(path) \subseteq NamesIn(F(i).template)
      BY CopiedNames
    <2>2. Copied(i) = P \o path
      BY DEF Copied
    <2> HIDE DEF path
    <2>3. Copied(i) \in ItemPath /\ IsPrefix(P, Copied(i)) /\ Copied(i) # P
      BY <1>0, <2>1, <2>2, Longer
    <2>4. IsItem(w)
      OBVIOUS
    <2> HIDE DEF w
    <2>5. IsObject(w, P)
      BY <1>0, <2>3, <2>4, WayThere
    <2>6. (Copied(i) \in DOMAIN w <=> Copied(i) \in DOMAIN m) /\ (Copied(i) \in DOMAIN m => w[Copied(i)] = m[Copied(i)])
      <3>1. ~IsPrefix(Target(k), P)
        BY <1>1, <2>5
      <3>2. \A pt \in Seq(STRING) : ToSet(pt) \subseteq NamesIn(F(i).template) =>
              LET q == P \o pt IN (q \in DOMAIN w <=> q \in DOMAIN m) /\ (q \in DOMAIN m => w[q] = m[q])
        BY <3>1, ReadsStay DEF w
      <3> HIDE DEF P
      <3> QED
        BY <2>1, <2>2, <3>2
    <2>7. Target(i) \in DOMAIN m /\ m[Target(i)] = m[Copied(i)]
      BY <2>6 DEF Right, RightCopy
    <2> QED
      BY <1>1, <2>5, <2>6, <2>7
  <1> QED
    BY <1>2, <1>3 DEF Right

(* What a node has just computed is right: it does not read itself.        *)
LEMMA ComputedRight ==
    ASSUME SensibleCases, OrderlyCases, case \in Cases, NEW m, IsItem(m), NEW k \in Numbers, IsNode(F(k))
    PROVE  Right(executeNode(m, k), k)
  <1> DEFINE w == executeNode(m, k)
             P == F(k).prefix
             T == Target(k)
             t == F(k).template
  <1>0. /\ P \in ItemPath /\ T \in ItemPath /\ T # <<>> /\ Front(T) = P
        /\ Append(P, F(k).alias) = T
    BY CaseFields, FieldPaths, Kinds DEF Target, fieldKey
  <1>1. ~IsPrefix(T, P)
    <2>1. IsPrefix(P, T) /\ P # T
      <3>1. T # <<>> /\ Len(P) = Len(T) - 1 /\ Len(T) \in Nat \ {0}
        BY <1>0, FrontAndLast
      <3>2. IsPrefix(P, P)
        BY <1>0, PrefixFacts
      <3> HIDE DEF P, T
      <3>3. IsPrefix(P, T)
        BY <1>0, <3>2, PrefixOfFront
      <3> QED
        BY <3>1, <3>3
    <2> HIDE DEF P, T
    <2> QED
      BY <1>0, <2>1, PrefixFacts
  <1>2. F(k).type \in {"formatter", "nested_field"} => OutOfSight(k, k)
    BY TemplateHere DEF OutOfSight, IsStrictPrefix
  <1>3. RightText(w, k)
    <2> SUFFICES ASSUME F(k).type = "formatter", IsObject(w, P)
                 PROVE  T \in DOMAIN w /\ w[T] = Str(applyFormatter(t, w, P))
      BY DEF RightText
    <2> DEFINE v == Str(applyFormatter(t, m, P))
    <2>1. CASE IsObject(m, P)
      <3>1. w = Put(m, T, v)
        BY <1>0, <2>1 DEF executeNode
      <3>2. SameReads(m, w, P, NamesIn(t))
        <4>1. \A path \in Seq(STRING) : ToSet(path) \subseteq NamesIn(t) =>
              LET q == P \o path
                  x == Put(m, T, v)
              IN  (q \in DOMAIN x <=> q \in DOMAIN m) /\ (q \in DOMAIN m => x[q] = m[q])
          BY <1>1, <1>2, ReadsStay
        <4> HIDE DEF w, P, T, t, v
        <4> QED
          BY <3>1, <4>1 DEF SameReads, getNested
      <3>3. IsTemplate(t)
        BY TemplateHere
      <3> HIDE DEF w, P, T, t
      <3>4. applyFormatter(t, m, P) = applyFormatter(t, w, P)
        BY <3>2, <3>3, SameText
      <3> QED
        BY <3>1, <3>4 DEF Put
    <2>2. CASE ~IsObject(m, P)
      <3>1. w = m
        BY <2>2 DEF executeNode
      <3> QED
        BY <2>2, <3>1
    <2> QED
      BY <2>1, <2>2
  <1>4. RightCopy(w, k)
    <2> SUFFICES ASSUME F(k).type = "nested_field", Copied(k) \in DOMAIN w
                 PROVE  T \in DOMAIN w /\ w[T] = w[Copied(k)]
      BY DEF RightCopy
    <2>1. CASE Copied(k) \in DOMAIN m
      <3>1. w = Put(m, T, m[Copied(k)])
        BY <1>0, <2>1 DEF executeNode, Copied
      <3> DEFINE path == t[1].path
      <3>2. path \in Seq(STRING) /\ ToSet(path) \subseteq NamesIn(t)
        BY CopiedNames
      <3>3. Copied(k) = P \o path
        BY DEF Copied
      <3>4. \A pt \in Seq(STRING) : ToSet(pt) \subseteq NamesIn(t) =>
              LET q == P \o pt
                  x == Put(m, T, m[Copied(k)])
              IN  (q \in DOMAIN x <=> q \in DOMAIN m) /\ (q \in DOMAIN m => x[q] = m[q])
        BY <1>1, <1>2, ReadsStay
      <3> HIDE DEF w, P, T, t, path
      <3>5. w[Copied(k)] = m[Copied(k)]
        BY <2>1, <3>1, <3>2, <3>3, <3>4
      <3> QED
        BY <3>1, <3>5 DEF Put
    <2>2. CASE Copied(k) \notin DOMAIN m
      <3>1. w = m
        BY <2>2 DEF executeNode, Copied
      <3> QED
        BY <2>2, <3>1
    <2> QED
      BY <2>1, <2>2
  <1> QED
    BY <1>3, <1>4 DEF Right

(* Of those computed, each has what it mentions computed too, and what is  *)
(* in the maps below; and each is right, until the pass is over.           *)
Seen(i, S) ==
    \A j \in Numbers : IsNode(F(j)) /\ j # i =>
        /\ F(j).prefix = F(i).prefix /\ Mentions(i, j) => j \in S
        /\ IsStrictPrefix(F(i).prefix, F(j).prefix) => j \in S
FormatInv ==
    /\ stage = "format" => \A i \in done : IsNode(F(i)) /\ Seen(i, done) /\ Right(item, i)
    /\ stage = "remove" => \A i \in Numbers : IsNode(F(i)) => Right(item, i)

LEMMA SameFormat ==
    ASSUME case' = case
    PROVE  /\ \A i : IsNode(F(i))' <=> IsNode(F(i))
           /\ \A i : Seen(i, done)' <=> Seen(i, done')
           /\ \A i : Right(item, i)' <=> Right(item', i)
  <1>1. Numbers' = Numbers /\ \A i : F(i)' = F(i) /\ Target(i)' = Target(i)
    BY SameCase
  <1>2. ASSUME NEW i
        PROVE  /\ IsNode(F(i))' <=> IsNode(F(i))
               /\ Seen(i, done)' <=> Seen(i, done')
               /\ Right(item, i)' <=> Right(item', i)
    <2>1. IsNode(F(i))' <=> IsNode(F(i))
      BY <1>1 DEF IsNode
    <2>2. Seen(i, done)' <=> Seen(i, done')
      BY <1>1 DEF Seen, Mentions, IsNode
    <2>3. Right(item, i)' <=> Right(item', i)
      BY <1>1 DEF Right, RightText, RightCopy, Copied
    <2> QED
      BY <2>1, <2>2, <2>3
  <1> QED
    BY <1>2

LEMMA FormatStep ==
    ASSUME SensibleCases, OrderlyCases, ItemInv, FormatInv, [FinalizeNext]_finalizeVars
    PROVE  FormatInv'
  <1>1. CASE UNCHANGED finalizeVars
    <2>1. case' = case /\ item' = item /\ stage' = stage /\ done' = done
      BY <1>1 DEF finalizeVars
    <2> QED
      BY <2>1, SameCase, SameFormat DEF FormatInv
  <1>2. CASE FinalizeNext
    <2>0. case' = case /\ case \in Cases /\ Numbers' = Numbers
      BY <1>2, Actions, SameCase DEF ItemInv
    <2>1. CASE stage' \notin {"format", "remove"}
      BY <2>1 DEF FormatInv
    <2>2. CASE /\ stage \in {"alias", "collapse", "localize", "format", "rename"} /\ stage' = After[stage]
               /\ item' = item /\ Work \subseteq done /\ done' = {}
      <3>1. stage' # "format" \/ done' = {}
        BY <2>2
      <3>2. stage' = "remove" => \A i \in Numbers : IsNode(F(i)) => Right(item, i)
        <4>1. stage' = "remove" => stage = "format"
          BY <2>2, AfterIs
        <4>2. stage = "format" => \A i \in Numbers : IsNode(F(i)) => i \in done
          BY <2>2, WorkIs
        <4> QED
          BY <4>1, <4>2 DEF FormatInv
      <3>3. stage' = "format" => \A i \in done' : FALSE
        BY <3>1
      <3> QED
        BY <2>0, <2>2, <3>2, <3>3, SameFormat DEF FormatInv
    <2>3. ASSUME NEW k \in Numbers, stage = "format", stage' = stage, Turn(k), k \in Work,
                 done' = done \cup {k}, item' = executeNode(item, k)
          PROVE  FormatInv'
      <3>0. IsNode(F(k)) /\ k \notin done /\ IsItem(item) /\ IsItem(item')
        <4>1. IsNode(F(k)) /\ k \notin done /\ IsItem(item)
          BY <2>3, WorkIs DEF Turn, ItemInv
        <4> QED
          BY <2>0, <2>3, <4>1, NodeItem
      <3>1. ASSUME NEW i \in done
            PROVE  i \in Numbers /\ IsNode(F(i)) /\ Seen(i, done') /\ Right(item', i)
        <4>1. i \in Numbers /\ IsNode(F(i)) /\ Seen(i, done) /\ Right(item, i) /\ i # k
          BY <2>3, <3>0 DEF FormatInv, ItemInv
        <4>2. Seen(i, done')
          BY <2>3, <4>1 DEF Seen
        <4>3. OutOfSight(k, i)
          BY <3>0, <4>1 DEF Seen, OutOfSight, Mentions
        <4>4. Right(item', i)
          <5>1. CASE executeNode(item, k) = item
            BY <2>3, <4>1, <5>1
          <5>2. CASE executeNode(item, k) # item
            <6>1. PICK v : /\ executeNode(item, k) = Put(item, Target(k), v)
                           /\ F(k).type # "nested_field" => v # Object
              BY <2>0, <3>0, <5>2, NodeItem
            <6> QED
              BY <2>0, <2>3, <3>0, <4>1, <4>3, <6>1, StaysRight
          <5> QED
            BY <5>1, <5>2
        <4> QED
          BY <4>1, <4>2, <4>4
      <3>2. Seen(k, done')
        <4>1. \A j \in Numbers : IsNode(F(j)) /\ j # k =>
                 /\ F(j).prefix = F(k).prefix /\ Mentions(k, j) => j \in done
                 /\ IsStrictPrefix(F(k).prefix, F(j).prefix) => j \in done
          BY <2>0, <2>3, MentionedDone
        <4> QED
          BY <2>3, <4>1 DEF Seen
      <3>3. Right(item', k)
        BY <2>0, <2>3, <3>0, ComputedRight
      <3>4. \A i \in done' : IsNode(F(i)) /\ Seen(i, done') /\ Right(item', i)
        BY <2>3, <3>0, <3>1, <3>2, <3>3
      <3> QED
        BY <2>0, <2>3, <3>4, SameFormat DEF FormatInv
    <2>4. \/ stage' \notin {"format", "remove"}
          \/ /\ stage \in {"alias", "collapse", "localize", "format", "rename"} /\ stage' = After[stage]
             /\ item' = item /\ Work \subseteq done /\ done' = {}
          \/ \E k \in Numbers : /\ stage = "format" /\ stage' = stage /\ Turn(k) /\ k \in Work
                                /\ done' = done \cup {k} /\ item' = executeNode(item, k)
      BY <1>2, Actions
    <2> QED
      BY <2>1, <2>2, <2>3, <2>4
  <1> QED
    BY <1>1, <1>2

LEMMA FormatInit ==
    ASSUME FinalizeInit
    PROVE  FormatInv
  BY DEF FinalizeInit, FormatInv

LEMMA FormatEnd ==
    ASSUME FormatInv
    PROVE  FormattersSeeDependencies
  <1> SUFFICES ASSUME stage = "remove", NEW i \in Numbers
               PROVE  /\ F(i).type = "formatter" /\ IsObject(item, F(i).prefix) =>
                            item[Target(i)] = Str(applyFormatter(F(i).template, item, F(i).prefix))
                      /\ F(i).type = "nested_field" /\ F(i).prefix \o F(i).template[1].path \in DOMAIN item =>
                            item[Target(i)] = item[F(i).prefix \o F(i).template[1].path]
    BY DEF FormattersSeeDependencies
  <1>1. F(i).type \in {"formatter", "nested_field"} => Right(item, i)
    BY DEF FormatInv, IsNode
  <1> QED
    BY <1>1 DEF Right, RightText, RightCopy, Copied

(* Whatever fields a preset has, in an order that insertByDeps takes, each  *)
(* text is of the values that are there when all have been made: none reads *)
(* a field of its map, or of a map below, before that is computed           *)
(* (insertByDeps, executeNode), and no later one writes where it has read.  *)
THEOREM FormattersAlwaysSeeDependencies ==
    ASSUME SensibleCases, OrderlyCases
    PROVE  FinalizeSpec => []FormattersSeeDependencies
  <1>1. FinalizeInit => ItemInv /\ FormatInv
    BY ItemInit, FormatInit
  <1>2. ItemInv /\ FormatInv /\ [FinalizeNext]_finalizeVars => (ItemInv /\ FormatInv)'
    BY ItemStep, FormatStep
  <1>3. ItemInv /\ FormatInv => FormattersSeeDependencies
    BY FormatEnd
  <1> QED
    BY <1>1, <1>2, <1>3, PTL DEF FinalizeSpec

-----------------------------------------------------------------------------
(* Opposite conditions.                                                    *)

LEMMA OppositeOrder ==
    ASSUME NEW op \in DOMAIN Opposite, NEW less \in BOOLEAN, NEW equal \in BOOLEAN
    PROVE  Ordered(Opposite[op], less, equal) <=> ~Ordered(op, less, equal)
  BY DEF Opposite, Ordered

LEMMA OppositeValues ==
    ASSUME NEW op \in DOMAIN Opposite, NEW v, NEW w, w[1] # "bool"
    PROVE  compareValues(v, Opposite[op], w) <=> ~compareValues(v, op, w)
  <1>1. CASE IsNumber(v) /\ IsNumber(w)
    <2> DEFINE less == toNumber(v) < toNumber(w)
               equal == toNumber(v) = toNumber(w)
    <2>1. less \in BOOLEAN /\ equal \in BOOLEAN
      OBVIOUS
    <2>2. \A o : compareValues(v, o, w) <=> Ordered(o, less, equal)
      BY <1>1 DEF compareValues
    <2> HIDE DEF less, equal
    <2> QED
      BY <2>1, <2>2, OppositeOrder
  <1>2. CASE ~(IsNumber(v) /\ IsNumber(w))
    <2> DEFINE less == LexLess(toString(v), toString(w))
               equal == toString(v) = toString(w)
    <2>1. less \in BOOLEAN /\ equal \in BOOLEAN
      BY DEF LexLess
    <2>2. \A o : compareValues(v, o, w) <=> Ordered(o, less, equal)
      BY <1>2 DEF compareValues
    <2> HIDE DEF less, equal
    <2> QED
      BY <2>1, <2>2, OppositeOrder
  <1> QED
    BY <1>1, <1>2

LEMMA OppositeChosen ==
    ASSUME NEW s, NEW t, Opposed(s, t), s.cond.op \in DOMAIN Opposite, NEW m, NEW ctx
    PROVE  Chosen(s, m, ctx) = Chosen(t, m, ctx)
  <1> DEFINE v == getNested(m, ctx, s.cond.path)
             op == s.cond.op
             w == s.cond.literal
  <1>1. /\ w[1] # "bool" /\ t.cond.path = s.cond.path /\ t.cond.literal = w /\ t.cond.op = Opposite[op]
        /\ s.kind = "ternary" /\ t.kind = "ternary" /\ s.then = t.else /\ s.else = t.then
    BY DEF Opposed
  <1>2. op # "" /\ Opposite[op] # ""
    BY DEF Opposite
  <1>3. evalCondition(s.cond, m, ctx) <=> compareValues(v, op, w)
    BY <1>2 DEF evalCondition
  <1>4. evalCondition(t.cond, m, ctx) <=> compareValues(v, Opposite[op], w)
    BY <1>1, <1>2 DEF evalCondition
  <1>5. compareValues(v, Opposite[op], w) <=> ~compareValues(v, op, w)
    BY <1>1, OppositeValues
  <1> QED
    BY <1>1, <1>3, <1>4, <1>5 DEF Chosen

LEMMA SameSaid ==
    ASSUME NEW s, IsTemplate(s), NEW t, IsTemplate(t), SayTheSame(s, t), NEW m, NEW ctx
    PROVE  applyFormatter(s, m, ctx) = applyFormatter(t, m, ctx)
  <1> DEFINE g == Unfolded(s, m, ctx)
             h == Unfolded(t, m, ctx)
  <1>0. MaxNesting \in Nat /\ 0 \in 0..MaxNesting
    BY NestingAssumption
  <1>1. /\ replaceTernaries(s, m, ctx) = g[MaxNesting] /\ g[0] = s
        /\ \A n \in 1..MaxNesting : g[n] = FlattenSeq(Pieces(g[n - 1], m, ctx))
    BY UnfoldedIs
  <1>2. /\ replaceTernaries(t, m, ctx) = h[MaxNesting] /\ h[0] = t
        /\ \A n \in 1..MaxNesting : h[n] = FlattenSeq(Pieces(h[n - 1], m, ctx))
    BY UnfoldedIs
  <1> HIDE DEF g, h
  <1>3. DOMAIN s = DOMAIN t /\ \A k \in DOMAIN s : s[k] = t[k] \/ Opposed(s[k], t[k])
    BY DEF SayTheSame
  <1>4. ASSUME NEW k \in DOMAIN s, Opposed(s[k], t[k])
        PROVE  0 < MaxNesting /\ s[k].cond.op \in DOMAIN Opposite
    <2>1. s \in Seq(PartsAt(s)[0])
      BY DEF IsTemplate
    <2>2. s[k] \in PartsAt(s)[0]
      BY <2>1
    <2>3. s[k].kind = "ternary" => 0 < MaxNesting /\ s[k].cond.op \in {"", "==", "!=", "<", "<=", ">", ">="}
      BY <1>0, <2>2 DEF IsTemplate
    <2>4. s[k].kind = "ternary" /\ s[k].cond.op # ""
      BY <1>4 DEF Opposed
    <2> QED
      BY <2>3, <2>4 DEF Opposite
  <1>5. CASE MaxNesting = 0
    <2>1. \A k \in DOMAIN s : s[k] = t[k]
      BY <1>0, <1>3, <1>4, <1>5
    <2>2. s \in Seq(PartsAt(s)[0]) /\ t \in Seq(PartsAt(t)[0])
      BY DEF IsTemplate
    <2>3. s = t
      <3>1. s = [k \in DOMAIN s |-> s[k]] /\ t = [k \in DOMAIN t |-> t[k]]
        BY <2>2
      <3> QED
        BY <1>3, <2>1, <3>1
    <2> QED
      BY <2>3
  <1>6. CASE MaxNesting # 0
    <2>1. \A k \in DOMAIN s : Chosen(s[k], m, ctx) = Chosen(t[k], m, ctx)
      <3>1. \A k \in DOMAIN s : Opposed(s[k], t[k]) => Chosen(s[k], m, ctx) = Chosen(t[k], m, ctx)
        BY <1>4, OppositeChosen
      <3> QED
        BY <1>3, <3>1
    <2>2. Pieces(s, m, ctx) = Pieces(t, m, ctx)
      BY <1>3, <2>1 DEF Pieces
    <2>3. 1 \in 1..MaxNesting /\ 1 - 1 = 0
      BY <1>0, <1>6
    <2>4. g[1] = h[1]
      <3>1. g[1] = FlattenSeq(Pieces(g[1 - 1], m, ctx)) /\ h[1] = FlattenSeq(Pieces(h[1 - 1], m, ctx))
        BY <1>1, <1>2, <2>3
      <3> QED
        BY <1>1, <1>2, <2>2, <2>3, <3>1
    <2> DEFINE Good == {n \in Nat : n + 1 <= MaxNesting => g[n + 1] = h[n + 1]}
    <2>5. 0 \in Good
      BY <2>4
    <2>6. ASSUME NEW n \in Nat, n \in Good
          PROVE  n + 1 \in Good
      <3> SUFFICES ASSUME (n + 1) + 1 <= MaxNesting PROVE g[(n + 1) + 1] = h[(n + 1) + 1]
        OBVIOUS
      <3>1. (n + 1) + 1 \in 1..MaxNesting /\ ((n + 1) + 1) - 1 = n + 1 /\ g[n + 1] = h[n + 1]
        BY <1>0, <2>6
      <3>2. /\ g[(n + 1) + 1] = FlattenSeq(Pieces(g[((n + 1) + 1) - 1], m, ctx))
            /\ h[(n + 1) + 1] = FlattenSeq(Pieces(h[((n + 1) + 1) - 1], m, ctx))
        BY <1>1, <1>2, <3>1
      <3> QED
        BY <3>1, <3>2
    <2> HIDE DEF Good
    <2>7. \A n \in Nat : n \in Good
      BY <2>5, <2>6, InductionOnNats
    <2>8. MaxNesting - 1 \in Nat /\ (MaxNesting - 1) + 1 = MaxNesting /\ MaxNesting <= MaxNesting
      BY <1>0, <1>6
    <2>9. MaxNesting - 1 \in Good
      BY <2>7, <2>8
    <2>10. g[MaxNesting] = h[MaxNesting]
      BY <2>8, <2>9 DEF Good
    <2>11. replaceTernaries(s, m, ctx) = replaceTernaries(t, m, ctx)
      BY <1>1, <1>2, <2>10
    <2> QED
      BY <2>11 DEF applyFormatter
  <1> QED
    BY <1>5, <1>6

(* Formatters of the item itself that say the same.                        *)
RootFormatters == {k \in Numbered("formatter") : F(k).prefix = <<>>}
SaySame(i, j) ==
    i \in RootFormatters /\ j \in RootFormatters /\ SayTheSame(F(i).template, F(j).template)
Agree(m, i, j) == Target(i) \in DOMAIN m /\ Target(j) \in DOMAIN m /\ m[Target(i)] = m[Target(j)]
AgreeInv == stage \in {"remove", "rename", "done"} => \A i, j : SaySame(i, j) => Agree(item, i, j)

(* No source of another field leads to, or above, what stands at the root. *)
LEMMA RootAlone ==
    ASSUME SensibleCases, case \in Cases, NEW i \in RootFormatters
    PROVE  /\ i \in Numbers /\ F(i).type = "formatter" /\ F(i).prefix = <<>>
           /\ \A j \in Numbers : F(j).type # "formatter" => ~IsPrefix(Source(j), Target(i))
  <1>1. i \in Numbers /\ F(i).type = "formatter" /\ F(i).prefix = <<>>
    BY DEF RootFormatters, Numbered
  <1>2. Target(i) \in ItemPath /\ Target(i) # <<>> /\ Front(Target(i)) = <<>>
    BY <1>1, FieldPaths
  <1>3. ASSUME NEW j \in Numbers, F(j).type # "formatter", IsPrefix(Source(j), Target(i))
        PROVE  FALSE
    <2>1. Source(j) = Target(i)
      <3>1. Source(j) \in ItemPath /\ Source(j) # <<>>
        BY FieldPaths
      <3> QED
        BY <1>2, <1>3, <3>1, PrefixOfFront, OnlyEmptyBeginsEmpty
    <2>2. F(i).prefix = F(j).prefix /\ fieldKey(F(i)) = F(j).source /\ i # j
      BY <1>1, <1>3, <2>1, FieldPaths
    <2> QED
      BY <1>1, <1>3, <2>2, Apart
  <1> QED
    BY <1>1, <1>3

LEMMA SameAgree ==
    ASSUME case' = case
    PROVE  /\ \A i, j : SaySame(i, j)' <=> SaySame(i, j)
           /\ \A i, j : Agree(item, i, j)' <=> Agree(item', i, j)
  <1>1. Numbers' = Numbers /\ \A i : F(i)' = F(i) /\ Target(i)' = Target(i)
    BY SameCase
  <1>2. ASSUME NEW i, NEW j
        PROVE  (SaySame(i, j)' <=> SaySame(i, j)) /\ (Agree(item, i, j)' <=> Agree(item', i, j))
    <2>1. SaySame(i, j)' <=> SaySame(i, j)
      BY <1>1 DEF SaySame, RootFormatters, Numbered
    <2>2. Agree(item, i, j)' <=> Agree(item', i, j)
      BY <1>1 DEF Agree
    <2> QED
      BY <2>1, <2>2
  <1> QED
    BY <1>2

(* Those computed agree, as both are right.                                *)
LEMMA RightAgree ==
    ASSUME OrderlyCases, case \in Cases, NEW m, IsItem(m), NEW i, NEW j, SaySame(i, j),
           Right(m, i), Right(m, j)
    PROVE  Agree(m, i, j)
  <1>1. /\ i \in Numbers /\ F(i).type = "formatter" /\ F(i).prefix = <<>>
        /\ j \in Numbers /\ F(j).type = "formatter" /\ F(j).prefix = <<>>
        /\ SayTheSame(F(i).template, F(j).template)
    BY DEF SaySame, RootFormatters, Numbered
  <1>2. IsObject(m, <<>>)
    BY DEF IsItem
  <1>3. /\ Target(i) \in DOMAIN m /\ m[Target(i)] = Str(applyFormatter(F(i).template, m, <<>>))
        /\ Target(j) \in DOMAIN m /\ m[Target(j)] = Str(applyFormatter(F(j).template, m, <<>>))
    BY <1>1, <1>2 DEF Right, RightText
  <1>4. IsTemplate(F(i).template) /\ IsTemplate(F(j).template)
    BY <1>1, TemplateHere
  <1>5. applyFormatter(F(i).template, m, <<>>) = applyFormatter(F(j).template, m, <<>>)
    BY <1>1, <1>4, SameSaid
  <1> QED
    BY <1>3, <1>5 DEF Agree

LEMMA AgreeStep ==
    ASSUME SensibleCases, OrderlyCases, ItemInv, FormatInv, AgreeInv, [FinalizeNext]_finalizeVars
    PROVE  AgreeInv'
  <1>1. CASE UNCHANGED finalizeVars
    <2>1. case' = case /\ item' = item /\ stage' = stage
      BY <1>1 DEF finalizeVars
    <2> QED
      BY <2>1, SameAgree DEF AgreeInv
  <1>2. CASE FinalizeNext
    <2>0. case' = case /\ case \in Cases
      BY <1>2, Actions DEF ItemInv
    <2> SUFFICES ASSUME stage' \in {"remove", "rename", "done"}, NEW i, NEW j, SaySame(i, j)
                 PROVE  Agree(item', i, j)
      BY <2>0, SameAgree DEF AgreeInv
    <2>1. i \in RootFormatters /\ j \in RootFormatters
      BY DEF SaySame
    <2>2. /\ i \in Numbers /\ F(i).type = "formatter"
          /\ j \in Numbers /\ F(j).type = "formatter"
          /\ \A k \in Numbers : F(k).type # "formatter" =>
                ~IsPrefix(Source(k), Target(i)) /\ ~IsPrefix(Source(k), Target(j))
      BY <2>0, <2>1, RootAlone
    <2>3. CASE stage = "remove" /\ item' = RemoveInternal(item)
      <3>1. IsItem(item) /\ Agree(item, i, j)
        BY <2>3 DEF ItemInv, AgreeInv
      <3>2. \A k \in Numbers : F(k).internal => F(k).type # "formatter"
        BY <2>0, Kinds DEF Stored
      <3>3. Target(i) \in DOMAIN item' /\ Target(j) \in DOMAIN item'
            /\ item'[Target(i)] = item[Target(i)] /\ item'[Target(j)] = item[Target(j)]
        BY <2>0, <2>2, <2>3, <3>1, <3>2, RemoveItem DEF Agree
      <3> QED
        BY <3>1, <3>3 DEF Agree
    <2>4. CASE item' = item /\ stage = "format" /\ Work \subseteq done
      <3>1. \A k \in Numbers : IsNode(F(k)) => Right(item, k)
        BY <2>4, WorkIs DEF FormatInv
      <3>2. IsItem(item) /\ Right(item, i) /\ Right(item, j)
        BY <2>2, <2>4, <3>1 DEF IsNode, ItemInv
      <3> QED
        BY <2>0, <2>4, <3>2, RightAgree
    <2>5. CASE item' = item /\ stage = "rename"
      BY <2>5 DEF AgreeInv
    <2>6. ASSUME NEW k \in Numbers, stage = "rename", k \in Work, item' = applyPresetAlias(item, k)
          PROVE  Agree(item', i, j)
      <3>1. IsItem(item) /\ Agree(item, i, j) /\ F(k).type # "formatter"
        BY <2>6, WorkIs DEF ItemInv, AgreeInv
      <3>2. /\ Target(i) \in DOMAIN item' /\ item'[Target(i)] = item[Target(i)]
            /\ Target(j) \in DOMAIN item' /\ item'[Target(j)] = item[Target(j)]
        BY <2>0, <2>2, <2>6, <3>1, RenameElsewhere DEF Agree
      <3> QED
        BY <3>1, <3>2 DEF Agree
    <2>7. \/ stage = "remove" /\ item' = RemoveInternal(item)
          \/ item' = item /\ stage = "format" /\ Work \subseteq done
          \/ item' = item /\ stage = "rename"
          \/ \E k \in Numbers : stage = "rename" /\ k \in Work /\ item' = applyPresetAlias(item, k)
      <3>1. \/ stage' \in {"attach", "alias"}
            \/ stage = "remove" /\ item' = RemoveInternal(item)
            \/ /\ stage \in {"alias", "collapse", "localize", "format", "rename"} /\ stage' = After[stage]
               /\ item' = item /\ Work \subseteq done
            \/ \E k \in Numbers :
                  /\ stage' = stage /\ k \in Work
                  /\ stage \in {"alias", "collapse", "localize", "format"}
                     \/ (stage = "rename" /\ item' = applyPresetAlias(item, k))
        BY <1>2, Actions
      <3> QED
        BY <3>1, AfterIs
    <2> QED
      BY <2>3, <2>4, <2>5, <2>6, <2>7
  <1> QED
    BY <1>1, <1>2

LEMMA AgreeInit ==
    ASSUME FinalizeInit
    PROVE  AgreeInv
  BY DEF FinalizeInit, AgreeInv

LEMMA AgreeEnd ==
    ASSUME AgreeInv
    PROVE  OppositesAgree
  BY DEF AgreeInv, OppositesAgree, Done, SaySame, RootFormatters, Agree

(* Two formatters of the item whose conditions are opposite where their     *)
(* branches are exchanged reach the client as the same text, whatever the   *)
(* values, and whatever is mentioned in the branches (evalCondition,        *)
(* replaceTernaries; nothing later writes over them).                       *)
THEOREM OppositesAlwaysAgree ==
    ASSUME SensibleCases, OrderlyCases
    PROVE  FinalizeSpec => []OppositesAgree
  <1>1. FinalizeInit => ItemInv /\ FormatInv /\ AgreeInv
    BY ItemInit, FormatInit, AgreeInit
  <1>2. ItemInv /\ FormatInv /\ AgreeInv /\ [FinalizeNext]_finalizeVars => (ItemInv /\ FormatInv /\ AgreeInv)'
    BY ItemStep, FormatStep, AgreeStep
  <1>3. ItemInv /\ FormatInv /\ AgreeInv => OppositesAgree
    BY AgreeEnd
  <1> QED
    BY <1>1, <1>2, <1>3, PTL DEF FinalizeSpec
=============================================================================
