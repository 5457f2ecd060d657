--------------------------- MODULE ResolverProofs ---------------------------
(***************************************************************************)
(* Proofs about Resolver, for any number of requests, any preset trees and *)
(* any pool.                                                               *)
(*                                                                         *)
(* Control says how the places of a call, its parent and its branches fit  *)
(* together; with it go the counts of the WaitGroups and of the pool.      *)
(* What holds of whole trees follows by going from parents to branches     *)
(* (NothingRunsBelow, AllIdleBelow), since a tree is the least set closed  *)
(* under branches.  Results says what rows, groups and errors tell of the  *)
(* failures below a call; the refinement of ResolverService rests on it.   *)
(***************************************************************************)
EXTENDS Resolver, FiniteSetTheorems, TLAPS

-----------------------------------------------------------------------------
(* Trees of calls.  Tree[c] is the least closed set that holds c: what is   *)
(* true of c and goes from every call to its branches is true in Tree[c].   *)

LEMMA BranchFacts ==
    ASSUME NEW c \in Calls, NEW k \in Branches(c)
    PROVE  /\ k \in Calls /\ Kind[k] # "root" /\ k \notin Roots /\ Parent[k] = c
  BY DEF Branches, TailsOf, PolysOf, Tails, Polys, Roots

LEMMA ParentFacts ==
    ASSUME NEW k \in Tails \cup Polys
    PROVE  k \in Calls /\ Parent[k] \in Calls /\ k \in Branches(Parent[k])
  BY CallsAssumption DEF Branches, TailsOf, PolysOf, Tails, Polys

LEMMA KindFacts ==
    ASSUME NEW c \in Calls
    PROVE  /\ c \in Roots \/ c \in Tails \/ c \in Polys
           /\ ~(c \in Roots /\ c \in Tails \cup Polys)
           /\ ~(c \in Tails /\ c \in Polys)
  BY CallsAssumption DEF Roots, Tails, Polys

LEMMA TreeFacts ==
    ASSUME NEW c \in Calls
    PROVE  /\ c \in Tree[c] /\ Tree[c] \subseteq Calls
           /\ \A d \in Tree[c] : Branches(d) \subseteq Tree[c]
  <1>1. c \in Tree[c] /\ Tree[c] \subseteq Calls
    BY DEF Tree
  <1>2. ASSUME NEW d \in Tree[c], NEW k \in Branches(d)
        PROVE  k \in Tree[c]
    <2>1. d \in Calls
      BY <1>1
    <2>2. k \in Calls
      BY <2>1, <1>2, BranchFacts
    <2>3. ASSUME NEW S \in SUBSET Calls, c \in S, Closed(S)
          PROVE  k \in S
      BY <1>2, <2>3 DEF Tree, Closed
    <2> QED
      BY <2>2, <2>3 DEF Tree
  <1> QED
    BY <1>1, <1>2

LEMMA TreeLeast ==
    ASSUME NEW c \in Calls, NEW S \in SUBSET Calls, c \in S,
           \A d \in S : Branches(d) \subseteq S
    PROVE  Tree[c] \subseteq S
  BY DEF Tree, Closed

(* Every call of a tree but the first is a branch of another.               *)
LEMMA TreeParents ==
    ASSUME NEW c \in Calls, NEW d \in Tree[c], d # c
    PROVE  d \notin Roots /\ Parent[d] \in Tree[c]
  <1> DEFINE S == {c} \cup {e \in Tree[c] : e \notin Roots /\ Parent[e] \in Tree[c]}
  <1>1. S \subseteq Tree[c]
    BY TreeFacts
  <1>2. ASSUME NEW e \in S, NEW k \in Branches(e)
        PROVE  k \in S
    <2>1. e \in Calls /\ e \in Tree[c]
      BY <1>1, TreeFacts
    <2>2. k \in Tree[c]
      BY <2>1, TreeFacts
    <2>3. k \notin Roots /\ Parent[k] = e
      BY <2>1, BranchFacts
    <2> QED
      BY <2>1, <2>2, <2>3
  <1>3. S \in SUBSET Calls /\ c \in S
    BY <1>1, TreeFacts
  <1>4. Tree[c] \subseteq S
    <2> HIDE DEF S
    <2> QED
      BY <1>2, <1>3, TreeLeast
  <1> QED
    BY <1>4

(* A tree is its first call and the trees of that call's branches.          *)
LEMMA TreeUnfolds ==
    ASSUME NEW c \in Calls, NEW d \in Calls
    PROVE  d \in Tree[c] <=> d = c \/ \E k \in Branches(c) : d \in Tree[k]
  <1>1. ASSUME NEW k \in Branches(c)
        PROVE  Tree[k] \subseteq Tree[c]
    <2>1. k \in Tree[c] /\ k \in Calls /\ Tree[c] \in SUBSET Calls
      BY TreeFacts, BranchFacts
    <2> QED
      BY <2>1, TreeFacts, TreeLeast
  <1> DEFINE S == {c} \cup UNION {Tree[k] : k \in Branches(c)}
  <1>2. ASSUME NEW e \in S, NEW b \in Branches(e)
        PROVE  b \in S
    <2>1. CASE e = c
      BY <2>1, BranchFacts, TreeFacts
    <2>2. CASE e # c
      <3>1. PICK k \in Branches(c) : e \in Tree[k]
        BY <2>2
      <3>2. b \in Tree[k]
        BY <3>1, BranchFacts, TreeFacts
      <3> QED
        BY <3>1, <3>2
    <2> QED
      BY <2>1, <2>2
  <1>3. S \in SUBSET Calls /\ c \in S
    BY BranchFacts, TreeFacts
  <1>4. Tree[c] \subseteq S
    <2> HIDE DEF S
    <2> QED
      BY <1>2, <1>3, TreeLeast
  <1> QED
    BY <1>1, <1>4, TreeFacts

(* Trees that start outside the tree of a request have no call in it.       *)
LEMMA TreesApart ==
    ASSUME NEW r \in Roots, NEW c \in Calls, c \notin Tree[r]
    PROVE  Tree[c] \cap Tree[r] = {}
  <1> DEFINE S == {e \in Tree[c] : e \notin Tree[r]}
  <1>1. r \in Calls
    BY DEF Roots
  <1>2. ASSUME NEW e \in S, NEW k \in Branches(e)
        PROVE  k \in S
    <2>1. e \in Calls /\ k \in Tree[c]
      BY TreeFacts
    <2>2. k \notin Roots /\ Parent[k] = e
      BY <2>1, BranchFacts
    <2>3. k \notin Tree[r]
      BY <1>1, <2>2, TreeParents
    <2> QED
      BY <2>1, <2>3
  <1>3. S \in SUBSET Calls /\ c \in S
    BY TreeFacts
  <1>4. Tree[c] \subseteq S
    <2> HIDE DEF S
    <2> QED
      BY <1>2, <1>3, TreeLeast
  <1> QED
    BY <1>4

(* No call is a branch of its own: it would be in the tree of no request.   *)
LEMMA NoSelfBranch ==
    ASSUME NEW k \in Tails \cup Polys
    PROVE  Parent[k] # k
  <1> SUFFICES ASSUME Parent[k] = k
               PROVE  FALSE
    OBVIOUS
  <1>1. k \in Calls /\ k \notin Roots
    BY ParentFacts, KindFacts
  <1>2. PICK r \in Roots : k \in Tree[r]
    BY <1>1, CallsAssumption
  <1> DEFINE S == Tree[r] \ {k}
  <1>3. r \in Calls
    BY DEF Roots
  <1>4. ASSUME NEW e \in S, NEW b \in Branches(e)
        PROVE  b \in S
    BY <1>3, TreeFacts, BranchFacts
  <1>5. S \in SUBSET Calls /\ r \in S
    BY <1>1, <1>3, TreeFacts
  <1>6. Tree[r] \subseteq S
    <2> HIDE DEF S
    <2> QED
      BY <1>3, <1>4, <1>5, TreeLeast
  <1> QED
    BY <1>2, <1>6
-----------------------------------------------------------------------------
(* The inductive invariant.                                                *)

(* Until a call has read its rows, nothing is known of its branches.        *)
Before == {"idle", "skipped", "start", "made", "prepare", "query", "scan"}

Running(k) == pc[k] \notin Asleep
RunningTails(c) == {k \in TailsOf(c) : Running(k)}
Scanning == {c \in Calls : pc[c] = "scan"}

(* Where a call can be, by its kind, and where it cannot have failed.       *)
PlaceInv(c) ==
    /\ c \in Roots => pc[c] \notin {"skipped", "left", "start", "made", "leave"}
    /\ c \in Tails => pc[c] # "replied"
    /\ c \in Polys => pc[c] \notin {"replied", "start", "made", "leave"}
    /\ pc[c] \notin {"made", "prepare", "returned", "leave", "left", "replied"} => ~broken[c]

(* How far a branch can be, by the place of its parent.                     *)
BranchInv(k, p) == pc[p] \in Before => pc[k] = "idle"

TailInv(k, p) ==
    /\ Running(k) => pc[p] \in {"spawn", "wait"}
    /\ pc[p] = "wait" => pc[k] # "idle"
    /\ pc[p] \in {"spawn", "wait"} /\ pc[k] \in {"leave", "left"} => grouped[k] \/ rerr[p]
    /\ pc[p] \in {"poly", "polywait"} => pc[k] = "skipped" \/ (pc[k] = "left" /\ grouped[k])

PolyInv(k, p) ==
    /\ Running(k) => pc[p] = "polywait"
    /\ pc[p] \in {"spawn", "wait"} => pc[k] = "idle"

Control ==
    /\ \A c \in Calls : PlaceInv(c)
    /\ \A k \in Tails \cup Polys : BranchInv(k, Parent[k])
    /\ \A k \in Tails : TailInv(k, Parent[k])
    /\ \A k \in Polys : PolyInv(k, Parent[k])
    /\ \A k, l \in Polys : Running(k) /\ Running(l) /\ Parent[k] = Parent[l] => k = l

(* The WaitGroup counts the goroutines, the pool the calls that read rows.  *)
Counts ==
    /\ \A c \in Calls : wg[c] = Cardinality(RunningTails(c))
    /\ free + Cardinality(Scanning) = PoolSize

CtlInv == TypeOK /\ Control /\ Counts

(* Below a call that does not wait for its branches nothing runs, and below *)
(* one that has not read its rows everything is idle.                      *)
LEMMA NothingRunsBelow ==
    ASSUME Control, NEW c \in Calls, pc[c] \in Asleep \cup {"returned", "leave"},
           NEW d \in Tree[c], d # c
    PROVE  ~Running(d)
  <1> DEFINE S == {c} \cup {k \in Tree[c] : ~Running(k)}
  <1>1. ASSUME NEW e \in S, NEW k \in Branches(e)
        PROVE  k \in S
    <2>1. pc[e] \in Asleep \cup {"returned", "leave"} /\ e \in Tree[c]
      BY TreeFacts DEF Running
    <2>2. k \in Tree[c] /\ e \in Calls
      BY <2>1, TreeFacts
    <2>3. k \in Tails \cup Polys /\ Parent[k] = e
      BY DEF Branches, TailsOf, PolysOf
    <2>4. ~Running(k)
      BY <2>1, <2>3 DEF Control, TailInv, PolyInv, Asleep
    <2> QED
      BY <2>2, <2>4
  <1>2. S \in SUBSET Calls /\ c \in S
    BY TreeFacts
  <1>3. Tree[c] \subseteq S
    <2> HIDE DEF S
    <2> QED
      BY <1>1, <1>2, TreeLeast
  <1> QED
    BY <1>3

LEMMA AllIdleBelow ==
    ASSUME Control, NEW c \in Calls, pc[c] \in Before,
           NEW d \in Tree[c], d # c
    PROVE  pc[d] = "idle" /\ ~broken[d]
  <1> DEFINE S == {c} \cup {k \in Tree[c] : pc[k] = "idle"}
  <1>1. ASSUME NEW e \in S, NEW k \in Branches(e)
        PROVE  k \in S
    <2>1. pc[e] \in Before /\ e \in Tree[c]
      BY TreeFacts DEF Before
    <2>2. k \in Tree[c] /\ e \in Calls
      BY <2>1, TreeFacts
    <2>3. k \in Tails \cup Polys /\ Parent[k] = e
      BY DEF Branches, TailsOf, PolysOf
    <2>4. pc[k] = "idle"
      BY <2>1, <2>3 DEF Control, BranchInv
    <2> QED
      BY <2>2, <2>4
  <1>2. S \in SUBSET Calls /\ c \in S
    BY TreeFacts
  <1>3. Tree[c] \subseteq S
    <2> HIDE DEF S
    <2> QED
      BY <1>1, <1>2, TreeLeast
  <1>4. pc[d] = "idle"
    BY <1>3
  <1> QED
    BY <1>4, TreeFacts DEF Control, PlaceInv
-----------------------------------------------------------------------------
(* Control and the counts are preserved.                                   *)

(* A step that moves one call to another place has to be looked at from     *)
(* that call, from its branches and from its parent.                       *)
EdgeInv(k, p) ==
    /\ BranchInv(k, p)
    /\ k \in Tails => TailInv(k, p)
    /\ k \in Polys => PolyInv(k, p)

LEMMA MoveControl ==
    ASSUME TypeOK, Control, NEW c \in Calls, NEW place,
           pc' = [pc EXCEPT ![c] = place],
           \A d \in Calls \ {c} : grouped'[d] = grouped[d] /\ broken'[d] = broken[d],
           \A d \in Calls : rerr[d] => rerr'[d],
           PlaceInv(c)',
           \A k \in Branches(c) : EdgeInv(k, c)',
           c \in Tails \cup Polys => EdgeInv(c, Parent[c])',
           c \in Polys /\ pc[c] \in Asleep => place \in Asleep
    PROVE  Control'
  <1>1. pc'[c] = place /\ \A d \in Calls \ {c} : pc'[d] = pc[d]
    BY DEF TypeOK
  <1>2. ASSUME NEW d \in Calls
        PROVE  PlaceInv(d)'
    BY <1>1 DEF Control, PlaceInv
  <1>3. ASSUME NEW k \in Tails \cup Polys
        PROVE  EdgeInv(k, Parent[k])'
    <2>1. CASE k = c
      BY <2>1
    <2>2. CASE Parent[k] = c
      BY <2>2, ParentFacts
    <2>3. CASE k # c /\ Parent[k] # c
      <3>1. k \in Calls /\ Parent[k] \in Calls
        BY ParentFacts
      <3>2. PICK p : p = Parent[k]
        OBVIOUS
      <3>3. pc'[k] = pc[k] /\ pc'[p] = pc[p] /\ grouped'[k] = grouped[k] /\ (rerr[p] => rerr'[p])
        BY <1>1, <2>3, <3>1, <3>2
      <3>4. EdgeInv(k, p)
        BY <3>2 DEF Control, EdgeInv
      <3> QED
        BY <3>2, <3>3, <3>4 DEF EdgeInv, BranchInv, TailInv, PolyInv, Running
    <2> QED
      BY <2>1, <2>2, <2>3
  <1>4. ASSUME NEW k \in Polys, NEW l \in Polys, Running(k)', Running(l)', Parent[k] = Parent[l]
        PROVE  k = l
    <2>1. Running(k) /\ Running(l)
      BY <1>1, <1>4, ParentFacts DEF Running
    <2> QED
      BY <1>4, <2>1 DEF Control
  <1> QED
    BY <1>2, <1>3, <1>4 DEF Control, EdgeInv

(* Most moves change no count.                                             *)
LEMMA CountsKept ==
    ASSUME Counts, wg' = wg, free' = free,
           \A k \in Calls : (Running(k)' <=> Running(k)) /\ (pc'[k] = "scan" <=> pc[k] = "scan")
    PROVE  Counts'
  <1>1. ASSUME NEW c \in Calls
        PROVE  RunningTails(c)' = RunningTails(c)
    BY DEF RunningTails, TailsOf, Tails
  <1>2. Scanning' = Scanning
    BY DEF Scanning
  <1> QED
    BY <1>1, <1>2 DEF Counts

LEMMA Finite ==
    /\ \A c \in Calls : IsFiniteSet(RunningTails(c)) /\ Cardinality(RunningTails(c)) \in Nat
    /\ IsFiniteSet(Scanning) /\ Cardinality(Scanning) \in Nat
  <1>1. \A c \in Calls : RunningTails(c) \in SUBSET Calls
    BY DEF RunningTails, TailsOf, Tails
  <1>2. Scanning \in SUBSET Calls
    BY DEF Scanning
  <1> QED
    BY <1>1, <1>2, CallsAssumption, FS_Subset, FS_CardinalityType

(* Its parent sees no difference in a branch that runs on.                 *)
LEMMA StillRuns ==
    ASSUME CtlInv, NEW c \in Tails \cup Polys,
           \A d \in Calls \ {c} : pc'[d] = pc[d],
           Running(c), Running(c)', pc'[c] # "leave"
    PROVE  EdgeInv(c, Parent[c])'
  <1>1. PICK p \in Calls : p = Parent[c]
    BY ParentFacts
  <1>2. EdgeInv(c, p) /\ pc'[p] = pc[p]
    BY <1>1, NoSelfBranch DEF CtlInv, Control, EdgeInv
  <1> QED
    BY <1>1, <1>2 DEF EdgeInv, BranchInv, TailInv, PolyInv, Running, Asleep

(* A call goes on by itself: it has not made its branches, or is over.      *)
LEMMA GoesOn ==
    ASSUME CtlInv, NEW c \in Calls,
           NEW place \in {"prepare", "query", "scan", "returned", "made"},
           pc' = [pc EXCEPT ![c] = place], pc[c] \notin Asleep \cup {"returned", "leave"},
           place = "returned" => \A k \in Branches(c) : ~Running(k),
           place # "returned" => pc[c] \in Before,
           place = "made" => c \in Tails,
           place \in {"query", "scan"} => ~broken'[c],
           \A d \in Calls \ {c} : broken'[d] = broken[d],
           rerr' = rerr, grouped' = grouped
    PROVE  Control'
  <1>1. pc'[c] = place /\ \A d \in Calls \ {c} : pc'[d] = pc[d]
    BY DEF CtlInv, TypeOK
  <1>2. PlaceInv(c)'
    BY <1>1, KindFacts DEF CtlInv, Control, PlaceInv
  <1>3. ASSUME NEW k \in Branches(c)
        PROVE  EdgeInv(k, c)'
    <2>1. k \in Calls /\ k # c /\ Parent[k] = c /\ k \in Tails \cup Polys
      BY BranchFacts, NoSelfBranch DEF Branches, TailsOf, PolysOf
    <2>2. EdgeInv(k, c)
      BY <2>1 DEF CtlInv, Control, EdgeInv
    <2>3. pc'[k] = pc[k]
      BY <1>1, <2>1
    <2>4. CASE place = "returned"
      BY <1>1, <2>3, <2>4 DEF EdgeInv, BranchInv, TailInv, PolyInv, Running, Before
    <2>5. CASE place # "returned"
      BY <1>1, <2>2, <2>3, <2>5 DEF EdgeInv, BranchInv, TailInv, PolyInv, Running, Before,
         Asleep
    <2> QED
      BY <2>4, <2>5
  <1>4. ASSUME c \in Tails \cup Polys
        PROVE  EdgeInv(c, Parent[c])'
    BY <1>1, <1>4, StillRuns DEF Running, Asleep
  <1> QED
    BY <1>2, <1>3, <1>4, MoveControl DEF CtlInv

(* Its branches do not run until it waits for them.                        *)
LEMMA NotStarted ==
    ASSUME Control, NEW c \in Calls, pc[c] \in Before \cup {"poly"}, NEW k \in Branches(c)
    PROVE  ~Running(k)
  BY DEF Control, BranchInv, TailInv, PolyInv, Branches, TailsOf, PolysOf, Running, Asleep

LEMMA PrepareStep ==
    ASSUME CtlInv, NEW c \in Calls, Prepare(c) \/ PrepareFails(c)
    PROVE  CtlInv'
  <1>1. TypeOK'
    BY DEF CtlInv, TypeOK, Prepare, PrepareFails, Fail, ReturnError, Goto, Places, Asleep
  <1>2. Control'
    <2>1. pc[c] = "prepare" /\ pc[c] \in Before /\ pc[c] \notin Asleep \cup {"returned", "leave"}
      BY DEF Prepare, PrepareFails, Before, Asleep
    <2>2. rerr' = rerr /\ grouped' = grouped /\ \A d \in Calls \ {c} : broken'[d] = broken[d]
      BY DEF Prepare, PrepareFails, Fail, CtlInv, TypeOK
    <2>3. \A k \in Branches(c) : ~Running(k)
      BY <2>1, NotStarted DEF CtlInv
    <2>4. CASE Prepare(c)
      BY <2>1, <2>2, <2>4, GoesOn DEF Prepare, Goto
    <2>5. CASE PrepareFails(c)
      BY <2>1, <2>2, <2>3, <2>5, GoesOn DEF PrepareFails, Fail, ReturnError, Goto
    <2> QED
      BY <2>4, <2>5
  <1>3. Counts'
    BY CountsKept DEF CtlInv, TypeOK, Prepare, PrepareFails, Fail, ReturnError, Goto, Running,
       Asleep
  <1> QED
    BY <1>1, <1>2, <1>3 DEF CtlInv

LEMMA QueryStep ==
    ASSUME CtlInv, NEW c \in Calls, Query(c) \/ QueryFails(c)
    PROVE  CtlInv'
  <1>1. pc[c] = "query" /\ pc[c] \in Before /\ pc[c] \notin Asleep \cup {"returned", "leave"} /\ ~broken[c]
    BY DEF Query, QueryFails, Before, Asleep, CtlInv, Control, PlaceInv
  <1>2. Control'
    <2>2. rerr' = rerr /\ grouped' = grouped /\ \A d \in Calls \ {c} : broken'[d] = broken[d]
      BY DEF Query, QueryFails, Fail, CtlInv, TypeOK
    <2>3. \A k \in Branches(c) : ~Running(k)
      BY <1>1, NotStarted DEF CtlInv
    <2>4. CASE Query(c)
      BY <1>1, <2>2, <2>4, GoesOn DEF Query, Goto
    <2>5. CASE QueryFails(c)
      BY <1>1, <2>2, <2>3, <2>5, GoesOn DEF QueryFails, Fail, ReturnError, Goto
    <2> QED
      BY <2>4, <2>5
  <1>3. Counts'
    <2>1. CASE QueryFails(c)
      BY <1>1, <2>1, CountsKept DEF CtlInv, TypeOK, QueryFails, Fail, ReturnError, Goto,
         Running, Asleep
    <2>2. CASE Query(c)
      <3>1. /\ pc'[c] = "scan" /\ \A d \in Calls \ {c} : pc'[d] = pc[d]
            /\ wg' = wg /\ free' = free - 1
        BY <2>2 DEF Query, Goto, CtlInv, TypeOK
      <3>2. Scanning' = Scanning \cup {c} /\ c \notin Scanning
        BY <1>1, <3>1 DEF Scanning
      <3>3. Cardinality(Scanning') = Cardinality(Scanning) + 1
        BY <3>2, Finite, FS_AddElement
      <3>4. \A d \in Calls : RunningTails(d)' = RunningTails(d)
        BY <1>1, <3>1 DEF RunningTails, TailsOf, Tails, Running, Asleep
      <3> QED
        BY <3>1, <3>3, <3>4, Finite DEF CtlInv, Counts, TypeOK
    <2> QED
      BY <2>1, <2>2
  <1>4. TypeOK'
    <2>1. CASE Query(c)
      <3>1. free - 1 \in 0..PoolSize
        BY <2>1, PoolAssumption DEF Query, CtlInv, TypeOK
      <3> QED
        BY <2>1, <3>1 DEF CtlInv, TypeOK, Query, Goto, Places
    <2>2. CASE QueryFails(c)
      BY <2>2 DEF CtlInv, TypeOK, QueryFails, Fail, ReturnError, Goto, Places
    <2> QED
      BY <2>1, <2>2
  <1> QED
    BY <1>2, <1>3, <1>4 DEF CtlInv

(* A scan gives the connection back, however it ends.                      *)
LEMMA ScanStep ==
    ASSUME CtlInv, NEW c \in Calls, Scan(c) \/ ScanFails(c)
    PROVE  CtlInv'
  <1>1. pc[c] = "scan" /\ pc[c] \in Before /\ pc[c] \notin Asleep \cup {"returned", "leave"} /\ ~broken[c]
    BY DEF Scan, ScanFails, Before, Asleep, CtlInv, Control, PlaceInv
  <1>2. /\ pc'[c] \in {"returned", "spawn"} /\ \A d \in Calls \ {c} : pc'[d] = pc[d]
        /\ wg' = wg /\ free' = free + 1
    BY DEF Scan, ScanFails, Fail, ReturnError, ReturnRows, Goto, CtlInv, TypeOK
  <1>3. Counts'
    <2>1. Scanning' = Scanning \ {c} /\ c \in Scanning
      BY <1>1, <1>2 DEF Scanning
    <2>2. Cardinality(Scanning') = Cardinality(Scanning) - 1
      BY <2>1, Finite, FS_RemoveElement
    <2>3. \A d \in Calls : RunningTails(d)' = RunningTails(d)
      BY <1>1, <1>2 DEF RunningTails, TailsOf, Tails, Running, Asleep
    <2> QED
      BY <1>2, <2>2, <2>3, Finite DEF CtlInv, Counts, TypeOK
  <1>4. TypeOK'
    <2>1. free + 1 \in 0..PoolSize
      <3>1. free' + Cardinality(Scanning') = PoolSize /\ Cardinality(Scanning') \in Nat
        <4>1. IsFiniteSet(Scanning')
          BY CallsAssumption, FS_Subset DEF Scanning
        <4> QED
          BY <1>3, <4>1, FS_CardinalityType DEF Counts
      <3> QED
        BY <1>2, <3>1, PoolAssumption DEF CtlInv, TypeOK
    <2> QED
      BY <1>2, <2>1 DEF CtlInv, TypeOK, Scan, ScanFails, Fail, ReturnError, ReturnRows, Goto,
         Places, Asleep
  <1>5. Control'
    <2>1. rerr' = rerr /\ grouped' = grouped /\ \A d \in Calls \ {c} : broken'[d] = broken[d]
      BY DEF Scan, ScanFails, Fail, CtlInv, TypeOK
    <2>2. \A k \in Branches(c) : pc[k] = "idle" /\ ~Running(k)
      BY <1>1 DEF CtlInv, Control, BranchInv, Branches, TailsOf, PolysOf, Running, Asleep
    <2>3. CASE pc' = [pc EXCEPT ![c] = "returned"]
      BY <1>1, <2>1, <2>2, <2>3, GoesOn
    <2>4. CASE pc' = [pc EXCEPT ![c] = "spawn"] /\ broken' = broken
      <3>1. PlaceInv(c)'
        BY <1>1, <2>4, KindFacts DEF CtlInv, TypeOK, PlaceInv
      <3>2. ASSUME NEW k \in Branches(c)
            PROVE  EdgeInv(k, c)'
        BY <1>1, <2>2, <2>4, BranchFacts, NoSelfBranch DEF CtlInv, TypeOK, EdgeInv, BranchInv,
           TailInv, PolyInv, Running, Before, Asleep, Branches, TailsOf, PolysOf
      <3>3. ASSUME c \in Tails \cup Polys
            PROVE  EdgeInv(c, Parent[c])'
        BY <1>1, <1>2, <2>4, <3>3, StillRuns DEF Running, Asleep, CtlInv, TypeOK
      <3> QED
        BY <1>1, <2>1, <2>4, <3>1, <3>2, <3>3, MoveControl DEF CtlInv
    <2> QED
      BY <2>3, <2>4 DEF Scan, ScanFails, Fail, ReturnError, ReturnRows, Goto
  <1> QED
    BY <1>3, <1>4, <1>5 DEF CtlInv

(* The counter of the WaitGroup is zero only when all goroutines are done.  *)
LEMMA Waited ==
    ASSUME Counts, NEW c \in Calls, wg[c] = 0, NEW k \in TailsOf(c)
    PROVE  ~Running(k)
  <1>1. Cardinality(RunningTails(c)) = 0
    BY DEF Counts
  <1>2. RunningTails(c) = {}
    BY <1>1, Finite, FS_EmptySet
  <1> QED
    BY <1>2 DEF RunningTails

LEMMA SpawnsDoneStep ==
    ASSUME CtlInv, NEW c \in Calls, SpawnsDone(c)
    PROVE  CtlInv'
  <1>1. TypeOK'
    BY DEF CtlInv, TypeOK, SpawnsDone, Goto, Places, Asleep
  <1>2. Control'
    <2>1. /\ pc[c] = "spawn" /\ pc' = [pc EXCEPT ![c] = "wait"]
          /\ pc'[c] = "wait" /\ \A d \in Calls \ {c} : pc'[d] = pc[d]
          /\ broken' = broken /\ rerr' = rerr /\ grouped' = grouped
      BY DEF SpawnsDone, Goto, CtlInv, TypeOK
    <2>2. PlaceInv(c)'
      BY <2>1 DEF CtlInv, Control, PlaceInv
    <2>3. ASSUME NEW k \in Branches(c)
          PROVE  EdgeInv(k, c)'
      <3>1. k \in Tails \cup Polys /\ Parent[k] = c /\ k \in Calls /\ k # c
        BY BranchFacts, NoSelfBranch DEF Branches, TailsOf, PolysOf
      <3>2. EdgeInv(k, c) /\ pc'[k] = pc[k]
        BY <2>1, <3>1 DEF CtlInv, Control, EdgeInv
      <3>3. k \in Tails => pc[k] # "idle"
        BY <3>1 DEF SpawnsDone, TailsOf
      <3> QED
        BY <2>1, <3>2, <3>3 DEF EdgeInv, BranchInv, TailInv, PolyInv, Running, Before
    <2>4. ASSUME c \in Tails \cup Polys
          PROVE  EdgeInv(c, Parent[c])'
      BY <2>1, <2>4, StillRuns DEF Running, Asleep
    <2> QED
      BY <2>1, <2>2, <2>3, <2>4, MoveControl DEF CtlInv, Asleep
  <1>3. Counts'
    BY CountsKept DEF CtlInv, TypeOK, SpawnsDone, Goto, Running, Asleep
  <1> QED
    BY <1>1, <1>2, <1>3 DEF CtlInv

LEMMA JoinStep ==
    ASSUME CtlInv, NEW c \in Calls, Join(c)
    PROVE  CtlInv'
  <1>1. /\ pc[c] = "wait" /\ \A d \in Calls \ {c} : pc'[d] = pc[d]
        /\ broken' = broken /\ rerr' = rerr /\ grouped' = grouped
    BY DEF Join, ReturnError, Goto, CtlInv, TypeOK
  <1>2. TypeOK'
    BY DEF CtlInv, TypeOK, Join, ReturnError, Goto, Places, Asleep
  <1>3. ASSUME NEW k \in Branches(c)
        PROVE  /\ k \in Tails \cup Polys /\ k \in Calls /\ k # c
               /\ EdgeInv(k, c) /\ ~Running(k) /\ pc'[k] = pc[k]
               /\ PlaceInv(k)
    <2>1. k \in Tails \cup Polys /\ Parent[k] = c /\ k \in Calls /\ k # c
      BY BranchFacts, NoSelfBranch DEF Branches, TailsOf, PolysOf
    <2>2. EdgeInv(k, c) /\ PlaceInv(k)
      BY <2>1 DEF CtlInv, Control, EdgeInv
    <2>3. k \in Tails => ~Running(k)
      BY <2>1, Waited DEF Join, CtlInv, TailsOf
    <2> QED
      BY <1>1, <2>1, <2>2, <2>3 DEF EdgeInv, PolyInv
  <1>4. Control'
    <2>1. CASE rerr[c]
      BY <1>1, <1>3, <2>1, GoesOn DEF Join, ReturnError, Goto, Asleep
    <2>2. CASE ~rerr[c]
      <3>1. pc' = [pc EXCEPT ![c] = "poly"] /\ pc'[c] = "poly"
        BY <2>2 DEF Join, Goto, CtlInv, TypeOK
      <3>2. PlaceInv(c)'
        BY <1>1, <3>1 DEF CtlInv, Control, PlaceInv
      <3>3. ASSUME NEW k \in Branches(c)
            PROVE  EdgeInv(k, c)'
        BY <1>1, <1>3, <2>2, <3>1, KindFacts DEF EdgeInv, BranchInv, TailInv, PolyInv, PlaceInv,
           Running, Before, Asleep
      <3>4. ASSUME c \in Tails \cup Polys
            PROVE  EdgeInv(c, Parent[c])'
        BY <1>1, <3>1, <3>4, StillRuns DEF Running, Asleep
      <3> QED
        BY <1>1, <3>1, <3>2, <3>3, <3>4, MoveControl DEF CtlInv, Asleep
    <2> QED
      BY <2>1, <2>2
  <1>5. Counts'
    BY CountsKept DEF CtlInv, TypeOK, Join, ReturnError, Goto, Running, Asleep
  <1> QED
    BY <1>2, <1>4, <1>5 DEF CtlInv

LEMMA FinalizeStep ==
    ASSUME CtlInv, NEW c \in Calls, Finalize(c)
    PROVE  CtlInv'
  <1>1. TypeOK'
    BY DEF CtlInv, TypeOK, Finalize, ReturnRows, Goto, Places, Asleep
  <1>2. Control'
    <2>1. \A k \in Branches(c) : ~Running(k)
      BY NotStarted DEF CtlInv, Finalize
    <2> QED
      BY <2>1, GoesOn DEF Finalize, ReturnRows, Goto, Asleep
  <1>3. Counts'
    BY CountsKept DEF CtlInv, TypeOK, Finalize, ReturnRows, Goto, Running, Asleep
  <1> QED
    BY <1>1, <1>2, <1>3 DEF CtlInv

(* The branches of a call that is not their concern stay as they are.       *)
LEMMA BranchesRest ==
    ASSUME CtlInv, NEW c \in Calls,
           \A d \in Calls \ {c} : pc'[d] = pc[d],
           \A k \in Branches(c) : ~Running(k),
           pc'[c] \in Before => pc[c] \in Before,
           pc'[c] \notin {"spawn", "wait", "poly", "polywait"},
           NEW k \in Branches(c)
    PROVE  EdgeInv(k, c)'
  <1>1. k \in Tails \cup Polys /\ Parent[k] = c /\ k \in Calls /\ k # c
    BY BranchFacts, NoSelfBranch DEF Branches, TailsOf, PolysOf
  <1>2. EdgeInv(k, c) /\ pc'[k] = pc[k] /\ ~Running(k)
    BY <1>1 DEF CtlInv, Control, EdgeInv
  <1> QED
    BY <1>2 DEF EdgeInv, BranchInv, TailInv, PolyInv, Running

LEMMA SpawnStep ==
    ASSUME CtlInv, NEW k \in Tails, Spawn(k) \/ SkipTail(k)
    PROVE  CtlInv'
  <1>1. k \in Calls /\ Parent[k] \in Calls /\ Parent[k] # k
    BY ParentFacts, NoSelfBranch
  <1> DEFINE c == Parent[k]
  <1>2. /\ pc[c] = "spawn" /\ pc[k] = "idle" /\ pc'[k] \in {"start", "skipped"}
        /\ pc' = [pc EXCEPT ![k] = pc'[k]] /\ \A d \in Calls \ {k} : pc'[d] = pc[d]
        /\ free' = free /\ broken' = broken /\ rerr' = rerr /\ grouped' = grouped
    BY <1>1 DEF Spawn, SkipTail, Goto, CtlInv, TypeOK
  <1>3. TypeOK'
    BY <1>1 DEF CtlInv, TypeOK, Spawn, SkipTail, Goto, Places, Asleep
  <1>4. Control'
    <2>1. PlaceInv(k)'
      BY <1>1, <1>2, KindFacts DEF CtlInv, Control, PlaceInv
    <2>2. \A b \in Branches(k) : EdgeInv(b, k)'
      BY <1>1, <1>2, NotStarted, BranchesRest DEF CtlInv, Before
    <2>3. EdgeInv(k, c)'
      BY <1>1, <1>2, KindFacts DEF EdgeInv, BranchInv, TailInv, Running, Before, Asleep
    <2> QED
      BY <1>1, <1>2, <2>1, <2>2, <2>3, KindFacts, MoveControl DEF CtlInv
  <1>5. Counts'
    <2>1. CASE SkipTail(k)
      BY <1>1, <2>1, CountsKept DEF CtlInv, TypeOK, SkipTail, Goto, Running, Asleep
    <2>2. CASE Spawn(k)
      <3>1. pc'[k] = "start" /\ wg' = [wg EXCEPT ![c] = @ + 1]
        BY <1>1, <2>2 DEF Spawn, Goto, CtlInv, TypeOK
      <3>2. Scanning' = Scanning
        BY <1>2, <3>1 DEF Scanning
      <3>3. ASSUME NEW d \in Calls
            PROVE  wg'[d] = Cardinality(RunningTails(d)')
        <4>1. CASE d = c
          <5>1. RunningTails(c)' = RunningTails(c) \cup {k} /\ k \notin RunningTails(c)
            BY <1>1, <1>2, <3>1 DEF RunningTails, TailsOf, Tails, Running, Asleep
          <5>2. Cardinality(RunningTails(c)') = Cardinality(RunningTails(c)) + 1
            BY <1>1, <5>1, Finite, FS_AddElement
          <5> QED
            BY <1>1, <3>1, <4>1, <5>2 DEF CtlInv, Counts, TypeOK
        <4>2. CASE d # c
          <5>1. RunningTails(d)' = RunningTails(d)
            BY <1>1, <1>2, <4>2 DEF RunningTails, TailsOf, Tails, Running
          <5> QED
            BY <1>1, <3>1, <4>2, <5>1 DEF CtlInv, Counts, TypeOK
        <4> QED
          BY <4>1, <4>2
      <3> QED
        BY <1>2, <3>2, <3>3 DEF CtlInv, Counts
    <2> QED
      BY <2>1, <2>2
  <1> QED
    BY <1>3, <1>4, <1>5 DEF CtlInv

(* A goroutine whose rows are grouped or whose error is noted may end.      *)
LEMMA ReadyToLeave ==
    ASSUME CtlInv, NEW k \in Tails,
           pc[k] \in {"start", "made", "returned"}, pc' = [pc EXCEPT ![k] = "leave"],
           \A d \in Calls \ {k} : grouped'[d] = grouped[d] /\ broken'[d] = broken[d],
           \A d \in Calls : rerr[d] => rerr'[d],
           grouped'[k] \/ rerr'[Parent[k]]
    PROVE  Control'
  <1>1. k \in Calls /\ Parent[k] \in Calls /\ Parent[k] # k
    BY ParentFacts, NoSelfBranch
  <1>2. pc'[k] = "leave" /\ \A d \in Calls \ {k} : pc'[d] = pc[d]
    BY <1>1 DEF CtlInv, TypeOK
  <1>3. PlaceInv(k)'
    BY <1>1, <1>2, KindFacts DEF PlaceInv
  <1>4. \A b \in Branches(k) : ~Running(b)
    BY <1>1 DEF CtlInv, Control, BranchInv, TailInv, PolyInv, Branches, TailsOf, PolysOf,
       Running, Before, Asleep
  <1>5. \A b \in Branches(k) : EdgeInv(b, k)'
    BY <1>1, <1>2, <1>4, BranchesRest DEF Before
  <1>6. EdgeInv(k, Parent[k])'
    <2>1. PICK p \in Calls : p = Parent[k] /\ p # k
      BY <1>1
    <2>2. TailInv(k, p) /\ pc'[p] = pc[p]
      BY <1>2, <2>1 DEF CtlInv, Control
    <2> QED
      BY <1>1, <1>2, <2>1, <2>2, KindFacts DEF EdgeInv, BranchInv, TailInv, Running, Before,
         Asleep
  <1> QED
    BY <1>1, <1>3, <1>5, <1>6, KindFacts, MoveControl DEF CtlInv

LEMMA TailFailsStep ==
    ASSUME CtlInv, NEW k \in Tails, TailFails(k)
    PROVE  CtlInv'
  <1>1. k \in Calls /\ Parent[k] \in Calls
    BY ParentFacts
  <1>2. TypeOK'
    BY <1>1 DEF CtlInv, TypeOK, TailFails, SetRerr, Goto, Places
  <1>3. Control'
    BY <1>1, ReadyToLeave DEF CtlInv, TypeOK, TailFails, SetRerr, Goto
  <1>4. Counts'
    BY <1>1, CountsKept DEF CtlInv, TypeOK, TailFails, SetRerr, Goto, Running, Asleep
  <1> QED
    BY <1>2, <1>3, <1>4 DEF CtlInv

LEMMA CallDirectStep ==
    ASSUME CtlInv, NEW k \in Tails, CallDirect(k)
    PROVE  CtlInv'
  <1>1. k \in Calls
    BY ParentFacts
  <1>2. TypeOK'
    BY <1>1 DEF CtlInv, TypeOK, CallDirect, Goto, Places
  <1>3. Control'
    BY <1>1, GoesOn DEF CallDirect, Goto, Before, Asleep
  <1>4. Counts'
    BY <1>1, CountsKept DEF CtlInv, TypeOK, CallDirect, Goto, Running, Asleep
  <1> QED
    BY <1>2, <1>3, <1>4 DEF CtlInv

LEMMA MakeThroughStep ==
    ASSUME CtlInv, NEW k \in Tails, MakeThroughChildRequest(k)
    PROVE  CtlInv'
  <1>1. k \in Calls /\ Parent[k] \in Calls
    BY ParentFacts
  <1>2. TypeOK'
    BY <1>1 DEF CtlInv, TypeOK, MakeThroughChildRequest, Goto, Places
  <1>3. Control'
    <2>1. \A d \in Calls \ {k} : broken'[d] = broken[d]
      BY DEF CtlInv, TypeOK, MakeThroughChildRequest
    <2> QED
      BY <1>1, <2>1, GoesOn DEF MakeThroughChildRequest, Goto, Before, Asleep
  <1>4. Counts'
    BY <1>1, CountsKept DEF CtlInv, TypeOK, MakeThroughChildRequest, Goto, Running, Asleep
  <1> QED
    BY <1>2, <1>3, <1>4 DEF CtlInv

LEMMA CallThroughStep ==
    ASSUME CtlInv, NEW k \in Tails, CallThrough(k)
    PROVE  CtlInv'
  <1>1. k \in Calls /\ Parent[k] \in Calls
    BY ParentFacts
  <1>2. TypeOK'
    BY <1>1 DEF CtlInv, TypeOK, CallThrough, SetRerr, Goto, Places
  <1>3. Control'
    <2>1. CASE SetRerr(k)
      BY <1>1, <2>1, ReadyToLeave DEF CtlInv, TypeOK, CallThrough, SetRerr, Goto
    <2>2. CASE Goto(k, "prepare") /\ rerr' = rerr
      BY <1>1, <2>2, GoesOn DEF CallThrough, Goto, Before, Asleep
    <2> QED
      BY <2>1, <2>2 DEF CallThrough
  <1>4. Counts'
    BY <1>1, CountsKept DEF CtlInv, TypeOK, CallThrough, SetRerr, Goto, Running, Asleep
  <1> QED
    BY <1>2, <1>3, <1>4 DEF CtlInv

LEMMA ReportStep ==
    ASSUME CtlInv, NEW k \in Tails, Report(k)
    PROVE  CtlInv'
  <1>1. k \in Calls /\ Parent[k] \in Calls
    BY ParentFacts
  <1>2. TypeOK'
    BY <1>1 DEF CtlInv, TypeOK, Report, SetRerr, Goto, Places
  <1>3. Control'
    BY <1>1, ReadyToLeave DEF CtlInv, TypeOK, Report, SetRerr, Goto
  <1>4. Counts'
    BY <1>1, CountsKept DEF CtlInv, TypeOK, Report, SetRerr, Goto, Running, Asleep
  <1> QED
    BY <1>2, <1>3, <1>4 DEF CtlInv

LEMMA LeaveStep ==
    ASSUME CtlInv, NEW k \in Tails, Leave(k)
    PROVE  CtlInv'
  <1>1. k \in Calls /\ Parent[k] \in Calls /\ Parent[k] # k
    BY ParentFacts, NoSelfBranch
  <1> DEFINE c == Parent[k]
  <1>2. /\ pc[k] = "leave" /\ pc'[k] = "left"
        /\ pc' = [pc EXCEPT ![k] = "left"] /\ \A d \in Calls \ {k} : pc'[d] = pc[d]
        /\ wg' = [wg EXCEPT ![c] = @ - 1]
        /\ free' = free /\ broken' = broken /\ rerr' = rerr /\ grouped' = grouped
    BY <1>1 DEF Leave, Goto, CtlInv, TypeOK
  <1>3. Control'
    <2>1. PlaceInv(k)'
      BY <1>1, <1>2, KindFacts DEF PlaceInv
    <2>2. \A b \in Branches(k) : ~Running(b)
      BY <1>1, <1>2 DEF CtlInv, Control, TailInv, PolyInv, Branches, TailsOf, PolysOf
    <2>3. \A b \in Branches(k) : EdgeInv(b, k)'
      BY <1>1, <1>2, <2>2, BranchesRest DEF Before
    <2>4. EdgeInv(k, c)'
      <3>1. TailInv(k, c) /\ pc'[c] = pc[c]
        BY <1>1, <1>2 DEF CtlInv, Control
      <3> QED
        BY <1>1, <1>2, <3>1, KindFacts DEF EdgeInv, BranchInv, TailInv, Running, Before, Asleep
    <2> QED
      BY <1>1, <1>2, <2>1, <2>3, <2>4, KindFacts, MoveControl DEF CtlInv
  <1>4. RunningTails(c)' = RunningTails(c) \ {k} /\ k \in RunningTails(c)
    BY <1>1, <1>2 DEF RunningTails, TailsOf, Tails, Running, Asleep
  <1>5. /\ Cardinality(RunningTails(c)') = Cardinality(RunningTails(c)) - 1
        /\ Cardinality(RunningTails(c)') \in Nat
    BY <1>1, <1>4, Finite, FS_RemoveElement, FS_CardinalityType
  <1>6. wg'[c] = Cardinality(RunningTails(c)') /\ wg'[c] \in Nat
    BY <1>1, <1>2, <1>5 DEF CtlInv, Counts, TypeOK
  <1>7. Counts'
    <2>1. Scanning' = Scanning
      BY <1>2 DEF Scanning
    <2>2. ASSUME NEW d \in Calls, d # c
          PROVE  wg'[d] = Cardinality(RunningTails(d)')
      <3>1. RunningTails(d)' = RunningTails(d)
        BY <1>1, <1>2, <2>2 DEF RunningTails, TailsOf, Tails, Running
      <3> QED
        BY <1>1, <1>2, <2>2, <3>1 DEF CtlInv, Counts, TypeOK
    <2> QED
      BY <1>2, <1>6, <2>1, <2>2 DEF CtlInv, Counts
  <1>8. TypeOK'
    <2>1. wg' \in [Calls -> Nat]
      BY <1>1, <1>2, <1>6 DEF CtlInv, TypeOK
    <2> QED
      BY <1>1, <2>1 DEF CtlInv, TypeOK, Leave, Goto, Places, Asleep
  <1> QED
    BY <1>3, <1>7, <1>8 DEF CtlInv

LEMMA SkipPolyStep ==
    ASSUME CtlInv, NEW k \in Polys, SkipPoly(k)
    PROVE  CtlInv'
  <1>1. k \in Calls /\ Parent[k] \in Calls /\ Parent[k] # k
    BY ParentFacts, NoSelfBranch
  <1>2. /\ pc[k] = "idle" /\ pc'[k] = "skipped" /\ pc[Parent[k]] = "poly"
        /\ pc' = [pc EXCEPT ![k] = "skipped"] /\ \A d \in Calls \ {k} : pc'[d] = pc[d]
    BY <1>1 DEF SkipPoly, Goto, CtlInv, TypeOK
  <1>3. TypeOK'
    BY <1>1 DEF CtlInv, TypeOK, SkipPoly, Goto, Places, Asleep
  <1>4. Control'
    <2>1. PlaceInv(k)'
      BY <1>1, <1>2, KindFacts DEF CtlInv, Control, PlaceInv, SkipPoly
    <2>2. \A b \in Branches(k) : EdgeInv(b, k)'
      BY <1>1, <1>2, NotStarted, BranchesRest DEF CtlInv, Before
    <2>3. EdgeInv(k, Parent[k])'
      BY <1>1, <1>2, KindFacts DEF EdgeInv, BranchInv, PolyInv, Running, Before, Asleep
    <2> QED
      BY <1>1, <1>2, <2>1, <2>2, <2>3, KindFacts, MoveControl DEF CtlInv, SkipPoly, Asleep
  <1>5. Counts'
    BY <1>1, CountsKept DEF CtlInv, TypeOK, SkipPoly, Goto, Running, Asleep
  <1> QED
    BY <1>3, <1>4, <1>5 DEF CtlInv

(* A polymorphic branch is called, or returns: its parent moves with it.    *)
LEMMA MoveTwo ==
    ASSUME TypeOK, Control, NEW k \in Polys, NEW c \in Calls, c = Parent[k],
           \A d \in Calls \ {c, k} : pc'[d] = pc[d],
           UNCHANGED <<broken, rerr, grouped>>,
           PlaceInv(c)', PlaceInv(k)',
           pc[k] \in {"idle", "returned"}, Running(c) /\ pc[c] # "leave",
           Running(c)' /\ pc'[c] # "leave", pc'[k] \in Before => pc[k] \in Before,
           pc'[k] \notin {"spawn", "wait", "poly", "polywait"},
           EdgeInv(k, c)',
           \A l \in Branches(c) \ {k} : EdgeInv(l, c)' /\ ~Running(l)
    PROVE  Control'
  <1>1. k \in Calls /\ c # k
    BY ParentFacts, NoSelfBranch
  <1>2. ASSUME NEW l \in Branches(k)
        PROVE  /\ l \in Calls /\ l # k /\ l # c /\ l \in Tails \cup Polys
               /\ ~Running(l) /\ EdgeInv(l, k)
    <2>1. l \in Calls /\ l # k /\ l \in Tails \cup Polys /\ Parent[l] = k
      BY <1>1, BranchFacts, NoSelfBranch DEF Branches, TailsOf, PolysOf
    <2>2. EdgeInv(l, k)
      BY <2>1 DEF Control, EdgeInv
    <2>3. ~Running(l)
      BY <2>1, <2>2 DEF EdgeInv, BranchInv, TailInv, PolyInv, Running, Before, Asleep
    <2> QED
      BY <2>1, <2>2, <2>3
  <1>3. ASSUME NEW d \in Calls
        PROVE  PlaceInv(d)'
    BY DEF Control, PlaceInv
  <1>4. ASSUME NEW l \in Tails \cup Polys
        PROVE  EdgeInv(l, Parent[l])'
    <2>1. l \in Calls /\ Parent[l] \in Calls /\ l \in Branches(Parent[l])
      BY ParentFacts
    <2>2. PICK p \in Calls : p = Parent[l]
      BY <2>1
    <2>3. EdgeInv(l, p)
      BY <2>2 DEF Control, EdgeInv
    <2>4. CASE p = c
      BY <2>1, <2>2, <2>4
    <2>5. CASE p = k
      <3>1. ~Running(l) /\ pc'[l] = pc[l]
        BY <1>2, <2>1, <2>2, <2>5
      <3> QED
        BY <2>2, <2>3, <2>5, <3>1 DEF EdgeInv, BranchInv, TailInv, PolyInv, Running
    <2>6. CASE l = c
      <3>1. p # k /\ p # c
        BY <1>2, <2>1, <2>2, <2>6, NoSelfBranch
      <3>2. pc'[p] = pc[p]
        BY <3>1
      <3> QED
        BY <2>2, <2>3, <2>6, <3>2 DEF EdgeInv, BranchInv, TailInv, PolyInv, Running, Asleep
    <2>7. CASE p \notin {c, k} /\ l # c
      <3>1. pc'[l] = pc[l] /\ pc'[p] = pc[p]
        BY <2>1, <2>2, <2>7
      <3> QED
        BY <2>2, <2>3, <3>1 DEF EdgeInv, BranchInv, TailInv, PolyInv, Running
    <2> QED
      BY <2>4, <2>5, <2>6, <2>7
  <1>5. ASSUME NEW l \in Polys, NEW m \in Polys, Running(l)', Running(m)', Parent[l] = Parent[m]
        PROVE  l = m
    <2>1. l \in Calls /\ m \in Calls /\ l \in Branches(Parent[l]) /\ m \in Branches(Parent[m])
      BY ParentFacts
    <2>2. CASE Parent[l] = c
      <3>1. \A n \in Branches(c) \ {k} : n # c
        BY NoSelfBranch DEF Branches, TailsOf, PolysOf
      <3> QED
        BY <1>5, <2>1, <2>2, <3>1 DEF Running
    <2>3. CASE Parent[l] # c
      BY <1>5, <2>1, <2>3 DEF Control, Running
    <2> QED
      BY <2>2, <2>3
  <1> QED
    BY <1>3, <1>4, <1>5 DEF Control, EdgeInv

LEMMA CallPolyStep ==
    ASSUME CtlInv, NEW k \in Polys, CallPoly(k)
    PROVE  CtlInv'
  <1>1. k \in Calls /\ Parent[k] \in Calls /\ Parent[k] # k
    BY ParentFacts, NoSelfBranch
  <1> DEFINE c == Parent[k]
  <1>2. /\ pc[k] = "idle" /\ pc'[k] = "prepare" /\ pc[c] = "poly" /\ pc'[c] = "polywait"
        /\ \A d \in Calls \ {c, k} : pc'[d] = pc[d]
        /\ UNCHANGED <<broken, rerr, grouped>>
    BY <1>1 DEF CallPoly, CtlInv, TypeOK
  <1>3. TypeOK'
    BY <1>1 DEF CtlInv, TypeOK, CallPoly, Places
  <1>4. Control'
    <2>1. PlaceInv(c)' /\ PlaceInv(k)'
      BY <1>1, <1>2, KindFacts DEF CtlInv, Control, PlaceInv
    <2>2. EdgeInv(k, c)'
      BY <1>1, <1>2, KindFacts DEF EdgeInv, BranchInv, PolyInv, Running, Before
    <2>3. ASSUME NEW l \in Branches(c) \ {k}
          PROVE  EdgeInv(l, c)' /\ ~Running(l)
      <3>1. l \in Tails \cup Polys /\ Parent[l] = c /\ l \in Calls /\ l # c
        BY <1>1, BranchFacts, NoSelfBranch DEF Branches, TailsOf, PolysOf
      <3>2. EdgeInv(l, c) /\ pc'[l] = pc[l]
        BY <1>2, <3>1 DEF CtlInv, Control, EdgeInv
      <3> QED
        BY <1>2, <3>1, <3>2 DEF EdgeInv, BranchInv, TailInv, PolyInv, Running, Before, Asleep
    <2> QED
      BY <1>1, <1>2, <2>1, <2>2, <2>3, MoveTwo DEF CtlInv, Running, Asleep, Before
  <1>5. Counts'
    <2>1. Scanning' = Scanning /\ \A d \in Calls : RunningTails(d)' = RunningTails(d)
      BY <1>1, <1>2, KindFacts DEF Scanning, RunningTails, TailsOf, Tails, Running, Asleep
    <2> QED
      BY <2>1 DEF CtlInv, Counts, CallPoly
  <1> QED
    BY <1>3, <1>4, <1>5 DEF CtlInv

LEMMA PolyReturnsStep ==
    ASSUME CtlInv, NEW k \in Polys, PolyReturns(k)
    PROVE  CtlInv'
  <1>1. k \in Calls /\ Parent[k] \in Calls /\ Parent[k] # k
    BY ParentFacts, NoSelfBranch
  <1> DEFINE c == Parent[k]
  <1>2. /\ pc[k] = "returned" /\ pc'[k] = "left" /\ pc'[c] \in {"poly", "returned"}
        /\ \A d \in Calls \ {c, k} : pc'[d] = pc[d]
        /\ UNCHANGED <<broken, rerr, grouped>>
    BY <1>1 DEF PolyReturns, CtlInv, TypeOK
  <1>3. TypeOK'
    BY <1>1 DEF CtlInv, TypeOK, PolyReturns, Places, Asleep
  <1>4. pc[c] = "polywait"
    BY <1>2 DEF CtlInv, Control, PolyInv, Running, Asleep
  <1>5. Control'
    <2>1. PlaceInv(c)' /\ PlaceInv(k)'
      BY <1>1, <1>2, <1>4, KindFacts DEF CtlInv, Control, PlaceInv
    <2>2. EdgeInv(k, c)'
      BY <1>1, <1>2, KindFacts DEF EdgeInv, BranchInv, PolyInv, Running, Before, Asleep
    <2>3. ASSUME NEW l \in Branches(c) \ {k}
          PROVE  EdgeInv(l, c)' /\ ~Running(l)
      <3>1. l \in Tails \cup Polys /\ Parent[l] = c /\ l \in Calls /\ l # c /\ l # k
        BY <1>1, BranchFacts, NoSelfBranch DEF Branches, TailsOf, PolysOf
      <3>2. EdgeInv(l, c) /\ pc'[l] = pc[l]
        BY <1>2, <3>1 DEF CtlInv, Control, EdgeInv
      <3>3. ~Running(l)
        <4>1. CASE l \in Polys
          BY <1>2, <3>1, <4>1 DEF CtlInv, Control, Running, Asleep
        <4>2. CASE l \in Tails
          BY <1>4, <3>2, <4>2 DEF EdgeInv, TailInv, Running
        <4> QED
          BY <3>1, <4>1, <4>2
      <3> QED
        BY <1>2, <1>4, <3>1, <3>2, <3>3 DEF EdgeInv, BranchInv, TailInv, PolyInv, Running,
           Before, Asleep
    <2> QED
      BY <1>1, <1>2, <1>4, <2>1, <2>2, <2>3, MoveTwo DEF CtlInv, Running, Asleep, Before
  <1>6. Counts'
    <2>1. Scanning' = Scanning /\ \A d \in Calls : RunningTails(d)' = RunningTails(d)
      BY <1>1, <1>2, <1>4, KindFacts DEF Scanning, RunningTails, TailsOf, Tails, Running, Asleep
    <2> QED
      BY <2>1 DEF CtlInv, Counts, PolyReturns
  <1> QED
    BY <1>3, <1>5, <1>6 DEF CtlInv

LEMMA ReplyStep ==
    ASSUME CtlInv, NEW r \in Roots, Reply(r)
    PROVE  CtlInv'
  <1>1. r \in Calls /\ r \notin Tails \cup Polys
    BY KindFacts DEF Roots
  <1>2. /\ pc[r] = "returned" /\ pc'[r] = "replied"
        /\ pc' = [pc EXCEPT ![r] = "replied"] /\ \A d \in Calls \ {r} : pc'[d] = pc[d]
    BY <1>1 DEF Reply, Goto, CtlInv, TypeOK
  <1>3. TypeOK'
    BY <1>1 DEF CtlInv, TypeOK, Reply, Goto, Places, Asleep
  <1>4. Control'
    <2>1. \A b \in Branches(r) : ~Running(b)
      BY <1>1, <1>2 DEF CtlInv, Control, TailInv, PolyInv, Branches, TailsOf, PolysOf
    <2>2. \A b \in Branches(r) : EdgeInv(b, r)'
      BY <1>1, <1>2, <2>1, BranchesRest DEF Before
    <2>3. PlaceInv(r)'
      BY <1>1, <1>2, KindFacts DEF PlaceInv
    <2> QED
      BY <1>1, <1>2, <2>2, <2>3, MoveControl DEF CtlInv, Reply
  <1>5. Counts'
    <2>1. Scanning' = Scanning /\ \A d \in Calls : RunningTails(d)' = RunningTails(d)
      BY <1>1, <1>2 DEF Scanning, RunningTails, TailsOf, Tails, Running, Asleep
    <2> QED
      BY <2>1 DEF CtlInv, Counts, Reply
  <1> QED
    BY <1>3, <1>4, <1>5 DEF CtlInv

LEMMA DisconnectStep ==
    ASSUME CtlInv, NEW r \in Roots, Disconnect(r)
    PROVE  CtlInv'
  <1>1. UNCHANGED <<pc, result, broken, wg, rerr, err, grouped, free>>
    BY DEF Disconnect
  <1>2. TypeOK'
    BY <1>1 DEF CtlInv, TypeOK, Disconnect
  <1>3. Control'
    BY <1>1 DEF CtlInv, Control, PlaceInv, BranchInv, TailInv, PolyInv, Running
  <1>4. Counts'
    BY <1>1, CountsKept DEF CtlInv, Running
  <1> QED
    BY <1>2, <1>3, <1>4 DEF CtlInv

(* A new request starts with a tree in which nothing runs.                 *)
LEMMA ReceiveFacts ==
    ASSUME CtlInv, NEW r \in Roots, Receive(r)
    PROVE  /\ r \in Calls /\ r \in Tree[r]
           /\ \A d \in Calls : d \in Tree[r] => ~Running(d) /\ pc[d] # "scan"
           /\ \A d \in Calls : d \in Tree[r] =>
                 pc'[d] = (IF d = r THEN "prepare" ELSE "idle") /\ ~broken'[d] /\ ~rerr'[d]
                 /\ ~err'[d] /\ wg'[d] = 0
           /\ \A d \in Calls : d \notin Tree[r] =>
                 /\ pc'[d] = pc[d] /\ broken'[d] = broken[d] /\ rerr'[d] = rerr[d]
                 /\ err'[d] = err[d] /\ grouped'[d] = grouped[d] /\ wg'[d] = wg[d]
                 /\ result'[d] = result[d]
           /\ \A k \in Tails \cup Polys : k \in Tree[r] <=> Parent[k] \in Tree[r]
  <1>1. r \in Calls /\ r \in Tree[r]
    BY TreeFacts DEF Roots
  <1>2. ASSUME NEW d \in Calls, d \in Tree[r]
        PROVE  ~Running(d) /\ pc[d] # "scan"
    <2>1. pc[r] \in Asleep
      BY DEF Receive, Asleep
    <2>2. CASE d = r
      BY <2>1, <2>2 DEF Running, Asleep
    <2>3. CASE d # r
      BY <1>1, <1>2, <2>1, <2>3, NothingRunsBelow DEF CtlInv, Running, Asleep
    <2> QED
      BY <2>2, <2>3
  <1>3. ASSUME NEW k \in Tails \cup Polys
        PROVE  k \in Tree[r] <=> Parent[k] \in Tree[r]
    <2>1. k # r /\ k \in Branches(Parent[k])
      BY ParentFacts, KindFacts
    <2> QED
      BY <1>1, <2>1, TreeFacts, TreeParents
  <1>4. /\ pc' = [Fresh(pc, r, "idle") EXCEPT ![r] = "prepare"]
        /\ \A d \in Calls : pc'[d] = IF d = r THEN "prepare" ELSE IF d \in Tree[r] THEN "idle" ELSE pc[d]
    BY DEF Receive, Fresh
  <1> QED
    BY <1>1, <1>2, <1>3, <1>4 DEF Receive, Fresh

LEMMA ReceiveStep ==
    ASSUME CtlInv, NEW r \in Roots, Receive(r)
    PROVE  CtlInv'
  <1>1. TypeOK'
    <2>1. pc' \in [Calls -> Places]
      BY DEF CtlInv, TypeOK, Receive, Fresh, Places, Asleep
    <2>2. cancelled' \in [Roots -> BOOLEAN]
      BY DEF CtlInv, TypeOK, Receive
    <2> QED
      BY <2>1, <2>2 DEF CtlInv, TypeOK, Receive, Fresh
  <1>2. Control'
    <2>1. ASSUME NEW d \in Calls
          PROVE  PlaceInv(d)'
      BY ReceiveFacts DEF CtlInv, Control, PlaceInv
    <2>2. ASSUME NEW k \in Tails \cup Polys
          PROVE  EdgeInv(k, Parent[k])'
      <3>1. k \in Calls /\ k # r
        BY ParentFacts, KindFacts
      <3>2. PICK p \in Calls : p = Parent[k]
        BY ParentFacts
      <3>3. EdgeInv(k, p)
        BY <3>2 DEF CtlInv, Control, EdgeInv
      <3>4. CASE k \in Tree[r]
        <4>1. pc'[k] = "idle" /\ pc'[p] \in {"idle", "prepare"}
          BY <3>1, <3>2, <3>4, ReceiveFacts
        <4> QED
          BY <3>2, <4>1 DEF EdgeInv, BranchInv, TailInv, PolyInv, Running, Asleep
      <3>5. CASE k \notin Tree[r]
        <4>1. /\ pc'[k] = pc[k] /\ pc'[p] = pc[p] /\ grouped'[k] = grouped[k] /\ rerr'[p] = rerr[p]
          BY <3>1, <3>2, <3>5, ReceiveFacts
        <4> QED
          BY <3>2, <3>3, <4>1 DEF EdgeInv, BranchInv, TailInv, PolyInv, Running
      <3> QED
        BY <3>4, <3>5
    <2>3. ASSUME NEW k \in Polys, NEW l \in Polys, Running(k)', Running(l)', Parent[k] = Parent[l]
          PROVE  k = l
      <3>1. k \in Calls /\ l \in Calls /\ k # r /\ l # r
        BY ParentFacts, KindFacts
      <3>2. Running(k) /\ Running(l)
        BY <2>3, <3>1, ReceiveFacts DEF Running, Asleep
      <3> QED
        BY <2>3, <3>2 DEF CtlInv, Control
    <2> QED
      BY <2>1, <2>2, <2>3 DEF Control, EdgeInv
  <1>3. Counts'
    <2>1. Scanning' = Scanning
      BY ReceiveFacts DEF Scanning
    <2>2. ASSUME NEW d \in Calls
          PROVE  wg'[d] = Cardinality(RunningTails(d)')
      <3>1. CASE d \in Tree[r]
        <4>1. ASSUME NEW k \in TailsOf(d)
              PROVE  ~Running(k)'
          <5>1. k \in Tails /\ Parent[k] = d /\ k \in Calls /\ k # r
            BY ParentFacts, KindFacts DEF TailsOf
          <5> QED
            BY <3>1, <5>1, ReceiveFacts DEF Running, Asleep
        <4>2. RunningTails(d)' = {}
          BY <4>1 DEF RunningTails, TailsOf, Tails
        <4> QED
          BY <3>1, <4>2, ReceiveFacts, FS_EmptySet
      <3>2. CASE d \notin Tree[r]
        <4>1. ASSUME NEW k \in TailsOf(d)
              PROVE  Running(k)' <=> Running(k)
          <5>1. k \in Tails /\ Parent[k] = d /\ k \in Calls
            BY ParentFacts DEF TailsOf
          <5> QED
            BY <3>2, <5>1, ReceiveFacts DEF Running
        <4>2. RunningTails(d)' = RunningTails(d)
          BY <4>1 DEF RunningTails, TailsOf, Tails
        <4> QED
          BY <3>2, <4>2, ReceiveFacts DEF CtlInv, Counts
      <3> QED
        BY <3>1, <3>2
    <2> QED
      BY <2>1, <2>2 DEF CtlInv, Counts, Receive
  <1> QED
    BY <1>1, <1>2, <1>3 DEF CtlInv

LEMMA CtlInit ==
    ASSUME Init
    PROVE  CtlInv
  <1>1. TypeOK
    BY PoolAssumption DEF Init, TypeOK, Places, Asleep
  <1>2. Control
    BY ParentFacts, KindFacts DEF Init, Control, PlaceInv, BranchInv, TailInv, PolyInv, Running,
       Asleep, Tails, Polys
  <1>3. Counts
    <2>1. Scanning = {} /\ \A c \in Calls : RunningTails(c) = {}
      BY DEF Init, Scanning, RunningTails, TailsOf, Tails, Running, Asleep
    <2> QED
      BY <2>1, FS_EmptySet, PoolAssumption DEF Init, Counts
  <1> QED
    BY <1>1, <1>2, <1>3 DEF CtlInv

LEMMA CtlStep ==
    ASSUME CtlInv, [Next]_vars
    PROVE  CtlInv'
  <1>1. ASSUME NEW r \in Roots, Receive(r) \/ Disconnect(r) \/ Reply(r)
        PROVE  CtlInv'
    BY <1>1, ReceiveStep, DisconnectStep, ReplyStep
  <1>2. ASSUME NEW c \in Calls, Step(c)
        PROVE  CtlInv'
    BY <1>2, PrepareStep, QueryStep, ScanStep, SpawnsDoneStep, JoinStep, FinalizeStep DEF Step
  <1>3. ASSUME NEW k \in Tails, TailStep(k)
        PROVE  CtlInv'
    BY <1>3, SpawnStep, TailFailsStep, CallDirectStep, MakeThroughStep, CallThroughStep,
       ReportStep, LeaveStep DEF TailStep
  <1>4. ASSUME NEW k \in Polys, PolyStep(k)
        PROVE  CtlInv'
    BY <1>4, CallPolyStep, SkipPolyStep, PolyReturnsStep DEF PolyStep
  <1>5. CASE UNCHANGED vars
    <2>1. UNCHANGED <<pc, result, broken, wg, rerr, err, grouped, cancelled, free>>
      BY <1>5 DEF vars
    <2>2. TypeOK'
      BY <2>1 DEF CtlInv, TypeOK
    <2>3. Control'
      BY <2>1 DEF CtlInv, Control, PlaceInv, BranchInv, TailInv, PolyInv, Running
    <2>4. Counts'
      BY <2>1, CountsKept DEF CtlInv, Running
    <2> QED
      BY <2>2, <2>3, <2>4 DEF CtlInv
  <1> QED
    BY <1>1, <1>2, <1>3, <1>4, <1>5 DEF Next

LEMMA ControlHolds == Spec => []CtlInv
  BY CtlInit, CtlStep, PTL DEF Spec

(* No counter of a WaitGroup is negative, and no count of connections is    *)
(* out of its range.  (resolver.go, postgres.go)                            *)
THEOREM TypesHold == Spec => []TypeOK
  <1>1. CtlInv => TypeOK
    BY DEF CtlInv
  <1> QED
    BY <1>1, ControlHolds, PTL

(* Tails are stitched only when each has delivered its rows, whatever the   *)
(* order of the goroutines.  (resolver.go:265)                              *)
THEOREM StitchesComplete == Spec => []CompleteStitch
  <1>1. CtlInv => CompleteStitch
    BY DEF CtlInv, Control, TailInv, CompleteStitch, TailsOf
  <1> QED
    BY <1>1, ControlHolds, PTL

(* No goroutine outlives the call that waits for it.  (resolver.go:186)      *)
THEOREM LeavesNothingRunning == Spec => []NothingLeftRunning
  <1>1. CtlInv => NothingLeftRunning
    BY NothingRunsBelow DEF CtlInv, NothingLeftRunning, Running
  <1> QED
    BY <1>1, ControlHolds, PTL

(* Every connection is in the pool or with a call that reads rows, and none *)
(* is lost on a path that fails.  (resolver.go:112)                         *)
THEOREM HoldsOrWaits == Spec => []NoHoldAndWait
  <1>1. CtlInv => NoHoldAndWait
    BY DEF CtlInv, Counts, Scanning, NoHoldAndWait
  <1> QED
    BY <1>1, ControlHolds, PTL
-----------------------------------------------------------------------------
(* What went wrong in the tree of a call, and who knows of it.              *)
Bad(c) == \E d \in Tree[c] : broken[d]

Results ==
    /\ \A c \in Calls : pc[c] \in {"returned", "replied"} =>
          result[c] = IF Bad(c) THEN "error" ELSE "rows"
    /\ \A k \in Calls : grouped[k] => pc[k] \in {"leave", "left"} /\ ~Bad(k)
    /\ \A c \in Calls : rerr[c] \/ err[c] => \E k \in TailsOf(c) : Bad(k)
    /\ \A k \in Polys : pc[k] = "left" /\ pc[Parent[k]] \in {"poly", "polywait"} => ~Bad(k)

IndInv == CtlInv /\ Results

LEMMA BadUnfolds ==
    ASSUME NEW c \in Calls
    PROVE  Bad(c) <=> broken[c] \/ \E k \in Branches(c) : Bad(k)
  <1>1. ASSUME NEW d \in Tree[c], broken[d]
        PROVE  broken[c] \/ \E k \in Branches(c) : Bad(k)
    <2>1. d \in Calls
      BY TreeFacts
    <2>2. d = c \/ \E k \in Branches(c) : d \in Tree[k]
      BY <2>1, TreeUnfolds
    <2> QED
      BY <1>1, <2>2 DEF Bad
  <1>2. ASSUME NEW k \in Branches(c), Bad(k)
        PROVE  Bad(c)
    <2>1. PICK d \in Tree[k] : broken[d]
      BY <1>2 DEF Bad
    <2>2. d \in Calls
      BY <2>1, BranchFacts, TreeFacts
    <2>3. d \in Tree[c]
      BY <2>1, <2>2, TreeUnfolds
    <2> QED
      BY <2>1, <2>3 DEF Bad
  <1>3. broken[c] => Bad(c)
    BY TreeFacts DEF Bad
  <1> QED
    BY <1>1, <1>2, <1>3 DEF Bad

LEMMA FineBefore ==
    ASSUME CtlInv, NEW c \in Calls, pc[c] \in Before, ~broken[c]
    PROVE  ~Bad(c)
  BY AllIdleBelow DEF CtlInv, Bad

(* Calls go wrong one at a time, and stay wrong until the next request.     *)
Failing == {"start", "prepare", "query", "scan"}

OneGoesWrong ==
    \/ broken' = broken
    \/ \E c \in Calls : pc[c] \in Failing /\ broken' = [broken EXCEPT ![c] = TRUE]

Inner ==
    \/ \E r \in Roots : Disconnect(r) \/ Reply(r)
    \/ \E c \in Calls : Step(c)
    \/ \E k \in Tails : TailStep(k)
    \/ \E k \in Polys : PolyStep(k)

LEMMA GoesWrong ==
    ASSUME CtlInv, Inner
    PROVE  OneGoesWrong
  <1>1. CASE \E r \in Roots : Disconnect(r) \/ Reply(r)
    BY <1>1 DEF Disconnect, Reply, OneGoesWrong
  <1>2. ASSUME NEW c \in Calls, Step(c)
        PROVE  OneGoesWrong
    BY <1>2 DEF Step, Prepare, PrepareFails, Query, QueryFails, Scan, ScanFails, SpawnsDone,
       Join, Finalize, Fail, OneGoesWrong, Failing
  <1>3. ASSUME NEW k \in Tails, TailStep(k)
        PROVE  OneGoesWrong
    <2>1. k \in Calls
      BY ParentFacts
    <2>2. CASE MakeThroughChildRequest(k)
      <3>1. PICK fails \in BOOLEAN : broken' = [broken EXCEPT ![k] = fails]
        BY <2>2 DEF MakeThroughChildRequest
      <3>2. pc[k] \in Failing /\ broken[k] = FALSE
        BY <2>1, <2>2 DEF MakeThroughChildRequest, Failing, CtlInv, Control, PlaceInv, TypeOK
      <3>3. CASE fails = FALSE
        BY <2>1, <3>1, <3>2, <3>3 DEF CtlInv, TypeOK, OneGoesWrong
      <3>4. CASE fails = TRUE
        BY <2>1, <3>1, <3>2, <3>4 DEF OneGoesWrong
      <3> QED
        BY <3>3, <3>4
    <2>3. CASE ~MakeThroughChildRequest(k)
      BY <1>3, <2>1, <2>3 DEF TailStep, Spawn, SkipTail, TailFails, CallDirect, CallThrough,
         Report, Leave, OneGoesWrong, Failing
    <2> QED
      BY <2>2, <2>3
  <1>4. ASSUME NEW k \in Polys, PolyStep(k)
        PROVE  OneGoesWrong
    BY <1>4 DEF PolyStep, CallPoly, SkipPoly, PolyReturns, OneGoesWrong
  <1> QED
    BY <1>1, <1>2, <1>3, <1>4 DEF Inner

LEMMA BadGrows ==
    ASSUME CtlInv, OneGoesWrong, NEW c \in Calls, Bad(c)
    PROVE  Bad(c)'
  <1>1. PICK d \in Tree[c] : broken[d]
    BY DEF Bad
  <1>2. broken'[d]
    BY <1>1, TreeFacts DEF OneGoesWrong, CtlInv, TypeOK
  <1> QED
    BY <1>1, <1>2 DEF Bad

(* When a call is over, no more goes wrong in its tree.                    *)
LEMMA BadSettled ==
    ASSUME CtlInv, OneGoesWrong, NEW c \in Calls, pc[c] \in Asleep \cup {"returned", "leave"}
    PROVE  Bad(c)' <=> Bad(c)
  <1>1. ASSUME NEW d \in Tree[c]
        PROVE  broken'[d] = broken[d]
    <2>1. d \in Calls
      BY TreeFacts
    <2>2. pc[d] \notin Failing
      <3>1. CASE d = c
        BY <3>1 DEF Failing, Asleep
      <3>2. CASE d # c
        BY <3>2, NothingRunsBelow DEF CtlInv, Running, Failing, Asleep
      <3> QED
        BY <3>1, <3>2
    <2> QED
      BY <2>1, <2>2 DEF OneGoesWrong, CtlInv, TypeOK
  <1> QED
    BY <1>1 DEF Bad

(* What is left to look at when a call has got somewhere new.              *)
LEMMA ResultsKept ==
    ASSUME IndInv, OneGoesWrong,
           \A c \in Calls : pc'[c] \in {"returned", "replied"} =>
              \/ pc[c] \in {"returned", "replied"} /\ result'[c] = result[c]
              \/ result'[c] = IF Bad(c)' THEN "error" ELSE "rows",
           \A k \in Calls : grouped'[k] =>
              pc'[k] \in {"leave", "left"} /\ (grouped[k] \/ ~Bad(k)'),
           \A c \in Calls : rerr'[c] \/ err'[c] =>
              rerr[c] \/ err[c] \/ \E k \in TailsOf(c) : Bad(k)',
           \A k \in Polys : pc'[k] = "left" /\ pc'[Parent[k]] \in {"poly", "polywait"} =>
              \/ pc[k] = "left" /\ pc[Parent[k]] \in {"poly", "polywait"}
              \/ ~Bad(k)'
    PROVE  Results'
  <1>1. ASSUME NEW c \in Calls, pc'[c] \in {"returned", "replied"}
        PROVE  result'[c] = IF Bad(c)' THEN "error" ELSE "rows"
    BY <1>1, BadSettled DEF IndInv, Results, Asleep
  <1>2. ASSUME NEW k \in Calls, grouped'[k]
        PROVE  pc'[k] \in {"leave", "left"} /\ ~Bad(k)'
    BY <1>2, BadSettled DEF IndInv, Results, Asleep
  <1>3. ASSUME NEW c \in Calls, rerr'[c] \/ err'[c]
        PROVE  \E k \in TailsOf(c) : Bad(k)'
    <2>1. \A k \in TailsOf(c) : k \in Calls
      BY DEF TailsOf, Tails
    <2> QED
      BY <1>3, <2>1, BadGrows DEF IndInv, Results
  <1>4. ASSUME NEW k \in Polys, pc'[k] = "left", pc'[Parent[k]] \in {"poly", "polywait"}
        PROVE  ~Bad(k)'
    BY <1>4, BadSettled DEF IndInv, Results, Asleep, Polys
  <1> QED
    BY <1>1, <1>2, <1>3, <1>4 DEF Results

(* A call returns, or goes on, and its branches and parent stay.            *)
LEMMA CallMoves ==
    ASSUME IndInv, OneGoesWrong, NEW c \in Calls, NEW place,
           pc' = [pc EXCEPT ![c] = place],
           place \in {"returned", "replied"} => result'[c] = IF Bad(c)' THEN "error" ELSE "rows",
           \A d \in Calls \ {c} : result'[d] = result[d],
           UNCHANGED <<grouped, rerr, err>>,
           grouped[c] => place \in {"leave", "left"},
           place = "left" => c \notin Polys,
           place \in {"poly", "polywait"} => \A k \in PolysOf(c) : pc[k] # "left"
    PROVE  Results'
  <1>1. pc'[c] = place /\ \A d \in Calls \ {c} : pc'[d] = pc[d]
    BY DEF IndInv, CtlInv, TypeOK
  <1>2. \A d \in Calls : pc'[d] \in {"returned", "replied"} =>
           \/ pc[d] \in {"returned", "replied"} /\ result'[d] = result[d]
           \/ result'[d] = IF Bad(d)' THEN "error" ELSE "rows"
    BY <1>1
  <1>3. \A k \in Calls : grouped'[k] => pc'[k] \in {"leave", "left"} /\ grouped[k]
    BY <1>1 DEF IndInv, Results
  <1>4. ASSUME NEW k \in Polys, pc'[k] = "left", pc'[Parent[k]] \in {"poly", "polywait"}
        PROVE  pc[k] = "left" /\ pc[Parent[k]] \in {"poly", "polywait"}
    <2>1. k \in Calls /\ Parent[k] \in Calls /\ Parent[k] # k
      BY ParentFacts, NoSelfBranch
    <2> QED
      BY <1>1, <1>4, <2>1 DEF PolysOf
  <1> QED
    BY <1>2, <1>3, <1>4, ResultsKept

LEMMA NotGrouped ==
    ASSUME IndInv, NEW c \in Calls, pc[c] \notin {"leave", "left"}
    PROVE  ~grouped[c]
  BY DEF IndInv, Results

LEMMA FailResults ==
    ASSUME IndInv, OneGoesWrong, NEW c \in Calls, Fail(c), pc[c] \notin {"leave", "left"},
           UNCHANGED <<grouped, rerr, err>>
    PROVE  Results'
  <1>1. Bad(c)'
    <2>1. broken'[c]
      BY DEF Fail, IndInv, CtlInv, TypeOK
    <2> QED
      BY <2>1, TreeFacts DEF Bad
  <1>2. result'[c] = "error" /\ \A d \in Calls \ {c} : result'[d] = result[d]
    BY DEF Fail, ReturnError, IndInv, CtlInv, TypeOK
  <1> QED
    BY <1>1, <1>2, NotGrouped, CallMoves DEF Fail, ReturnError, Goto

LEMMA StepResults ==
    ASSUME IndInv, NEW c \in Calls, Step(c), OneGoesWrong
    PROVE  Results'
  <1>1. pc[c] \in {"prepare", "query", "scan", "spawn", "wait", "poly"}
    BY DEF Step, Prepare, PrepareFails, Query, QueryFails, Scan, ScanFails, SpawnsDone, Join,
       Finalize
  <1>2. ~grouped[c]
    BY <1>1, NotGrouped
  <1>3. CASE PrepareFails(c) \/ QueryFails(c) \/ ScanFails(c)
    BY <1>1, <1>3, FailResults DEF PrepareFails, QueryFails, ScanFails
  <1>4. CASE Prepare(c) \/ Query(c) \/ SpawnsDone(c)
    BY <1>2, <1>4, CallMoves DEF Prepare, Query, SpawnsDone, Goto
  <1>5. CASE Scan(c)
    <2>1. CASE ReturnRows(c)
      <3>1. ~Bad(c)'
        <4>1. pc[c] \in Before /\ ~broken[c] /\ broken' = broken
          BY <1>5 DEF Scan, Before, IndInv, CtlInv, Control, PlaceInv
        <4> QED
          BY <4>1, FineBefore DEF Bad, IndInv
      <3>2. result'[c] = "rows" /\ \A d \in Calls \ {c} : result'[d] = result[d]
        BY <2>1 DEF ReturnRows, IndInv, CtlInv, TypeOK
      <3> QED
        BY <1>2, <1>5, <2>1, <3>1, <3>2, CallMoves DEF Scan, ReturnRows, Goto
    <2>2. CASE ~ReturnRows(c)
      BY <1>2, <1>5, <2>2, CallMoves DEF Scan, Goto
    <2> QED
      BY <2>1, <2>2
  <1>6. CASE Join(c)
    <2>1. CASE rerr[c]
      <3>1. Bad(c)'
        <4>1. Bad(c)
          <5>1. PICK k \in TailsOf(c) : Bad(k)
            BY <2>1 DEF IndInv, Results
          <5> QED
            BY <5>1, BadUnfolds DEF Branches
        <4> QED
          BY <1>6, <4>1 DEF Join, Bad
      <3>2. result'[c] = "error" /\ \A d \in Calls \ {c} : result'[d] = result[d]
        BY <1>6, <2>1 DEF Join, ReturnError, IndInv, CtlInv, TypeOK
      <3> QED
        BY <1>2, <1>6, <2>1, <3>1, <3>2, CallMoves DEF Join, ReturnError, Goto
    <2>2. CASE ~rerr[c]
      <3>1. ASSUME NEW k \in PolysOf(c)
            PROVE  pc[k] # "left"
        BY <1>6 DEF Join, PolysOf, IndInv, CtlInv, Control, PolyInv
      <3> QED
        BY <1>2, <1>6, <2>2, <3>1, CallMoves DEF Join, Goto
    <2> QED
      BY <2>1, <2>2
  <1>7. CASE Finalize(c)
    <2>1. ASSUME NEW k \in TailsOf(c)
          PROVE  ~Bad(k)
      <3>1. k \in Tails /\ Parent[k] = c /\ k \in Calls
        BY DEF TailsOf, Tails
      <3>2. pc[k] = "skipped" \/ grouped[k]
        BY <1>7, <3>1 DEF Finalize, IndInv, CtlInv, Control, TailInv
      <3>3. CASE pc[k] = "skipped"
        BY <3>1, <3>3, FineBefore DEF IndInv, CtlInv, Control, PlaceInv, Before
      <3>4. CASE grouped[k]
        BY <3>1, <3>4 DEF IndInv, Results
      <3> QED
        BY <3>2, <3>3, <3>4
    <2>2. ASSUME NEW k \in PolysOf(c)
          PROVE  ~Bad(k)
      <3>1. k \in Polys /\ Parent[k] = c /\ k \in Calls
        BY DEF PolysOf, Polys
      <3>2. ~Running(k) /\ pc[k] # "idle" /\ pc[k] # "replied"
        BY <1>7, <3>1 DEF Finalize, IndInv, CtlInv, Control, PolyInv, PlaceInv
      <3>3. CASE pc[k] = "skipped"
        BY <3>1, <3>3, FineBefore DEF IndInv, CtlInv, Control, PlaceInv, Before
      <3>4. CASE pc[k] = "left"
        BY <1>7, <3>1, <3>4 DEF Finalize, IndInv, Results
      <3> QED
        BY <3>2, <3>3, <3>4 DEF Running, Asleep
    <2>3. ~Bad(c)'
      <3>1. ~broken[c] /\ broken' = broken
        BY <1>7 DEF Finalize, IndInv, CtlInv, Control, PlaceInv
      <3> QED
        BY <2>1, <2>2, <3>1, BadUnfolds DEF Branches, Bad
    <2>4. result'[c] = "rows" /\ \A d \in Calls \ {c} : result'[d] = result[d]
      BY <1>7 DEF Finalize, ReturnRows, IndInv, CtlInv, TypeOK
    <2> QED
      BY <1>2, <1>7, <2>3, <2>4, CallMoves DEF Finalize, ReturnRows, Goto
  <1> QED
    BY <1>3, <1>4, <1>5, <1>6, <1>7 DEF Step

(* A goroutine that sets rerr has failed, or has seen that another did.     *)
LEMMA RerrResults ==
    ASSUME IndInv, OneGoesWrong, NEW k \in Tails, SetRerr(k), grouped' = grouped, result' = result,
           err' = err, \E l \in TailsOf(Parent[k]) : Bad(l)'
    PROVE  Results'
  <1>1. k \in Calls /\ Parent[k] \in Calls /\ Parent[k] # k
    BY ParentFacts, NoSelfBranch
  <1>2. pc'[k] = "leave" /\ \A d \in Calls \ {k} : pc'[d] = pc[d]
    BY <1>1 DEF SetRerr, Goto, IndInv, CtlInv, TypeOK
  <1>3. \A c \in Calls : rerr'[c] \/ err'[c] =>
           rerr[c] \/ err[c] \/ \E l \in TailsOf(c) : Bad(l)'
    BY <1>1 DEF SetRerr, IndInv, CtlInv, TypeOK
  <1>4. \A d \in Calls : grouped'[d] => pc'[d] \in {"leave", "left"} /\ grouped[d]
    BY <1>2 DEF IndInv, Results
  <1>5. \A d \in Calls : pc'[d] \in {"returned", "replied"} =>
           pc[d] \in {"returned", "replied"} /\ result'[d] = result[d]
    BY <1>2
  <1>6. ASSUME NEW l \in Polys, pc'[l] = "left", pc'[Parent[l]] \in {"poly", "polywait"}
        PROVE  pc[l] = "left" /\ pc[Parent[l]] \in {"poly", "polywait"}
    BY <1>2, <1>6, ParentFacts
  <1> QED
    BY <1>3, <1>4, <1>5, <1>6, ResultsKept

LEMMA TailResults ==
    ASSUME IndInv, NEW k \in Tails, TailStep(k), OneGoesWrong
    PROVE  Results'
  <1>1. k \in Calls /\ Parent[k] \in Calls /\ k \notin Polys /\ k \in TailsOf(Parent[k])
    BY ParentFacts, KindFacts DEF TailsOf
  <1>2. CASE Spawn(k) \/ SkipTail(k) \/ CallDirect(k)
    <2>1. ~grouped[k]
      BY <1>1, <1>2, NotGrouped DEF Spawn, SkipTail, CallDirect
    <2> QED
      BY <1>1, <1>2, <2>1, CallMoves DEF Spawn, SkipTail, CallDirect, Goto
  <1>3. CASE Leave(k)
    BY <1>1, <1>3, CallMoves DEF Leave, Goto
  <1>4. CASE TailFails(k)
    <2>1. broken'[k]
      BY <1>1, <1>4 DEF TailFails, IndInv, CtlInv, TypeOK
    <2>2. Bad(k)'
      BY <1>1, <2>1, TreeFacts DEF Bad
    <2> QED
      BY <1>1, <1>4, <2>2, RerrResults DEF TailFails
  <1>5. CASE MakeThroughChildRequest(k)
    <2>1. PICK fails \in BOOLEAN :
             err' = [err EXCEPT ![Parent[k]] = fails] /\ broken' = [broken EXCEPT ![k] = fails]
      BY <1>5 DEF MakeThroughChildRequest
    <2>2. fails => Bad(k)'
      <3>1. fails => broken'[k]
        BY <1>1, <2>1 DEF IndInv, CtlInv, TypeOK
      <3> QED
        BY <1>1, <3>1, TreeFacts DEF Bad
    <2>3. pc'[k] = "made" /\ \A d \in Calls \ {k} : pc'[d] = pc[d]
      BY <1>1, <1>5 DEF MakeThroughChildRequest, Goto, IndInv, CtlInv, TypeOK
    <2>4. \A c \in Calls : rerr'[c] \/ err'[c] =>
             rerr[c] \/ err[c] \/ \E l \in TailsOf(c) : Bad(l)'
      BY <1>1, <1>5, <2>1, <2>2 DEF MakeThroughChildRequest, IndInv, CtlInv, TypeOK
    <2>5. ~grouped[k] /\ grouped' = grouped /\ result' = result
      BY <1>1, <1>5, NotGrouped DEF MakeThroughChildRequest
    <2>6. \A d \in Calls : grouped'[d] => pc'[d] \in {"leave", "left"} /\ grouped[d]
      BY <2>3, <2>5 DEF IndInv, Results
    <2>7. ASSUME NEW l \in Polys, pc'[l] = "left", pc'[Parent[l]] \in {"poly", "polywait"}
          PROVE  pc[l] = "left" /\ pc[Parent[l]] \in {"poly", "polywait"}
      BY <2>3, <2>7, ParentFacts
    <2> QED
      BY <2>3, <2>4, <2>5, <2>6, <2>7, ResultsKept
  <1>6. CASE CallThrough(k)
    <2>1. CASE SetRerr(k)
      <3>1. CASE broken[k] \/ err[Parent[k]]
        <4>1. PICK l \in TailsOf(Parent[k]) : Bad(l)
          BY <1>1, <3>1, BadUnfolds DEF IndInv, Results
        <4>2. Bad(l)'
          BY <1>6, <4>1 DEF CallThrough, Bad
        <4> QED
          BY <1>6, <2>1, <4>2, RerrResults DEF CallThrough
      <3>2. CASE ~(broken[k] \/ err[Parent[k]])
        BY <1>6, <2>1, <3>2, <1>1 DEF CallThrough, SetRerr, Goto, IndInv, CtlInv, TypeOK
      <3> QED
        BY <3>1, <3>2
    <2>2. CASE Goto(k, "prepare") /\ rerr' = rerr
      <3>1. ~grouped[k]
        BY <1>1, <1>6, NotGrouped DEF CallThrough
      <3> QED
        BY <1>1, <1>6, <2>2, <3>1, CallMoves DEF CallThrough, Goto
    <2> QED
      BY <1>6, <2>1, <2>2 DEF CallThrough
  <1>7. CASE Report(k)
    <2>1. pc[k] = "returned" /\ broken' = broken
      BY <1>7 DEF Report
    <2>2. CASE result[k] = "error"
      <3>1. Bad(k)'
        BY <1>1, <2>1, <2>2 DEF IndInv, Results, Bad
      <3> QED
        BY <1>1, <1>7, <2>2, <3>1, RerrResults DEF Report
    <2>3. CASE result[k] # "error"
      <3>1. ~Bad(k)'
        BY <1>1, <2>1, <2>3 DEF IndInv, Results, Bad
      <3>2. /\ grouped' = [grouped EXCEPT ![k] = TRUE] /\ rerr' = rerr /\ err' = err
            /\ result' = result /\ pc'[k] = "leave" /\ \A d \in Calls \ {k} : pc'[d] = pc[d]
        BY <1>1, <1>7, <2>3 DEF Report, Goto, IndInv, CtlInv, TypeOK
      <3>3. \A d \in Calls : grouped'[d] => pc'[d] \in {"leave", "left"} /\ (grouped[d] \/ ~Bad(d)')
        BY <1>1, <3>1, <3>2 DEF IndInv, CtlInv, TypeOK, Results
      <3>4. ASSUME NEW l \in Polys, pc'[l] = "left", pc'[Parent[l]] \in {"poly", "polywait"}
            PROVE  pc[l] = "left" /\ pc[Parent[l]] \in {"poly", "polywait"}
        BY <3>2, <3>4, ParentFacts
      <3> QED
        BY <3>2, <3>3, <3>4, ResultsKept
    <2> QED
      BY <2>2, <2>3
  <1> QED
    BY <1>2, <1>3, <1>4, <1>5, <1>6, <1>7 DEF TailStep

LEMMA PolyResults ==
    ASSUME IndInv, NEW k \in Polys, PolyStep(k), OneGoesWrong
    PROVE  Results'
  <1>1. k \in Calls /\ Parent[k] \in Calls /\ Parent[k] # k /\ k \in Branches(Parent[k])
    BY ParentFacts, NoSelfBranch
  <1> DEFINE c == Parent[k]
  <1>2. CASE SkipPoly(k)
    BY <1>1, <1>2, NotGrouped, CallMoves DEF SkipPoly, Goto
  <1>3. CASE CallPoly(k)
    <2>1. /\ pc[k] = "idle" /\ pc'[k] = "prepare" /\ pc[c] = "poly" /\ pc'[c] = "polywait"
          /\ \A d \in Calls \ {c, k} : pc'[d] = pc[d]
          /\ UNCHANGED <<result, rerr, err, grouped>>
      BY <1>1, <1>3 DEF CallPoly, IndInv, CtlInv, TypeOK
    <2>2. \A d \in Calls : grouped'[d] => pc'[d] \in {"leave", "left"} /\ grouped[d]
      BY <2>1 DEF IndInv, Results
    <2>3. ASSUME NEW l \in Polys, pc'[l] = "left", pc'[Parent[l]] \in {"poly", "polywait"}
          PROVE  pc[l] = "left" /\ pc[Parent[l]] \in {"poly", "polywait"}
      BY <2>1, <2>3, ParentFacts
    <2> QED
      BY <2>1, <2>2, <2>3, ResultsKept
  <1>4. CASE PolyReturns(k)
    <2>1. /\ pc[k] = "returned" /\ pc'[k] = "left" /\ broken' = broken
          /\ pc'[c] = (IF result[k] = "rows" THEN "poly" ELSE "returned")
          /\ result[k] # "rows" => result'[c] = "error"
          /\ \A d \in Calls \ {c, k} : pc'[d] = pc[d]
          /\ \A d \in Calls \ {c} : result'[d] = result[d]
          /\ UNCHANGED <<rerr, err, grouped>>
      BY <1>1, <1>4 DEF PolyReturns, IndInv, CtlInv, TypeOK
    <2>2. pc[c] = "polywait"
      BY <2>1 DEF IndInv, CtlInv, Control, PolyInv, Running, Asleep
    <2>3. result[k] = IF Bad(k) THEN "error" ELSE "rows"
      BY <1>1, <2>1 DEF IndInv, Results
    <2>4. result[k] # "rows" => Bad(c)'
      BY <1>1, <2>1, <2>3, BadUnfolds DEF Bad
    <2>5. result[k] = "rows" => ~Bad(k)'
      BY <2>1, <2>3 DEF Bad
    <2>6. \A d \in Calls : grouped'[d] => pc'[d] \in {"leave", "left"} /\ grouped[d]
      BY <2>1, <2>2 DEF IndInv, Results
    <2>7. ASSUME NEW l \in Polys, pc'[l] = "left", pc'[Parent[l]] \in {"poly", "polywait"}
          PROVE  \/ pc[l] = "left" /\ pc[Parent[l]] \in {"poly", "polywait"}
                 \/ ~Bad(l)'
      <3>1. l \in Calls /\ Parent[l] \in Calls
        BY ParentFacts
      <3>2. CASE l = k
        BY <2>1, <2>5, <2>7, <3>2
      <3>3. CASE l # k
        BY <2>1, <2>2, <2>7, <3>1, <3>3
      <3> QED
        BY <3>2, <3>3
    <2>8. \A d \in Calls : pc'[d] \in {"returned", "replied"} =>
             \/ pc[d] \in {"returned", "replied"} /\ result'[d] = result[d]
             \/ result'[d] = IF Bad(d)' THEN "error" ELSE "rows"
      BY <1>1, <2>1, <2>4
    <2> QED
      BY <2>1, <2>6, <2>7, <2>8, ResultsKept
  <1> QED
    BY <1>2, <1>3, <1>4 DEF PolyStep

LEMMA RootResults ==
    ASSUME IndInv, NEW r \in Roots, Disconnect(r) \/ Reply(r), OneGoesWrong
    PROVE  Results'
  <1>1. r \in Calls /\ r \notin Polys
    BY KindFacts DEF Roots
  <1>2. CASE Disconnect(r)
    BY <1>2 DEF Disconnect, IndInv, Results, Bad
  <1>3. CASE Reply(r)
    <2>1. result'[r] = IF Bad(r)' THEN "error" ELSE "rows"
      BY <1>1, <1>3 DEF Reply, IndInv, Results, Bad
    <2> QED
      BY <1>1, <1>3, <2>1, NotGrouped, CallMoves DEF Reply, Goto
  <1> QED
    BY <1>2, <1>3

LEMMA ReceiveResults ==
    ASSUME IndInv, NEW r \in Roots, Receive(r)
    PROVE  Results'
  <1>1. CtlInv
    BY DEF IndInv
  <1>2. ASSUME NEW c \in Calls, c \notin Tree[r]
        PROVE  Bad(c)' <=> Bad(c)
    <2>1. \A d \in Tree[c] : d \in Calls /\ d \notin Tree[r]
      BY <1>2, TreesApart, TreeFacts
    <2> QED
      BY <1>1, <2>1, ReceiveFacts DEF Bad
  <1>3. ASSUME NEW c \in Calls, pc'[c] \in {"returned", "replied"}
        PROVE  result'[c] = IF Bad(c)' THEN "error" ELSE "rows"
    <2>1. c \notin Tree[r]
      BY <1>1, <1>3, ReceiveFacts
    <2> QED
      BY <1>1, <1>2, <1>3, <2>1, ReceiveFacts DEF IndInv, Results
  <1>4. ASSUME NEW k \in Calls, grouped'[k]
        PROVE  pc'[k] \in {"leave", "left"} /\ ~Bad(k)'
    <2>1. k \notin Tree[r]
      BY <1>4 DEF Receive, Fresh
    <2> QED
      BY <1>1, <1>2, <1>4, <2>1, ReceiveFacts DEF IndInv, Results
  <1>5. ASSUME NEW c \in Calls, rerr'[c] \/ err'[c]
        PROVE  \E k \in TailsOf(c) : Bad(k)'
    <2>1. c \notin Tree[r] /\ (rerr[c] \/ err[c])
      BY <1>1, <1>5, ReceiveFacts
    <2>2. PICK k \in TailsOf(c) : Bad(k)
      BY <2>1 DEF IndInv, Results
    <2>3. k \in Tails /\ Parent[k] = c /\ k \in Calls
      BY DEF TailsOf, Tails
    <2>4. k \notin Tree[r]
      BY <1>1, <2>1, <2>3, ReceiveFacts
    <2> QED
      BY <1>2, <2>2, <2>3, <2>4
  <1>6. ASSUME NEW k \in Polys, pc'[k] = "left", pc'[Parent[k]] \in {"poly", "polywait"}
        PROVE  ~Bad(k)'
    <2>1. k \in Calls /\ Parent[k] \in Calls
      BY ParentFacts
    <2>2. k \notin Tree[r] /\ Parent[k] \notin Tree[r]
      BY <1>1, <1>6, <2>1, ReceiveFacts
    <2> QED
      BY <1>1, <1>2, <1>6, <2>1, <2>2, ReceiveFacts DEF IndInv, Results
  <1> QED
    BY <1>3, <1>4, <1>5, <1>6 DEF Results

LEMMA IndInit ==
    ASSUME Init
    PROVE  IndInv
  BY CtlInit DEF Init, IndInv, Results, Polys

LEMMA IndStep ==
    ASSUME IndInv, [Next]_vars
    PROVE  IndInv'
  <1>1. CtlInv /\ CtlInv'
    BY CtlStep DEF IndInv
  <1>2. CASE \E r \in Roots : Receive(r)
    BY <1>1, <1>2, ReceiveResults DEF IndInv
  <1>3. CASE Inner
    <2>1. OneGoesWrong
      BY <1>1, <1>3, GoesWrong
    <2> QED
      BY <1>1, <1>3, <2>1, RootResults, StepResults, TailResults, PolyResults DEF Inner, IndInv
  <1>4. CASE UNCHANGED vars
    BY <1>1, <1>4 DEF vars, IndInv, Results, Bad
  <1> QED
    BY <1>2, <1>3, <1>4 DEF Next, Inner

LEMMA Inductive == Spec => []IndInv
  BY IndInit, IndStep, PTL DEF Spec
-----------------------------------------------------------------------------
(* Every step of the resolver is a step of the service, or none.            *)

phaseNow == [r \in Roots |->
    CASE pc[r] = "idle" -> "idle" [] pc[r] = "replied" -> "answered" [] OTHER -> "asked"]
answerNow == [r \in Roots |-> IF pc[r] = "replied" THEN result[r] ELSE "none"]

LEMMA ReceiveAsks ==
    ASSUME IndInv, NEW r \in Roots, Receive(r)
    PROVE  Service!Ask(r)
  <1>1. /\ r \in Calls /\ pc[r] \in {"idle", "replied"}
        /\ \A s \in Roots : s \in Calls /\ (s # r => s \notin Tree[r])
    BY TreeFacts, TreeParents DEF Receive, Roots
  <1>2. \A s \in Roots : /\ pc'[s] = IF s = r THEN "prepare" ELSE pc[s]
                         /\ s # r => result'[s] = result[s]
    BY <1>1, ReceiveFacts DEF IndInv
  <1>3. broken' = [c \in Calls |-> c \notin Tree[r] /\ broken[c]]
    <2>1. broken' = [c \in Calls |-> IF c \in Tree[r] THEN FALSE ELSE broken[c]]
      BY DEF Receive, Fresh
    <2>2. \A c \in Calls : (IF c \in Tree[r] THEN FALSE ELSE broken[c]) = (c \notin Tree[r] /\ broken[c])
      BY Zenon DEF IndInv, CtlInv, TypeOK
    <2> QED
      BY <2>1, <2>2
  <1>4. phaseNow[r] # "asked" /\ phaseNow' = [phaseNow EXCEPT ![r] = "asked"]
    BY <1>1, <1>2 DEF phaseNow
  <1>5. answerNow' = [answerNow EXCEPT ![r] = "none"]
    BY <1>1, <1>2 DEF answerNow
  <1> QED
    BY <1>3, <1>4, <1>5 DEF Service!Ask, phaseNow, answerNow

LEMMA ReplyAnswers ==
    ASSUME IndInv, NEW r \in Roots, Reply(r)
    PROVE  Service!Answer(r)
  <1>1. /\ r \in Calls /\ pc[r] = "returned" /\ result' = result /\ broken' = broken
        /\ \A s \in Roots : pc'[s] = IF s = r THEN "replied" ELSE pc[s]
    BY DEF Reply, Goto, Roots, IndInv, CtlInv, TypeOK
  <1>2. result[r] = IF \E c \in Tree[r] : broken[c] THEN "error" ELSE "rows"
    BY <1>1 DEF IndInv, Results, Bad
  <1>3. phaseNow[r] = "asked" /\ phaseNow' = [phaseNow EXCEPT ![r] = "answered"]
    BY <1>1 DEF phaseNow
  <1>4. answerNow' = [answerNow EXCEPT ![r] =
                         IF \E c \in Tree[r] : broken[c] THEN "error" ELSE "rows"]
    BY <1>1, <1>2 DEF answerNow
  <1> QED
    BY <1>1, <1>3, <1>4 DEF Service!Answer, phaseNow, answerNow

(* Between the two the client sees nothing, though something may go wrong.  *)
LEMMA InnerUnseen ==
    ASSUME IndInv, Inner, ~\E r \in Roots : Reply(r)
    PROVE  phaseNow' = phaseNow /\ answerNow' = answerNow
  <1>1. \A r \in Roots : r \in Calls /\ r \notin Tails \cup Polys
    BY KindFacts DEF Roots
  <1>2. ASSUME NEW r \in Roots
        PROVE  /\ pc'[r] = "idle" <=> pc[r] = "idle"
               /\ pc'[r] = "replied" <=> pc[r] = "replied"
               /\ pc[r] = "replied" => result'[r] = result[r]
    <2>1. CASE \E s \in Roots : Disconnect(s)
      BY <2>1 DEF Disconnect
    <2>2. ASSUME NEW c \in Calls, Step(c)
          PROVE  /\ pc'[r] = "idle" <=> pc[r] = "idle"
                 /\ pc'[r] = "replied" <=> pc[r] = "replied"
                 /\ pc[r] = "replied" => result'[r] = result[r]
      BY <1>1, <2>2 DEF Step, Prepare, PrepareFails, Query, QueryFails, Scan, ScanFails,
         SpawnsDone,
         Join, Finalize, Fail, ReturnError, ReturnRows, Goto, IndInv, CtlInv, TypeOK
    <2>3. ASSUME NEW k \in Tails, TailStep(k)
          PROVE  pc'[r] = pc[r] /\ result'[r] = result[r]
      BY <1>1, <2>3 DEF TailStep, Spawn, SkipTail, TailFails, CallDirect,
         MakeThroughChildRequest,
         CallThrough, Report, Leave, SetRerr, Goto, IndInv, CtlInv, TypeOK
    <2>4. ASSUME NEW k \in Polys, PolyStep(k)
          PROVE  /\ pc'[r] = "idle" <=> pc[r] = "idle"
                 /\ pc'[r] = "replied" <=> pc[r] = "replied"
                 /\ pc[r] = "replied" => result'[r] = result[r]
      <3>1. k \in Calls /\ Parent[k] \in Calls /\ k # r
        BY <1>1, ParentFacts
      <3>2. CASE CallPoly(k) \/ SkipPoly(k)
        BY <1>1, <3>1, <3>2 DEF CallPoly, SkipPoly, Goto, IndInv, CtlInv, TypeOK
      <3>3. CASE PolyReturns(k)
        <4>1. pc[Parent[k]] = "polywait"
          BY <3>1, <3>3 DEF PolyReturns, IndInv, CtlInv, Control, PolyInv, Running, Asleep
        <4> QED
          BY <1>1, <3>1, <3>3, <4>1 DEF PolyReturns, IndInv, CtlInv, TypeOK
      <3> QED
        BY <2>4, <3>2, <3>3 DEF PolyStep
    <2> QED
      BY <2>1, <2>2, <2>3, <2>4 DEF Inner
  <1> QED
    BY <1>2 DEF phaseNow, answerNow

LEMMA FailureIsGoWrong ==
    ASSUME IndInv, NEW c \in Calls, pc[c] \in Failing, broken' = [broken EXCEPT ![c] = TRUE],
           phaseNow' = phaseNow, answerNow' = answerNow
    PROVE  Service!GoWrong(c)
  <1>1. ASSUME NEW r \in Roots, c \in Tree[r]
        PROVE  phaseNow[r] = "asked"
    <2>1. r \in Calls
      BY DEF Roots
    <2>2. pc[r] \notin {"idle", "replied"}
      <3>1. CASE c = r
        BY <3>1 DEF Failing
      <3>2. CASE c # r
        BY <1>1, <2>1, <3>2, NothingRunsBelow DEF IndInv, CtlInv, Running, Failing, Asleep
      <3> QED
        BY <3>1, <3>2
    <2> QED
      BY <2>2 DEF phaseNow
  <1> QED
    BY <1>1 DEF Service!GoWrong, phaseNow, answerNow

(* An index request is answered with all its rows or with an error, the     *)
(* latter exactly if some call of its tree went wrong.  (Resolver,          *)
(* IndexHandler)                                                            *)
THEOREM AllOrNothingHolds == Spec => AllOrNothing
  <1>1. Init => Service!ServiceInit
    BY DEF Init, Service!ServiceInit, Roots
  <1>2. ASSUME IndInv, [Next]_vars
        PROVE  [Service!ServiceNext]_(Service!svars)
    <2>1. CASE \E r \in Roots : Receive(r)
      BY <1>2, <2>1, ReceiveAsks DEF Service!ServiceNext
    <2>2. CASE \E r \in Roots : Reply(r)
      BY <1>2, <2>2, ReplyAnswers DEF Service!ServiceNext
    <2>3. CASE Inner /\ ~\E r \in Roots : Reply(r)
      <3>1. phaseNow' = phaseNow /\ answerNow' = answerNow
        BY <1>2, <2>3, InnerUnseen
      <3>2. OneGoesWrong
        BY <1>2, <2>3, GoesWrong DEF IndInv
      <3>3. CASE broken' = broken
        BY <3>1, <3>3 DEF Service!svars, phaseNow, answerNow
      <3>4. CASE broken' # broken
        BY <1>2, <3>1, <3>2, <3>4, FailureIsGoWrong DEF OneGoesWrong, Service!ServiceNext
      <3> QED
        BY <3>3, <3>4
    <2>4. CASE UNCHANGED vars
      BY <2>4 DEF vars, Service!svars
    <2> QED
      BY <1>2, <2>1, <2>2, <2>3, <2>4 DEF Next, Inner
  <1> QED
    BY <1>1, <1>2, Inductive, PTL DEF Spec, AllOrNothing, Service!ServiceSpec
=============================================================================
