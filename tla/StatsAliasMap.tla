---------------------------- MODULE StatsAliasMap ----------------------------
(***************************************************************************)
(* The alias map of a request with metrics (CreateAliasMapForAggregates in *)
(* internal/model/aggregates.go).  The map comes from the cache, which     *)
(* gives all requests with the same key the same pointer, and the paths of *)
(* the metrics are added to it in place, without a lock.                   *)
(*                                                                         *)
(* All requests here have one key.  The cache is no more than the pointer  *)
(* it holds (AliasCache has the rest); a map is its two projections.       *)
(***************************************************************************)
EXTENDS Integers, Sequences, FiniteSetsExt, Functions

CONSTANTS
    Requests,   \* requests of one model, preset and filters
    Built,      \* the map BuildAliasMap makes of them: relation paths to numbers
    Paths       \* Paths[r]: the paths of the metrics of r, prefixes before the
                \* paths they lead to, in the order they are ensured

VARIABLES
    maps,       \* all maps made: PathToAlias, and the domain of AliasToPath
    cached,     \* the one in the cache, or 0
    held,       \* held[r]: the one r was served
    pc,
    next,       \* next[r]: number of the path to ensure
    nextIdx,    \* nextIdx[r]: the local variable of that name
    alias       \* alias[r]: the alias chosen and not yet entered

vars == <<maps, cached, held, pc, next, nextIdx, alias>>

Init ==
    /\ maps = <<>> /\ cached = 0
    /\ held = [r \in Requests |-> 0]
    /\ pc = [r \in Requests |-> "start"]
    /\ next = [r \in Requests |-> 1]
    /\ nextIdx = [r \in Requests |-> 0]
    /\ alias = [r \in Requests |-> 0]

At(r, place) == pc[r] = place
Goto(r, place) == pc' = [pc EXCEPT ![r] = place]
-----------------------------------------------------------------------------
(* CreateAliasMap, by its two ways out; two requests may both miss.         *)
Hit(r) ==
    /\ At(r, "start") /\ cached # 0
    /\ held' = [held EXCEPT ![r] = cached]
    /\ Goto(r, "detect")
    /\ UNCHANGED <<maps, cached, next, nextIdx, alias>>

Build(r) ==
    /\ At(r, "start") /\ cached = 0
    /\ maps' = Append(maps, [aliasOf |-> Built, taken |-> Range(Built)])
    /\ held' = [held EXCEPT ![r] = Len(maps')]
    /\ Goto(r, "store")
    /\ UNCHANGED <<cached, next, nextIdx, alias>>

Store(r) ==
    /\ At(r, "store")
    /\ cached' = held[r]
    /\ Goto(r, "detect")
    /\ UNCHANGED <<maps, held, next, nextIdx, alias>>

(* Expired and swept. *)
Evict ==
    /\ cached # 0
    /\ cached' = 0
    /\ UNCHANGED <<maps, held, pc, next, nextIdx, alias>>
-----------------------------------------------------------------------------
Taken(r) == maps[held[r]].taken

DetectNextAliasIndex(r) ==
    /\ At(r, "detect")
    /\ nextIdx' = [nextIdx EXCEPT ![r] = Max(Taken(r) \cup {-1}) + 1]
    /\ Goto(r, "ensure")
    /\ UNCHANGED <<maps, cached, held, next, alias>>

HasNext(r) == next[r] <= Len(Paths[r])
Path(r) == Paths[r][next[r]]
Registered(r) == Path(r) \in DOMAIN maps[held[r]].aliasOf

(* ensureAliasPath, a path at a time: known paths are passed over.          *)
SkipPath(r) ==
    /\ At(r, "ensure") /\ HasNext(r) /\ Registered(r)
    /\ next' = [next EXCEPT ![r] = @ + 1]
    /\ UNCHANGED <<maps, cached, held, pc, nextIdx, alias>>

NextAlias(r) ==
    /\ At(r, "ensure") /\ HasNext(r) /\ ~Registered(r)
    /\ LET n == Min((nextIdx[r]..(Max(Taken(r) \cup {nextIdx[r]}) + 1)) \ Taken(r))
       IN  /\ alias' = [alias EXCEPT ![r] = n]
           /\ nextIdx' = [nextIdx EXCEPT ![r] = n + 1]
    /\ Goto(r, "enter")
    /\ UNCHANGED <<maps, cached, held, next>>

(* The two assignments, into PathToAlias and AliasToPath. *)
EnterPath(r) ==
    /\ At(r, "enter")
    /\ maps' = [maps EXCEPT ![held[r]].aliasOf =
                   [p \in DOMAIN @ \cup {Path(r)} |-> IF p = Path(r) THEN alias[r] ELSE @[p]]]
    /\ Goto(r, "enter alias")
    /\ UNCHANGED <<cached, held, next, nextIdx, alias>>

EnterAlias(r) ==
    /\ At(r, "enter alias")
    /\ maps' = [maps EXCEPT ![held[r]].taken = @ \cup {alias[r]}]
    /\ next' = [next EXCEPT ![r] = @ + 1]
    /\ Goto(r, "ensure")
    /\ UNCHANGED <<cached, held, nextIdx, alias>>

(* BuildCountAggregateQuery: DetectJoins takes the aliases from the map.    *)
EnsureDone(r) ==
    /\ At(r, "ensure") /\ ~HasNext(r)
    /\ Goto(r, "join")
    /\ UNCHANGED <<maps, cached, held, next, nextIdx, alias>>

DetectJoins(r) ==
    /\ At(r, "join")
    /\ Goto(r, "done")
    /\ UNCHANGED <<maps, cached, held, next, nextIdx, alias>>

(* Go's runtime may notice that a map is read or written while another     *)
(* goroutine writes it, and then ends the process.                         *)
Reads == {"detect", "ensure", "join"}
Writes == {"enter", "enter alias"}
Fatal ==
    /\ \E r, s \in Requests :
          /\ r # s /\ held[r] = held[s]
          /\ pc[r] \in Writes /\ pc[s] \in Reads \cup Writes
    /\ pc' = [r \in Requests |-> "killed"]
    /\ UNCHANGED <<maps, cached, held, next, nextIdx, alias>>

Next ==
    \/ Evict \/ Fatal
    \/ \E r \in Requests :
          \/ Hit(r) \/ Build(r) \/ Store(r)
          \/ DetectNextAliasIndex(r) \/ SkipPath(r) \/ NextAlias(r)
          \/ EnterPath(r) \/ EnterAlias(r)
          \/ EnsureDone(r) \/ DetectJoins(r)

Spec == Init /\ [][Next]_vars
-----------------------------------------------------------------------------
(* The comment in ensureAliasPath: an alias is assigned "avoiding conflicts*)
(* with those already taken".  Two relations of one query never share an   *)
(* alias: DetectJoins joins only the first of them, and columns of the     *)
(* other are read from the wrong table.                                    *)
NoAliasConflict ==
    \A r \in Requests : At(r, "join") =>
        LET aliasOf == maps[held[r]].aliasOf
        IN  \A p, q \in DOMAIN Built \cup Range(Paths[r]) : aliasOf[p] = aliasOf[q] => p = q
=============================================================================
