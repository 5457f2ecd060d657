----------------------------- MODULE AliasCache -----------------------------
(***************************************************************************)
(* The process-wide cache of alias maps (internal/model/alias_cache.go)    *)
(* and the operation that uses it, Model.CreateAliasMap                    *)
(* (internal/model/CreateAliasMap.go), run by concurrent request           *)
(* goroutines.                                                             *)
(*                                                                         *)
(* get and set hold the cache's mutex from their first to their last       *)
(* statement, so each is one action.  What the mutex does not cover is     *)
(* what makes the cache hard: the time a goroutine passes to get and set   *)
(* is read BEFORE the lock is taken, and the map is built between the two  *)
(* critical sections, so that several goroutines may miss, build and store *)
(* the same key.                                                           *)
(*                                                                         *)
(* The cache and its callers share POINTERS to alias maps.  "maps" is the  *)
(* memory they point to; a map is the set of relation paths it names.  The *)
(* estimate of its size (estimateAliasMapBytes) is the number of these     *)
(* paths: every path is taken to weigh the same.  The estimate is made of  *)
(* the map as it is at that moment, and CreateAliasMapForAggregates adds   *)
(* the paths of a request's metrics to the map it was served, in place and *)
(* without the lock, whether the cache holds that map or not.              *)
(*                                                                         *)
(* What the Go runtime may do when a map is read while it is written, and  *)
(* how two writers number their paths, is the subject of StatsAliasMap.    *)
(***************************************************************************)
EXTENDS Integers, FiniteSets

CONSTANTS
    Threads,        \* goroutines that serve requests
    Requests,       \* records [model, preset, fields, filters, sorts, metrics]
    Unbuildable,    \* the requests on which BuildAliasMap returns an error
    Refused,        \* the paths of metrics that ensureAliasPath rejects
    Addresses,      \* where alias maps can lie in memory
    TTL,            \* aliasCacheTTL
    SweepFreq,      \* aliasCacheSweepFreq
    MaxBytes,       \* ALIAS_CACHE_MAX_BYTES; the cache is unlimited unless > 0
    MaxWait,        \* BOUND: longest wait between reading the clock and the lock
    Horizon,        \* BOUND: the last instant of the clock
    MaxGrown        \* BOUND: metrics are asked for while less has been added

(* A request names its model and its preset; "fields" are the relation     *)
(* paths of the preset's own FieldsAliasMap, "filters" and "sorts" the     *)
(* relation paths its filters and sorts go through, "metrics" those of the *)
(* metrics of a request for statistics (prefixes included).                *)
ASSUME RequestsAssumption ==
    /\ Requests # {}
    /\ Unbuildable \subseteq Requests
    /\ \A r \in Requests : /\ IsFiniteSet(r.fields)
                           /\ IsFiniteSet(r.filters)
                           /\ IsFiniteSet(r.sorts)

ASSUME AddressAssumption == Addresses \subseteq Nat \ {0}

ASSUME TimeAssumption ==
    /\ TTL \in Nat /\ SweepFreq \in Nat /\ Horizon \in Nat
    /\ MaxWait \in Nat /\ MaxWait <= TTL
    /\ MaxBytes \in Int /\ MaxGrown \in Nat

VARIABLES
    items,          \* the cached entries, a function on the keys present
    lastSweep,      \* time of the last sweep, Never before the first
    totalBytes,     \* the cache's own count of the bytes it holds
    maps,           \* the memory: the alias map at each address
    clock,          \* the wall clock
    pc,             \* where each goroutine is in CreateAliasMap
    req,            \* the request each goroutine works on
    stamp,          \* the time it read before locking the cache
    aliasMap,       \* the address of the alias map it holds
    outcome,        \* how the call ended
    grown,          \* history: paths added to maps while the cache held them
    lost            \* history: bytes get deleted without counting them off

cacheVars == <<items, lastSweep, totalBytes>>
threadVars == <<pc, req, stamp, aliasMap, outcome>>
history == <<grown, lost>>
vars == <<cacheVars, maps, clock, threadVars, history>>
-----------------------------------------------------------------------------
(* Mutant: requests that differ in their filters share a key. *)
KeyWithoutFilters(r) == <<r.model, r.preset, r.sorts>>

(* The key keeps the preset's NAME, not its fields: a synthetic preset that *)
(* reuses a name shares the key of the preset it is named after.            *)
AliasCacheKey(r) == <<r.model, r.preset, r.filters, r.sorts>>

(* The parts of a request the key is made for. *)
SameRequest(r1, r2) ==
    /\ r1.model = r2.model /\ r1.preset = r2.preset
    /\ r1.filters = r2.filters /\ r1.sorts = r2.sorts

BuildAliasMap(r) == r.fields \cup r.filters \cup r.sorts

(* The paths the callers with the key of r may add to its map. *)
Added(r) == UNION {q.metrics : q \in {q \in Requests : AliasCacheKey(q) = AliasCacheKey(r)}}

(* A map built for r, with what was added to it since. *)
MadeFor(am, r) ==
    /\ BuildAliasMap(r) \subseteq am
    /\ am \subseteq BuildAliasMap(r) \cup Added(r)

Keys == {AliasCacheKey(r) : r \in Requests}
AliasMaps == SUBSET UNION {BuildAliasMap(r) \cup r.metrics : r \in Requests}
Entries == [aliasMap : Addresses, lastUsed : Nat]
NoMap == 0      \* nil
Never == 0

EstimateOnePerMap(a) == 1     \* mutant: counts maps, not their paths
EstimateAliasMapBytes(a) == IF a = NoMap THEN 0 ELSE Cardinality(maps[a])

(* The bytes that a set of entries f takes in the memory m: the sum of the  *)
(* estimates of its maps, as the cardinality of their disjoint union.       *)
Cells(f, m) == UNION {{k} \X m[f[k].aliasMap] : k \in DOMAIN f}
BytesOf(f, m) == Cardinality(Cells(f, m))

(* The maps in use, and the garbage collector's part: it runs with every    *)
(* step that may drop the last reference to a map.                          *)
Cached == {items[k].aliasMap : k \in DOMAIN items}
Live == Cached \cup {aliasMap[t] : t \in Threads}
CollectGarbage == maps' = [a \in Addresses |-> IF a \in Live' THEN maps[a] ELSE {}]
-----------------------------------------------------------------------------
(* Of no meaning: what stands in for the request of an idle goroutine. *)
AnyRequest == CHOOSE r \in Requests : TRUE

Init ==
    /\ items = [k \in {} |-> [aliasMap |-> NoMap, lastUsed |-> Never]]
    /\ maps = [a \in Addresses |-> {}]
    /\ lastSweep = Never
    /\ totalBytes = 0
    /\ clock = 1
    /\ pc = [t \in Threads |-> "idle"]
    /\ req = [t \in Threads |-> AnyRequest]
    /\ stamp = [t \in Threads |-> Never]
    /\ aliasMap = [t \in Threads |-> NoMap]
    /\ outcome = [t \in Threads |-> "none"]
    /\ grown = 0
    /\ lost = 0

ExpiredAtTTL(e, now) == now - e.lastUsed >= TTL     \* mutant
Expired(e, now) == now - e.lastUsed > TTL

SweepDue(now) == lastSweep = Never \/ now - lastSweep >= SweepFreq

Restricted(f, S) == [k \in S |-> f[k]]

(* Mutant: the sweep keeps entries one instant too long. *)
SweptLate(now) ==
    IF SweepDue(now)
    THEN {k \in DOMAIN items : now - items[k].lastUsed > TTL + 1} ELSE {}

SweptKeys(now) ==
    IF SweepDue(now) THEN {k \in DOMAIN items : Expired(items[k], now)} ELSE {}

(* maybeSweepLocked: the entries and the byte count it leaves behind. *)
KeptItems(now) == Restricted(items, DOMAIN items \ SweptKeys(now))
KeptBytes(now) == totalBytes - BytesOf(Restricted(items, SweptKeys(now)), maps)

MaybeSweepLocked(now) ==
    lastSweep' = IF SweepDue(now) THEN now ELSE lastSweep

(* A goroutine enters CreateAliasMap, computes the key and reads the clock. *)
Call(t) ==
    /\ pc[t] = "idle"
    /\ \E r \in Requests :
          /\ r.metrics # {} => grown < MaxGrown
          /\ req' = [req EXCEPT ![t] = r]
    /\ stamp' = [stamp EXCEPT ![t] = clock]
    /\ pc' = [pc EXCEPT ![t] = "get"]
    /\ UNCHANGED <<cacheVars, maps, clock, aliasMap, outcome, history>>

(* get: no entry under the key. *)
GetMiss(t) ==
    LET now == stamp[t]
    IN  /\ pc[t] = "get"
        /\ AliasCacheKey(req[t]) \notin DOMAIN KeptItems(now)
        /\ MaybeSweepLocked(now)
        /\ items' = KeptItems(now)
        /\ totalBytes' = KeptBytes(now)
        /\ pc' = [pc EXCEPT ![t] = "build"]
        /\ UNCHANGED <<clock, req, stamp, aliasMap, outcome, history>>
        /\ CollectGarbage

(* get: the entry has been idle too long; it is deleted, and totalBytes is *)
(* not reduced.                                                            *)
GetExpired(t) ==
    LET now == stamp[t]
        key == AliasCacheKey(req[t])
    IN  /\ pc[t] = "get"
        /\ key \in DOMAIN KeptItems(now)
        /\ Expired(items[key], now)
        /\ MaybeSweepLocked(now)
        /\ items' = Restricted(items, DOMAIN KeptItems(now) \ {key})
        /\ totalBytes' = KeptBytes(now)
        /\ lost' = lost + EstimateAliasMapBytes(items[key].aliasMap)
        /\ pc' = [pc EXCEPT ![t] = "build"]
        /\ UNCHANGED <<clock, req, stamp, aliasMap, outcome, grown>>
        /\ CollectGarbage

(* get: the entry is served, and counts as used at the caller's time. *)
GetHit(t) ==
    LET now == stamp[t]
        key == AliasCacheKey(req[t])
    IN  /\ pc[t] = "get"
        /\ key \in DOMAIN KeptItems(now)
        /\ ~Expired(items[key], now)
        /\ MaybeSweepLocked(now)
        /\ items' = [KeptItems(now) EXCEPT ![key].lastUsed = now]
        /\ totalBytes' = KeptBytes(now)
        /\ aliasMap' = [aliasMap EXCEPT ![t] = items[key].aliasMap]
        /\ outcome' = [outcome EXCEPT ![t] = "cached"]
        /\ pc' = [pc EXCEPT ![t] = "done"]
        /\ UNCHANGED <<clock, req, stamp, history>>
        /\ CollectGarbage

BuildFailsUnnoticed(t) ==     \* mutant: set is called in spite of the error
    /\ pc[t] = "build"
    /\ req[t] \in Unbuildable
    /\ stamp' = [stamp EXCEPT ![t] = clock]
    /\ pc' = [pc EXCEPT ![t] = "set"]
    /\ UNCHANGED <<cacheVars, maps, clock, req, aliasMap, outcome, history>>

(* After a miss, without the lock: BuildAliasMap fails... *)
BuildFails(t) ==
    /\ pc[t] = "build"
    /\ req[t] \in Unbuildable
    /\ outcome' = [outcome EXCEPT ![t] = "error"]
    /\ pc' = [pc EXCEPT ![t] = "done"]
    /\ UNCHANGED <<cacheVars, maps, clock, req, stamp, aliasMap, history>>

(* ... or makes a new map, and the clock is read again for set. *)
Fresh == CHOOSE a \in Addresses : a \notin Live

Build(t) ==
    /\ pc[t] = "build"
    /\ req[t] \notin Unbuildable
    /\ Addresses \ Live # {}
    /\ maps' = [maps EXCEPT ![Fresh] = BuildAliasMap(req[t])]
    /\ aliasMap' = [aliasMap EXCEPT ![t] = Fresh]
    /\ stamp' = [stamp EXCEPT ![t] = clock]
    /\ pc' = [pc EXCEPT ![t] = "set"]
    /\ UNCHANGED <<cacheVars, clock, req, outcome, history>>

TooLarge(size) == MaxBytes > 0 /\ size > MaxBytes
OverLimitBefore(now, size) == MaxBytes > 0 /\ KeptBytes(now) > MaxBytes     \* mutant
OverLimit(now, size) == MaxBytes > 0 /\ KeptBytes(now) + size > MaxBytes

(* set refuses the map: larger than the whole cache, or no room left.  The *)
(* caller gets its map all the same.                                       *)
SetRefused(t) ==
    LET now == stamp[t]
        size == EstimateAliasMapBytes(aliasMap[t])
    IN  /\ pc[t] = "set"
        /\ \/ /\ TooLarge(size)
              /\ outcome' = [outcome EXCEPT ![t] = "tooLarge"]
           \/ /\ ~TooLarge(size)
              /\ OverLimit(now, size)
              /\ outcome' = [outcome EXCEPT ![t] = "limit"]
        /\ MaybeSweepLocked(now)
        /\ items' = KeptItems(now)
        /\ totalBytes' = KeptBytes(now)
        /\ pc' = [pc EXCEPT ![t] = "done"]
        /\ UNCHANGED <<clock, req, stamp, aliasMap, history>>
        /\ CollectGarbage

(* set stores the map, in place of the entry another goroutine may have    *)
(* stored under the same key meanwhile.                                    *)
SetStores(t) ==
    LET now == stamp[t]
        key == AliasCacheKey(req[t])
        size == EstimateAliasMapBytes(aliasMap[t])
        kept == KeptItems(now)
        replaced == IF key \in DOMAIN kept
                    THEN EstimateAliasMapBytes(kept[key].aliasMap) ELSE 0
        entry == [aliasMap |-> aliasMap[t], lastUsed |-> now]
    IN  /\ pc[t] = "set"
        /\ ~TooLarge(size)
        /\ ~OverLimit(now, size)
        /\ MaybeSweepLocked(now)
        /\ items' = [k \in DOMAIN kept \cup {key} |->
                        IF k = key THEN entry ELSE kept[k]]
        /\ totalBytes' = KeptBytes(now) - replaced + size
        /\ outcome' = [outcome EXCEPT ![t] = "stored"]
        /\ pc' = [pc EXCEPT ![t] = "done"]
        /\ UNCHANGED <<clock, req, stamp, aliasMap, history>>
        /\ CollectGarbage

(* The caller has the map.  CreateAliasMapForAggregates adds the paths of   *)
(* its metrics to it, one at a time and without the lock, until             *)
(* ensureAliasPath refuses one.                                             *)
AddMetric(t) ==
    LET am == aliasMap[t]
    IN  /\ pc[t] = "done" /\ outcome[t] # "error"
        /\ \E p \in req[t].metrics \ (Refused \cup maps[am]) :
              maps' = [maps EXCEPT ![am] = @ \cup {p}]
        /\ grown' = IF am \in Cached THEN grown + 1 ELSE grown
        /\ UNCHANGED <<cacheVars, clock, threadVars, lost>>

(* It goes on with the map, or with an error. *)
Return(t) ==
    /\ pc[t] = "done"
    /\ outcome[t] # "error" /\ req[t].metrics \cap Refused = {} =>
          req[t].metrics \subseteq maps[aliasMap[t]]
    /\ pc' = [pc EXCEPT ![t] = "idle"]
    /\ req' = [req EXCEPT ![t] = AnyRequest]
    /\ stamp' = [stamp EXCEPT ![t] = Never]
    /\ aliasMap' = [aliasMap EXCEPT ![t] = NoMap]
    /\ outcome' = [outcome EXCEPT ![t] = "none"]
    /\ UNCHANGED <<cacheVars, clock, history>>
    /\ CollectGarbage

(* Time passes; no goroutine waits for the mutex longer than MaxWait. *)
Tick ==
    /\ clock < Horizon
    /\ \A t \in Threads : pc[t] \in {"get", "set"} => clock + 1 - stamp[t] <= MaxWait
    /\ clock' = clock + 1
    /\ UNCHANGED <<cacheVars, maps, threadVars, history>>

CreateAliasMap(t) ==
    \/ Call(t) \/ GetMiss(t) \/ GetExpired(t) \/ GetHit(t)
    \/ BuildFails(t) \/ Build(t) \/ SetRefused(t) \/ SetStores(t)
    \/ AddMetric(t) \/ Return(t)

Next == Tick \/ \E t \in Threads : CreateAliasMap(t)

Spec == Init /\ [][Next]_vars
-----------------------------------------------------------------------------
Outcomes == {"none", "cached", "stored", "tooLarge", "limit", "error"}

(* Types of the variables of the cache and of the goroutines.  The byte     *)
(* count is an integer: alias_cache.go:95,112 can take it below zero.       *)
TypeOK ==
    /\ DOMAIN items \subseteq Keys
    /\ items \in [DOMAIN items -> Entries]
    /\ lastSweep \in Nat
    /\ totalBytes \in Int
    /\ maps \in [Addresses -> AliasMaps]
    /\ clock \in Nat
    /\ pc \in [Threads -> {"idle", "get", "build", "set", "done"}]
    /\ req \in [Threads -> Requests]
    /\ stamp \in [Threads -> Nat]
    /\ aliasMap \in [Threads -> Addresses \cup {NoMap}]
    /\ outcome \in [Threads -> Outcomes]
    /\ grown \in Nat /\ lost \in Nat

CachedBytes == BytesOf(items, maps)

(* The byte count of alias_cache.go is wrong by two things and nothing     *)
(* else: too low by the paths that metrics added to maps in the cache,      *)
(* which no line counts and the removal of the map counts off; too high by  *)
(* the entries that get deletes without counting them off.  Replacements,   *)
(* sweeps and stores by several goroutines that missed the same key count   *)
(* every other byte on once and off once, at the size it then has.          *)
CountDriftExplained == totalBytes + grown = CachedBytes + lost

(* With ALIAS_CACHE_MAX_BYTES set, the maps cached take no more than the    *)
(* limit and what metrics have added to cached maps since the start,        *)
(* although goroutines that missed the same key store one after the other   *)
(* and the limit is tested against the count and not against the entries.   *)
CacheWithinLimit == MaxBytes > 0 => CachedBytes <= MaxBytes + grown

(* DOCS.md:367: ALIAS_CACHE_MAX_BYTES is the "Max bytes for in-memory       *)
(* alias cache".                                                            *)
MaxBytesForCache == MaxBytes > 0 => CachedBytes <= MaxBytes

(* A goroutine that leaves CreateAliasMap without error holds a map built   *)
(* for the same model, preset name, filters and sorts, by itself or by any  *)
(* other goroutine, with no more than the metrics asked for under that key  *)
(* added to it: stores of other keys, replacements, expiry and metrics of   *)
(* other keys never mix maps up.                                            *)
ServedMapHasKey ==
    \A t \in Threads :
        outcome[t] \in Outcomes \ {"none", "error"} =>
            \E r \in Requests \ Unbuildable :
                /\ SameRequest(r, req[t])
                /\ MadeFor(maps[aliasMap[t]], r)

(* No entry was last used longer than TTL before the last sweep: entries    *)
(* stored or touched with a time read before a sweep that ran meanwhile     *)
(* never leave behind what that sweep should have removed.                  *)
SweptClean == \A k \in DOMAIN items : lastSweep - items[k].lastUsed <= TTL

(* An entry leaves the cache only after it has been idle longer than TTL,   *)
(* by the wall clock: neither get, nor set, nor a sweep with another        *)
(* goroutine's time evicts an entry still in use.                           *)
EvictsOnlyIdle ==
    [][\A k \in DOMAIN items \ DOMAIN items' : clock - items[k].lastUsed > TTL]_vars

(* The inductive invariant behind these properties. *)
EntriesHaveKey ==
    \A k \in DOMAIN items :
        \E r \in Requests \ Unbuildable :
            AliasCacheKey(r) = k /\ MadeFor(maps[items[k].aliasMap], r)

ClockInv ==
    /\ lastSweep <= clock
    /\ \A k \in DOMAIN items : items[k].lastUsed <= clock
    /\ \A t \in Threads : stamp[t] <= clock
    /\ \A t \in Threads : pc[t] \in {"get", "set"} => clock - stamp[t] <= MaxWait

ThreadInv ==
    \A t \in Threads :
        /\ pc[t] = "set" => /\ req[t] \notin Unbuildable
                            /\ maps[aliasMap[t]] = BuildAliasMap(req[t])
        /\ aliasMap[t] = NoMap <=> pc[t] \in {"idle", "get", "build"} \/ outcome[t] = "error"
        /\ outcome[t] = "error" => req[t] \in Unbuildable
        /\ outcome[t] = "none" <=> pc[t] # "done"

(* Who shares a map: callers with one key, and the entry under that key.    *)
(* A map that is yet to be stored is its builder's alone.                   *)
SharedByKey ==
    /\ \A k1, k2 \in DOMAIN items : items[k1].aliasMap = items[k2].aliasMap => k1 = k2
    /\ \A t \in Threads, k \in DOMAIN items :
          aliasMap[t] = items[k].aliasMap => AliasCacheKey(req[t]) = k /\ pc[t] # "set"
    /\ \A t1, t2 \in Threads :
          t1 # t2 /\ aliasMap[t1] = aliasMap[t2] /\ aliasMap[t1] # NoMap =>
              /\ AliasCacheKey(req[t1]) = AliasCacheKey(req[t2])
              /\ pc[t1] # "set"

CountInv ==
    /\ \A a \in Addresses : IsFiniteSet(maps[a])
    /\ IsFiniteSet(Cells(items, maps))
    /\ CountDriftExplained
    /\ MaxBytes > 0 => totalBytes <= MaxBytes

IndInv ==
    /\ TypeOK
    /\ ClockInv
    /\ SweptClean
    /\ CountInv
    /\ EntriesHaveKey
    /\ ThreadInv
    /\ SharedByKey
    /\ ServedMapHasKey
-----------------------------------------------------------------------------
(* The cache is invisible but for the metrics of others: CreateAliasMap     *)
(* with the cache implements the service without one, provided equal keys   *)
(* mean equal maps.                                                         *)
KeysTellRequestsApart ==
    \A r1, r2 \in Requests :
        AliasCacheKey(r1) = AliasCacheKey(r2) =>
            /\ BuildAliasMap(r1) = BuildAliasMap(r2)
            /\ r1 \in Unbuildable <=> r2 \in Unbuildable

ServicePhase(p) ==
    CASE p = "idle" -> "idle" [] p = "done" -> "answered" [] OTHER -> "asked"

Service ==
    INSTANCE AliasMapService WITH
        Built <- BuildAliasMap,
        phase <- [t \in Threads |-> ServicePhase(pc[t])],
        request <- req,
        failed <- [t \in Threads |-> outcome[t] = "error"],
        reply <- [t \in Threads |->
                     IF pc[t] = "done" /\ outcome[t] # "error"
                     THEN maps[aliasMap[t]] ELSE {}]

(* Every behaviour of the cached CreateAliasMap is one of AliasMapService.  *)
CacheIsTransparent == Service!ServiceSpec
=============================================================================
