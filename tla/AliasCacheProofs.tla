-------------------------- MODULE AliasCacheProofs --------------------------
(***************************************************************************)
(* Proofs about AliasCache, for any goroutines, requests and limits.       *)
(***************************************************************************)
EXTENDS AliasCache, FiniteSetTheorems, TLAPS

-----------------------------------------------------------------------------
(* Sizes of sets of entries.                                               *)

(* Entries split in two parts: the bytes of the whole are those of the     *)
(* parts.  This is what sweeps and deletions rely on.                      *)
LEMMA BytesSplit ==
    ASSUME NEW f, NEW m, IsFiniteSet(Cells(f, m)), NEW S, S \subseteq DOMAIN f
    PROVE  /\ BytesOf(f, m) \in Nat
           /\ IsFiniteSet(Cells(Restricted(f, S), m))
           /\ BytesOf(Restricted(f, S), m) \in Nat
           /\ BytesOf(Restricted(f, DOMAIN f \ S), m) \in Nat
           /\ IsFiniteSet(Cells(Restricted(f, DOMAIN f \ S), m))
           /\ BytesOf(f, m) = BytesOf(Restricted(f, S), m)
                              + BytesOf(Restricted(f, DOMAIN f \ S), m)
  <1> DEFINE A == Cells(Restricted(f, S), m)
             B == Cells(Restricted(f, DOMAIN f \ S), m)
  <1>1. A \cup B = Cells(f, m) /\ A \cap B = {}
    BY DEF Cells, Restricted
  <1>2. IsFiniteSet(A) /\ IsFiniteSet(B)
    BY <1>1, FS_Subset
  <1>3. Cardinality(A \cap B) = 0
    BY <1>1, FS_EmptySet
  <1>4. Cardinality(A \cup B) = Cardinality(A) + Cardinality(B) - Cardinality(A \cap B)
    BY <1>2, FS_Union
  <1>5. Cardinality(A) \in Nat /\ Cardinality(B) \in Nat
    BY <1>2, FS_CardinalityType
  <1>6. Cardinality(Cells(f, m)) = Cardinality(A) + Cardinality(B)
    <2> HIDE DEF A, B
    <2>1. Cardinality(A \cup B) = Cardinality(Cells(f, m))
      BY <1>1
    <2> QED
      BY <2>1, <1>3, <1>4, <1>5
  <1> QED
    BY <1>2, <1>5, <1>6 DEF BytesOf

(* One entry takes the size of its map. *)
LEMMA BytesOfOne ==
    ASSUME NEW k, NEW am, IsFiniteSet(am)
    PROVE  /\ IsFiniteSet({k} \X am)
           /\ Cardinality({k} \X am) = Cardinality(am)
           /\ Cardinality(am) \in Nat
  <1>1. IsFiniteSet({k}) /\ Cardinality({k}) = 1
    BY FS_Singleton
  <1>2. /\ IsFiniteSet({k} \X am)
        /\ Cardinality({k} \X am) = Cardinality({k}) * Cardinality(am)
    BY <1>1, FS_Product
  <1>3. Cardinality(am) \in Nat
    BY FS_CardinalityType
  <1> QED
    BY <1>1, <1>2, <1>3

(* What the entry under one key takes, if there is one.                    *)
LEMMA BytesUnderKey ==
    ASSUME NEW f, NEW k, NEW m, k \in DOMAIN f => IsFiniteSet(m[f[k].aliasMap])
    PROVE  BytesOf(Restricted(f, DOMAIN f \cap {k}), m) =
              IF k \in DOMAIN f THEN Cardinality(m[f[k].aliasMap]) ELSE 0
  <1> DEFINE one == Restricted(f, DOMAIN f \cap {k})
  <1>1. CASE k \in DOMAIN f
    <2>1. Cells(one, m) = {k} \X m[f[k].aliasMap]
      BY <1>1 DEF Cells, Restricted
    <2> QED
      BY <1>1, <2>1, BytesOfOne DEF BytesOf
  <1>2. CASE k \notin DOMAIN f
    <2>1. Cells(one, m) = {}
      BY <1>2 DEF Cells, Restricted
    <2> QED
      BY <1>2, <2>1, FS_EmptySet DEF BytesOf
  <1> QED
    BY <1>1, <1>2

(* Only the maps that the entries point to count.                          *)
LEMMA CellsDependOn ==
    ASSUME NEW f, NEW g, NEW m, NEW n, DOMAIN f = DOMAIN g,
           \A k \in DOMAIN f : m[f[k].aliasMap] = n[g[k].aliasMap]
    PROVE  Cells(f, m) = Cells(g, n)
  <1>1. \A k \in DOMAIN f : {k} \X m[f[k].aliasMap] = {k} \X n[g[k].aliasMap]
    OBVIOUS
  <1> QED
    BY <1>1 DEF Cells
-----------------------------------------------------------------------------
(* Facts about requests: their keys, their maps, and that maps are finite. *)
LEMMA RequestFacts ==
    ASSUME NEW r \in Requests
    PROVE  /\ AliasCacheKey(r) \in Keys
           /\ BuildAliasMap(r) \in AliasMaps
           /\ IsFiniteSet(BuildAliasMap(r))
           /\ MadeFor(BuildAliasMap(r), r)
  <1>1. IsFiniteSet(r.fields \cup r.filters)
    BY RequestsAssumption, FS_Union
  <1>2. IsFiniteSet((r.fields \cup r.filters) \cup r.sorts)
    BY <1>1, RequestsAssumption, FS_Union
  <1>3. BuildAliasMap(r) \in AliasMaps
    BY DEF AliasMaps
  <1> QED
    BY <1>2, <1>3 DEF Keys, BuildAliasMap, MadeFor

(* The estimate of a map in memory is its number of paths.                 *)
LEMMA EstimateFacts ==
    ASSUME IndInv, NEW a \in Addresses
    PROVE  /\ EstimateAliasMapBytes(a) = Cardinality(maps[a])
           /\ EstimateAliasMapBytes(a) \in Nat
           /\ IsFiniteSet(maps[a])
           /\ a # NoMap
  <1>1. a # NoMap
    BY AddressAssumption DEF NoMap
  <1>2. IsFiniteSet(maps[a])
    BY DEF IndInv, CountInv
  <1> QED
    BY <1>1, <1>2, FS_CardinalityType DEF EstimateAliasMapBytes
-----------------------------------------------------------------------------
(* IndInv in three parts: what it says of the cache, of the goroutines,    *)
(* and of who shares a map.                                                *)
CacheInv ==
    /\ clock \in Nat
    /\ DOMAIN items \subseteq Keys
    /\ items \in [DOMAIN items -> Entries]
    /\ lastSweep \in Nat /\ lastSweep <= clock
    /\ totalBytes \in Int /\ grown \in Nat /\ lost \in Nat
    /\ maps \in [Addresses -> AliasMaps]
    /\ \A k \in DOMAIN items : items[k].lastUsed <= clock
    /\ SweptClean
    /\ CountInv
    /\ EntriesHaveKey

GoroutineInv ==
    /\ pc \in [Threads -> {"idle", "get", "build", "set", "done"}]
    /\ req \in [Threads -> Requests]
    /\ stamp \in [Threads -> Nat]
    /\ aliasMap \in [Threads -> Addresses \cup {NoMap}]
    /\ outcome \in [Threads -> Outcomes]
    /\ \A t \in Threads : stamp[t] <= clock
    /\ \A t \in Threads : pc[t] \in {"get", "set"} => clock - stamp[t] <= MaxWait
    /\ ThreadInv
    /\ ServedMapHasKey

LEMMA IndInvParts == IndInv <=> CacheInv /\ GoroutineInv /\ SharedByKey
  BY DEF IndInv, CacheInv, GoroutineInv, TypeOK, ClockInv

LEMMA IndInvPartsPrimed == IndInv' <=> CacheInv' /\ GoroutineInv' /\ SharedByKey'
  BY DEF IndInv, CacheInv, GoroutineInv, TypeOK, ClockInv

(* The maps in the cache are what they were. *)
CachedMapsKept ==
    /\ maps' \in [Addresses -> AliasMaps]
    /\ \A a \in Addresses : IsFiniteSet(maps'[a])
    /\ \A k \in DOMAIN items' : maps'[items'[k].aliasMap] = maps[items'[k].aliasMap]

(* So are those in the hands of goroutines. *)
HeldMapsKept ==
    \A t \in Threads : aliasMap'[t] \in Addresses => maps'[aliasMap'[t]] = maps[aliasMap'[t]]

(* The garbage collector takes nothing that is in use. *)
LEMMA OnlyGarbage ==
    ASSUME IndInv, CollectGarbage, items' \in [DOMAIN items' -> Entries]
    PROVE  CachedMapsKept /\ HeldMapsKept
  <1>1. /\ maps \in [Addresses -> AliasMaps]
        /\ \A a \in Addresses : IsFiniteSet(maps[a])
    BY DEF IndInv, TypeOK, CountInv
  <1>2. /\ DOMAIN maps' = Addresses
        /\ maps' = [a \in Addresses |-> maps'[a]]
        /\ \A a \in Addresses : maps'[a] \in {maps[a], {}}
        /\ \A a \in Addresses : a \in Live' => maps'[a] = maps[a]
    BY DEF CollectGarbage
  <1>3. {} \in AliasMaps /\ IsFiniteSet({})
    BY FS_EmptySet DEF AliasMaps
  <1>4. \A a \in Addresses : maps'[a] \in AliasMaps /\ IsFiniteSet(maps'[a])
    BY <1>1, <1>2, <1>3
  <1>5. \A k \in DOMAIN items' : items'[k].aliasMap \in Addresses \cap Live'
    BY DEF Entries, Live, Cached
  <1>6. \A t \in Threads : aliasMap'[t] \in Live'
    BY DEF Live
  <1> QED
    BY <1>2, <1>4, <1>5, <1>6 DEF CachedMapsKept, HeldMapsKept
-----------------------------------------------------------------------------
(* What maybeSweepLocked leaves behind: entries unchanged, none of them    *)
(* idle past TTL at the new sweep time, and a count that is as wrong as it *)
(* was.                                                                    *)
LEMMA SweepFacts ==
    ASSUME IndInv, NEW now \in Nat, now <= clock, NEW kept, kept = KeptItems(now)
    PROVE  /\ DOMAIN kept \subseteq DOMAIN items
           /\ \A k \in DOMAIN kept : kept[k] = items[k]
           /\ kept = [k \in DOMAIN kept |-> kept[k]]
           /\ IsFiniteSet(Cells(kept, maps))
           /\ BytesOf(kept, maps) \in Nat
           /\ KeptBytes(now) \in Int
           /\ KeptBytes(now) + grown = BytesOf(kept, maps) + lost
           /\ MaxBytes > 0 => KeptBytes(now) <= MaxBytes
           /\ \A k \in DOMAIN items \ DOMAIN kept : clock - items[k].lastUsed > TTL
  <1> DEFINE S == SweptKeys(now)
  <1>1. S \subseteq DOMAIN items
    BY DEF SweptKeys
  <1>2. /\ IsFiniteSet(Cells(items, maps))
        /\ totalBytes + grown = BytesOf(items, maps) + lost
        /\ totalBytes \in Int /\ grown \in Nat /\ lost \in Nat /\ MaxBytes \in Int
        /\ MaxBytes > 0 => totalBytes <= MaxBytes
    BY TimeAssumption DEF IndInv, CountInv, CountDriftExplained, CachedBytes, TypeOK
  <1>3. kept = Restricted(items, DOMAIN items \ S)
    BY DEF KeptItems
  <1>4. /\ DOMAIN kept = DOMAIN items \ S
        /\ \A k \in DOMAIN kept : kept[k] = items[k]
        /\ kept = [k \in DOMAIN kept |-> kept[k]]
    BY <1>3 DEF Restricted
  <1>6. /\ BytesOf(Restricted(items, S), maps) \in Nat
        /\ BytesOf(kept, maps) \in Nat
        /\ IsFiniteSet(Cells(kept, maps))
        /\ BytesOf(items, maps) = BytesOf(Restricted(items, S), maps) + BytesOf(kept, maps)
    <2> HIDE DEF S
    <2> QED
      BY <1>1, <1>2, <1>3, BytesSplit
  <1>7. KeptBytes(now) = totalBytes - BytesOf(Restricted(items, S), maps)
    BY DEF KeptBytes
  <1>8. /\ KeptBytes(now) \in Int
        /\ KeptBytes(now) + grown = BytesOf(kept, maps) + lost
        /\ MaxBytes > 0 => KeptBytes(now) <= MaxBytes
    <2> HIDE DEF S
    <2> QED
      BY <1>2, <1>6, <1>7
  <1>9. ASSUME NEW k \in DOMAIN items \ DOMAIN kept
        PROVE  clock - items[k].lastUsed > TTL
    <2>1. now - items[k].lastUsed > TTL
      BY <1>4, <1>9 DEF SweptKeys, Expired
    <2>2. items[k].lastUsed \in Nat /\ clock \in Nat /\ TTL \in Nat
      BY TimeAssumption DEF IndInv, TypeOK, Entries
    <2> QED
      BY <2>1, <2>2
  <1> QED
    BY <1>4, <1>6, <1>8, <1>9

(* The sweep time after maybeSweepLocked. *)
LEMMA SweepTime ==
    ASSUME IndInv, NEW now \in Nat, now <= clock, MaybeSweepLocked(now)
    PROVE  /\ lastSweep' \in Nat
           /\ lastSweep' <= clock
           /\ \A k \in DOMAIN KeptItems(now) : lastSweep' - items[k].lastUsed <= TTL
  <1>1. lastSweep \in Nat /\ lastSweep <= clock /\ TTL \in Nat
    BY TimeAssumption DEF IndInv, TypeOK, ClockInv
  <1>2. ASSUME NEW k \in DOMAIN KeptItems(now)
        PROVE  lastSweep' - items[k].lastUsed <= TTL
    <2>1. k \in DOMAIN items /\ items[k].lastUsed \in Nat
      BY DEF IndInv, TypeOK, Entries, KeptItems, Restricted
    <2>2. CASE SweepDue(now)
      <3>1. lastSweep' = now /\ ~Expired(items[k], now)
        BY <2>2, <2>1 DEF MaybeSweepLocked, KeptItems, Restricted, SweptKeys
      <3> QED
        BY <3>1, <2>1, <1>1 DEF Expired
    <2>3. CASE ~SweepDue(now)
      BY <2>3, <2>1 DEF MaybeSweepLocked, IndInv, SweptClean
    <2> QED
      BY <2>2, <2>3
  <1> QED
    BY <1>1, <1>2 DEF MaybeSweepLocked
-----------------------------------------------------------------------------
(* A critical section that drops entries, or marks some as used now, keeps *)
(* the cache's invariant: get in its three cases, and a set that refuses.  *)
(* What it drops beyond the sweep is lost to the count.                    *)
LEMMA CacheShrinks ==
    ASSUME IndInv, NEW now \in Nat, now <= clock, clock - now <= MaxWait,
           MaybeSweepLocked(now), NEW drop,
           DOMAIN items' = DOMAIN KeptItems(now) \ drop,
           items' \in [DOMAIN items' -> Entries],
           \A k \in DOMAIN items' :
               /\ items'[k].aliasMap = items[k].aliasMap
               /\ items'[k].lastUsed \in {items[k].lastUsed, now},
           totalBytes' = KeptBytes(now),
           lost' = lost + BytesOf(Restricted(KeptItems(now), DOMAIN KeptItems(now) \cap drop), maps),
           clock' = clock, grown' = grown, CachedMapsKept
    PROVE  CacheInv'
  <1> DEFINE kept == KeptItems(now)
             left == Restricted(kept, DOMAIN kept \ drop)
             gone == Restricted(kept, DOMAIN kept \cap drop)
  <1>1. /\ DOMAIN kept \subseteq DOMAIN items
        /\ \A k \in DOMAIN kept : kept[k] = items[k]
        /\ IsFiniteSet(Cells(kept, maps))
        /\ KeptBytes(now) \in Int
        /\ KeptBytes(now) + grown = BytesOf(kept, maps) + lost
        /\ MaxBytes > 0 => KeptBytes(now) <= MaxBytes
    BY SweepFacts
  <1>2. /\ lastSweep' \in Nat /\ lastSweep' <= clock
        /\ \A k \in DOMAIN kept : lastSweep' - items[k].lastUsed <= TTL
    BY SweepTime
  <1>3. /\ clock \in Nat /\ TTL \in Nat /\ MaxWait \in Nat /\ MaxWait <= TTL
        /\ grown \in Nat /\ lost \in Nat
        /\ DOMAIN items \subseteq Keys
    BY TimeAssumption DEF IndInv, TypeOK
  <1>4. \A k \in DOMAIN items' : items'[k].lastUsed <= clock
    BY <1>1 DEF IndInv, ClockInv
  <1>5. SweptClean'
    <2> SUFFICES ASSUME NEW k \in DOMAIN items'
                 PROVE  lastSweep' - items'[k].lastUsed <= TTL
      BY DEF SweptClean
    <2>1. CASE items'[k].lastUsed = items[k].lastUsed
      BY <2>1, <1>2
    <2>2. CASE items'[k].lastUsed = now
      BY <2>2, <1>2, <1>3
    <2> QED
      BY <2>1, <2>2
  <1>6. Cells(items', maps') = Cells(left, maps)
    <2>1. DOMAIN items' = DOMAIN left
      BY DEF Restricted
    <2>2. ASSUME NEW k \in DOMAIN items'
          PROVE  maps'[items'[k].aliasMap] = maps[left[k].aliasMap]
      <3>1. maps'[items'[k].aliasMap] = maps[items'[k].aliasMap]
        BY DEF CachedMapsKept
      <3>2. left[k] = items[k]
        BY <1>1, <2>1 DEF Restricted
      <3> QED
        BY <3>1, <3>2
    <2> HIDE DEF left
    <2> QED
      BY <2>1, <2>2, CellsDependOn
  <1>7. /\ IsFiniteSet(Cells(left, maps))
        /\ BytesOf(left, maps) \in Nat /\ BytesOf(gone, maps) \in Nat
        /\ BytesOf(kept, maps) = BytesOf(gone, maps) + BytesOf(left, maps)
    <2>1. DOMAIN kept \ (DOMAIN kept \cap drop) = DOMAIN kept \ drop
      OBVIOUS
    <2>2. DOMAIN kept \cap drop \subseteq DOMAIN kept
      OBVIOUS
    <2> HIDE DEF kept
    <2> QED
      BY <1>1, <2>1, <2>2, BytesSplit
  <1>8. /\ lost' = lost + BytesOf(gone, maps) /\ lost' \in Nat
        /\ totalBytes' \in Int
    BY <1>1, <1>3, <1>7
  <1>9. totalBytes' + grown' = BytesOf(items', maps') + lost'
    <2>1. BytesOf(items', maps') = BytesOf(left, maps)
      BY <1>6 DEF BytesOf
    <2> HIDE DEF left, gone, kept
    <2> QED
      BY <1>1, <1>3, <1>7, <1>8, <2>1
  <1>10. CountInv'
    <2>1. MaxBytes > 0 => totalBytes' <= MaxBytes
      BY <1>1
    <2>2. IsFiniteSet(Cells(items', maps'))
      BY <1>6, <1>7
    <2>3. \A a \in Addresses : IsFiniteSet(maps'[a])
      BY DEF CachedMapsKept
    <2> QED
      BY <1>9, <2>1, <2>2, <2>3 DEF CountInv, CountDriftExplained, CachedBytes
  <1>11. EntriesHaveKey'
    <2> SUFFICES ASSUME NEW k \in DOMAIN items'
                 PROVE  \E r \in Requests \ Unbuildable :
                           AliasCacheKey(r) = k /\ MadeFor(maps'[items'[k].aliasMap], r)
      BY DEF EntriesHaveKey
    <2>1. k \in DOMAIN items /\ maps'[items'[k].aliasMap] = maps[items[k].aliasMap]
      BY <1>1 DEF CachedMapsKept
    <2> QED
      BY <2>1 DEF IndInv, EntriesHaveKey
  <1>12. maps' \in [Addresses -> AliasMaps] /\ grown' \in Nat
    BY <1>3 DEF CachedMapsKept
  <1> QED
    BY <1>1, <1>2, <1>3, <1>4, <1>5, <1>8, <1>10, <1>11, <1>12 DEF CacheInv

(* Outside the critical sections and the metrics, the cache and its maps   *)
(* are left alone.                                                         *)
LEMMA CacheUntouched ==
    ASSUME IndInv, UNCHANGED <<items, lastSweep, totalBytes, grown, lost>>,
           clock' \in {clock, clock + 1}, CachedMapsKept
    PROVE  CacheInv'
  <1>1. CacheInv /\ clock \in Nat
    BY IndInvParts DEF CacheInv
  <1>2. Cells(items', maps') = Cells(items, maps)
    <2>1. \A k \in DOMAIN items' : maps'[items'[k].aliasMap] = maps[items[k].aliasMap]
      BY DEF CachedMapsKept
    <2> QED
      BY <2>1, CellsDependOn
  <1>3. CountInv'
    <2>1. \A a \in Addresses : IsFiniteSet(maps'[a])
      BY DEF CachedMapsKept
    <2> QED
      BY <1>1, <1>2, <2>1 DEF CacheInv, CountInv, CountDriftExplained, CachedBytes, BytesOf
  <1>4. EntriesHaveKey'
    <2>1. \A k \in DOMAIN items' : maps'[items'[k].aliasMap] = maps[items[k].aliasMap]
      BY DEF CachedMapsKept
    <2> QED
      BY <1>1, <2>1 DEF CacheInv, EntriesHaveKey
  <1>5. SweptClean'
    BY <1>1 DEF CacheInv, SweptClean
  <1>6. /\ clock' \in Nat /\ lastSweep' <= clock'
        /\ \A k \in DOMAIN items' : items'[k].lastUsed <= clock'
    BY <1>1 DEF CacheInv, Entries
  <1>7. maps' \in [Addresses -> AliasMaps]
    BY DEF CachedMapsKept
  <1> QED
    BY <1>1, <1>3, <1>4, <1>5, <1>6, <1>7 DEF CacheInv

(* A set that stores its map keeps the cache's invariant: the entry it     *)
(* replaces is subtracted once, at the size it has now, and the count with *)
(* the new map was tested against the limit.                               *)
LEMMA CacheStores ==
    ASSUME IndInv, NEW t \in Threads, SetStores(t)
    PROVE  CacheInv' /\ CachedMapsKept /\ HeldMapsKept
  <1> DEFINE now == stamp[t]
             key == AliasCacheKey(req[t])
             am == aliasMap[t]
             size == EstimateAliasMapBytes(am)
             kept == KeptItems(now)
             others == Restricted(kept, DOMAIN kept \ {key})
             old == Restricted(kept, DOMAIN kept \cap {key})
             replaced == IF key \in DOMAIN kept
                         THEN EstimateAliasMapBytes(kept[key].aliasMap) ELSE 0
  <1>1. /\ pc[t] = "set" /\ now \in Nat /\ now <= clock /\ clock - now <= MaxWait
        /\ req[t] \in Requests \ Unbuildable /\ maps[am] = BuildAliasMap(req[t])
        /\ am \in Addresses
        /\ clock \in Nat /\ clock' = clock
    BY DEF SetStores, IndInv, TypeOK, ClockInv, ThreadInv
  <1>2. /\ DOMAIN kept \subseteq DOMAIN items
        /\ \A k \in DOMAIN kept : kept[k] = items[k]
        /\ IsFiniteSet(Cells(kept, maps))
        /\ KeptBytes(now) \in Int
        /\ KeptBytes(now) + grown = BytesOf(kept, maps) + lost
        /\ MaxBytes > 0 => KeptBytes(now) <= MaxBytes
    BY <1>1, SweepFacts
  <1>3. /\ lastSweep' \in Nat /\ lastSweep' <= clock
        /\ \A k \in DOMAIN kept : lastSweep' - items[k].lastUsed <= TTL
    BY <1>1, SweepTime DEF SetStores
  <1>4. /\ TTL \in Nat /\ MaxWait \in Nat /\ MaxWait <= TTL /\ MaxBytes \in Int
        /\ grown \in Nat /\ lost \in Nat /\ grown' = grown /\ lost' = lost
        /\ DOMAIN items \subseteq Keys /\ items \in [DOMAIN items -> Entries]
    BY TimeAssumption DEF IndInv, TypeOK, SetStores, history
  <1>5. /\ key \in Keys /\ IsFiniteSet(maps[am])
        /\ size = Cardinality(maps[am]) /\ size \in Nat
        /\ MadeFor(maps[am], req[t])
    BY <1>1, RequestFacts, EstimateFacts
  <1>6. /\ DOMAIN items' = DOMAIN kept \cup {key}
        /\ items'[key] = [aliasMap |-> am, lastUsed |-> now]
        /\ \A k \in DOMAIN kept \ {key} : items'[k] = items[k]
        /\ items' = [k \in DOMAIN items' |-> items'[k]]
        /\ totalBytes' = KeptBytes(now) - replaced + size
        /\ MaxBytes > 0 => KeptBytes(now) + size <= MaxBytes
    BY <1>2, <1>4, <1>5 DEF SetStores, OverLimit
  <1>7. DOMAIN items' \subseteq Keys /\ items' \in [DOMAIN items' -> Entries]
    <2>1. \A k \in DOMAIN items' : items'[k] \in Entries
      BY <1>1, <1>2, <1>4, <1>6 DEF Entries
    <2> QED
      BY <1>2, <1>4, <1>5, <1>6, <2>1
  <1>8. CachedMapsKept /\ HeldMapsKept
    BY <1>7, OnlyGarbage DEF SetStores
  <1>9. \A k \in DOMAIN items' : items'[k].lastUsed <= clock
    BY <1>1, <1>2, <1>6 DEF IndInv, ClockInv
  <1>10. SweptClean'
    <2> SUFFICES ASSUME NEW k \in DOMAIN items'
                 PROVE  lastSweep' - items'[k].lastUsed <= TTL
      BY DEF SweptClean
    <2>1. CASE k = key
      BY <2>1, <1>1, <1>3, <1>4, <1>6
    <2>2. CASE k # key
      BY <2>2, <1>3, <1>6
    <2> QED
      BY <2>1, <2>2
  <1>11. /\ IsFiniteSet(Cells(others, maps))
         /\ BytesOf(old, maps) \in Nat /\ BytesOf(others, maps) \in Nat
         /\ BytesOf(kept, maps) = BytesOf(old, maps) + BytesOf(others, maps)
    <2>1. DOMAIN kept \ {key} = DOMAIN kept \ (DOMAIN kept \cap {key})
      OBVIOUS
    <2>2. DOMAIN kept \cap {key} \subseteq DOMAIN kept
      OBVIOUS
    <2> HIDE DEF kept
    <2> QED
      BY <1>2, <2>1, <2>2, BytesSplit
  <1>12. BytesOf(old, maps) = replaced /\ replaced \in Nat
    <2>1. key \in DOMAIN kept => kept[key].aliasMap \in Addresses
      BY <1>2, <1>4 DEF Entries
    <2>2. key \in DOMAIN kept =>
             /\ IsFiniteSet(maps[kept[key].aliasMap])
             /\ EstimateAliasMapBytes(kept[key].aliasMap) = Cardinality(maps[kept[key].aliasMap])
             /\ EstimateAliasMapBytes(kept[key].aliasMap) \in Nat
      BY <2>1, EstimateFacts
    <2> HIDE DEF kept, key
    <2>3. BytesOf(old, maps) =
             IF key \in DOMAIN kept THEN Cardinality(maps[kept[key].aliasMap]) ELSE 0
      BY <2>2, BytesUnderKey
    <2> QED
      BY <2>2, <2>3
  <1>13. /\ IsFiniteSet(Cells(items', maps'))
         /\ BytesOf(items', maps') = BytesOf(others, maps) + size
    <2> DEFINE S == DOMAIN items' \ {key}
               rest == Restricted(items', S)
               one == Restricted(items', DOMAIN items' \cap {key})
    <2>1. Cells(rest, maps') = Cells(others, maps)
      <3>1. DOMAIN rest = DOMAIN others
        BY <1>6 DEF Restricted
      <3>2. ASSUME NEW k \in DOMAIN rest
            PROVE  maps'[rest[k].aliasMap] = maps[others[k].aliasMap]
        <4>1. k \in DOMAIN kept \ {key} /\ k \in DOMAIN items'
          BY <1>6 DEF Restricted
        <4>2. rest[k] = items'[k] /\ others[k] = kept[k]
          BY <4>1 DEF Restricted
        <4>3. items'[k] = items[k] /\ kept[k] = items[k]
          BY <4>1, <1>2, <1>6
        <4>4. maps'[items'[k].aliasMap] = maps[items'[k].aliasMap]
          BY <4>1, <1>8 DEF CachedMapsKept
        <4> QED
          BY <4>2, <4>3, <4>4
      <3> HIDE DEF rest, others
      <3> QED
        BY <3>1, <3>2, CellsDependOn
    <2>2. key \in DOMAIN items' /\ maps'[items'[key].aliasMap] = maps[am]
      BY <1>6, <1>8 DEF CachedMapsKept
    <2>3. BytesOf(one, maps') = size
      <3> HIDE DEF key, am, size
      <3>1. BytesOf(one, maps') = Cardinality(maps'[items'[key].aliasMap])
        BY <2>2, <1>5, BytesUnderKey
      <3> QED
        BY <3>1, <2>2, <1>5
    <2>4. Cells(one, maps') = {key} \X maps[am]
      BY <2>2 DEF Cells, Restricted
    <2>5. Cells(items', maps') = Cells(one, maps') \cup Cells(rest, maps')
      BY DEF Cells, Restricted
    <2>6. IsFiniteSet(Cells(one, maps')) /\ IsFiniteSet(Cells(rest, maps'))
      <3>1. IsFiniteSet({key} \X maps[am])
        <4> HIDE DEF key, am
        <4> QED
          BY <1>5, BytesOfOne
      <3> HIDE DEF one, rest, others
      <3> QED
        BY <3>1, <1>11, <2>1, <2>4
    <2>7. IsFiniteSet(Cells(items', maps'))
      <3> HIDE DEF one, rest
      <3> QED
        BY <2>5, <2>6, FS_Union
    <2>8. /\ BytesOf(items', maps') = BytesOf(one, maps') + BytesOf(rest, maps')
          /\ BytesOf(one, maps') \in Nat /\ BytesOf(rest, maps') \in Nat
      <3>1. DOMAIN items' \ (DOMAIN items' \cap {key}) = S
        OBVIOUS
      <3>2. DOMAIN items' \cap {key} \subseteq DOMAIN items'
        OBVIOUS
      <3> HIDE DEF key
      <3> QED
        BY <2>7, <3>1, <3>2, BytesSplit
    <2>9. BytesOf(rest, maps') = BytesOf(others, maps)
      BY <2>1 DEF BytesOf
    <2> HIDE DEF one, rest, others, size
    <2> QED
      BY <2>3, <2>7, <2>8, <2>9, <1>5
  <1>14. /\ totalBytes' \in Int
         /\ totalBytes' + grown' = BytesOf(items', maps') + lost'
         /\ MaxBytes > 0 => totalBytes' <= MaxBytes
    <2> HIDE DEF replaced, size, others, old, kept, now
    <2> QED
      BY <1>2, <1>4, <1>5, <1>6, <1>11, <1>12, <1>13
  <1>15. CountInv'
    <2>1. \A a \in Addresses : IsFiniteSet(maps'[a])
      BY <1>8 DEF CachedMapsKept
    <2> QED
      BY <1>13, <1>14, <2>1 DEF CountInv, CountDriftExplained, CachedBytes
  <1>16. EntriesHaveKey'
    <2> SUFFICES ASSUME NEW k \in DOMAIN items'
                 PROVE  \E r \in Requests \ Unbuildable :
                           AliasCacheKey(r) = k /\ MadeFor(maps'[items'[k].aliasMap], r)
      BY DEF EntriesHaveKey
    <2>1. maps'[items'[k].aliasMap] = maps[items'[k].aliasMap]
      BY <1>8 DEF CachedMapsKept
    <2>2. CASE k = key
      BY <2>1, <2>2, <1>1, <1>5, <1>6
    <2>3. CASE k # key
      <3>1. k \in DOMAIN items /\ items'[k] = items[k]
        BY <2>3, <1>2, <1>6
      <3> QED
        BY <2>1, <3>1 DEF IndInv, EntriesHaveKey
    <2> QED
      BY <2>2, <2>3
  <1>17. maps' \in [Addresses -> AliasMaps] /\ grown' \in Nat /\ lost' \in Nat
    BY <1>4, <1>8 DEF CachedMapsKept
  <1>18. CacheInv'
    BY <1>1, <1>3, <1>7, <1>9, <1>10, <1>14, <1>15, <1>16, <1>17 DEF CacheInv
  <1> QED
    BY <1>8, <1>18
-----------------------------------------------------------------------------
(* The inductive invariant holds initially and is kept by every step.      *)
LEMMA InitIndInv == Init => IndInv
  <1> SUFFICES ASSUME Init PROVE IndInv
    OBVIOUS
  <1>1. AnyRequest \in Requests
    BY RequestsAssumption DEF AnyRequest
  <1>2. Cells(items, maps) = {}
    BY DEF Init, Cells
  <1>3. IsFiniteSet(Cells(items, maps)) /\ BytesOf(items, maps) = 0
    BY <1>2, FS_EmptySet DEF BytesOf
  <1>4. TypeOK
    BY <1>1 DEF Init, TypeOK, Outcomes, Entries, Never, AliasMaps
  <1>5. ClockInv
    BY TimeAssumption DEF Init, ClockInv, Never
  <1>6. CountInv
    BY <1>3, TimeAssumption, FS_EmptySet DEF Init, CountInv, CountDriftExplained, CachedBytes
  <1>7. SweptClean /\ EntriesHaveKey
    BY DEF Init, SweptClean, EntriesHaveKey
  <1>8. ThreadInv /\ ServedMapHasKey /\ SharedByKey
    BY DEF Init, ThreadInv, ServedMapHasKey, SharedByKey
  <1> QED
    BY <1>4, <1>5, <1>6, <1>7, <1>8 DEF IndInv

(* get, in its three cases, and a set that refuses: what they do to the    *)
(* cache.                                                                  *)
LEMMA CriticalSections ==
    ASSUME IndInv, NEW t \in Threads,
           GetMiss(t) \/ GetExpired(t) \/ GetHit(t) \/ SetRefused(t)
    PROVE  /\ CacheInv' /\ CachedMapsKept /\ HeldMapsKept
           /\ DOMAIN items' \subseteq DOMAIN items
           /\ \A k \in DOMAIN items' : items'[k].aliasMap = items[k].aliasMap
  <1> DEFINE now == stamp[t]
             key == AliasCacheKey(req[t])
             kept == KeptItems(now)
             drop == IF GetExpired(t) THEN {key} ELSE {}
  <1>1. /\ pc[t] \in {"get", "set"} /\ now \in Nat /\ now <= clock
        /\ clock - now <= MaxWait /\ clock' = clock /\ grown' = grown
        /\ MaybeSweepLocked(now) /\ totalBytes' = KeptBytes(now) /\ CollectGarbage
    BY DEF GetMiss, GetExpired, GetHit, SetRefused, IndInv, TypeOK, ClockInv, history
  <1>2. /\ DOMAIN kept \subseteq DOMAIN items
        /\ \A k \in DOMAIN kept : kept[k] = items[k]
        /\ kept = [k \in DOMAIN kept |-> kept[k]]
    BY <1>1, SweepFacts
  <1>3. \A k \in DOMAIN kept : kept[k] \in Entries
    BY <1>2 DEF IndInv, TypeOK
  <1>4. /\ DOMAIN items' = DOMAIN kept \ drop
        /\ items' \in [DOMAIN items' -> Entries]
        /\ \A k \in DOMAIN items' :
               /\ items'[k].aliasMap = items[k].aliasMap
               /\ items'[k].lastUsed \in {items[k].lastUsed, now}
    <2>1. CASE GetMiss(t) \/ SetRefused(t)
      <3>1. items' = kept
        BY <2>1 DEF GetMiss, SetRefused
      <3>2. drop = {}
        BY <2>1 DEF GetMiss, SetRefused, GetExpired
      <3> HIDE DEF kept, drop
      <3> QED
        BY <3>1, <3>2, <1>2, <1>3
    <2>2. CASE GetExpired(t)
      <3>1. items' = Restricted(items, DOMAIN kept \ {key})
        BY <2>2 DEF GetExpired
      <3>2. items' = [k \in DOMAIN kept \ {key} |-> items[k]]
        BY <3>1 DEF Restricted
      <3>3. drop = {key}
        BY <2>2
      <3> HIDE DEF kept, key, drop
      <3> QED
        BY <3>2, <3>3, <1>2, <1>3
    <2>3. CASE GetHit(t)
      <3>1. key \in DOMAIN kept /\ items' = [kept EXCEPT ![key].lastUsed = now]
        BY <2>3 DEF GetHit
      <3>2. drop = {}
        BY <2>3 DEF GetHit, GetExpired
      <3> HIDE DEF kept, key, now, drop
      <3>3. /\ DOMAIN items' = DOMAIN kept
            /\ \A k \in DOMAIN kept \ {key} : items'[k] = items[k]
            /\ items'[key] = [kept[key] EXCEPT !.lastUsed = now]
            /\ items' = [k \in DOMAIN items' |-> items'[k]]
        BY <3>1, <1>2
      <3>4. /\ items'[key] \in Entries
            /\ items'[key].aliasMap = items[key].aliasMap
            /\ items'[key].lastUsed = now
        BY <3>1, <3>3, <1>1, <1>2, <1>3 DEF Entries
      <3> QED
        BY <3>2, <3>3, <3>4, <1>2, <1>3
    <2> QED
      BY <1>1, <2>1, <2>2, <2>3
  <1>5. CachedMapsKept /\ HeldMapsKept
    BY <1>1, <1>4, OnlyGarbage
  <1>6. lost' = lost + BytesOf(Restricted(kept, DOMAIN kept \cap drop), maps)
    <2>1. lost \in Nat
      BY DEF IndInv, TypeOK
    <2>2. CASE GetExpired(t)
      <3>1. key \in DOMAIN kept /\ lost' = lost + EstimateAliasMapBytes(items[key].aliasMap)
        BY <2>2 DEF GetExpired
      <3>2. items[key].aliasMap \in Addresses /\ kept[key] = items[key]
        BY <3>1, <1>2, <1>3 DEF Entries
      <3>3. /\ EstimateAliasMapBytes(items[key].aliasMap) = Cardinality(maps[items[key].aliasMap])
            /\ IsFiniteSet(maps[items[key].aliasMap])
        BY <3>2, EstimateFacts
      <3>4. drop = {key}
        BY <2>2
      <3> HIDE DEF kept, key, drop
      <3>5. BytesOf(Restricted(kept, DOMAIN kept \cap {key}), maps) =
               Cardinality(maps[kept[key].aliasMap])
        BY <3>1, <3>2, <3>3, BytesUnderKey
      <3> QED
        BY <3>1, <3>2, <3>3, <3>4, <3>5
    <2>3. CASE ~GetExpired(t)
      <3>1. lost' = lost
        BY <2>3, <1>1 DEF GetMiss, GetHit, SetRefused, history
      <3>2. Cells(Restricted(kept, DOMAIN kept \cap drop), maps) = {}
        BY <2>3 DEF Cells, Restricted
      <3>3. BytesOf(Restricted(kept, DOMAIN kept \cap drop), maps) = 0
        BY <3>2, FS_EmptySet DEF BytesOf
      <3> HIDE DEF kept, drop
      <3> QED
        BY <2>1, <3>1, <3>3
    <2> QED
      BY <2>2, <2>3
  <1>7. CacheInv'
    <2> HIDE DEF drop
    <2> QED
      BY <1>1, <1>4, <1>5, <1>6, CacheShrinks
  <1> QED
    BY <1>2, <1>4, <1>5, <1>7

(* The paths of a request's metrics are among those its key may add.       *)
LEMMA MetricsAreAdded ==
    ASSUME NEW q \in Requests, NEW r \in Requests, AliasCacheKey(q) = AliasCacheKey(r)
    PROVE  q.metrics \subseteq Added(r)
  BY DEF Added

(* Metrics: the map of t grows by one path, and nothing else changes.  The *)
(* cache holds the map under the key of t, or not at all.                  *)
LEMMA MetricFacts ==
    ASSUME IndInv, NEW t \in Threads, AddMetric(t)
    PROVE  \E p \in req[t].metrics :
              /\ aliasMap[t] \in Addresses /\ p \notin maps[aliasMap[t]]
              /\ maps' = [maps EXCEPT ![aliasMap[t]] = @ \cup {p}]
              /\ UNCHANGED <<items, lastSweep, totalBytes, clock, pc, req, stamp,
                             aliasMap, outcome, lost>>
              /\ grown' = IF aliasMap[t] \in Cached THEN grown + 1 ELSE grown
              /\ maps' \in [Addresses -> AliasMaps]
              /\ \A a \in Addresses : IsFiniteSet(maps'[a])
              /\ \A r \in Requests :
                    AliasCacheKey(r) = AliasCacheKey(req[t]) =>
                       \A m : MadeFor(m, r) => MadeFor(m \cup {p}, r)
  <1>1. PICK p \in req[t].metrics \ (Refused \cup maps[aliasMap[t]]) :
           maps' = [maps EXCEPT ![aliasMap[t]] = @ \cup {p}]
    BY DEF AddMetric
  <1>2. aliasMap[t] \in Addresses /\ req[t] \in Requests
    BY DEF AddMetric, IndInv, TypeOK, ThreadInv, NoMap
  <1>3. maps \in [Addresses -> AliasMaps] /\ \A a \in Addresses : IsFiniteSet(maps[a])
    BY DEF IndInv, TypeOK, CountInv
  <1>4. maps[aliasMap[t]] \cup {p} \in AliasMaps
    <2>1. p \in UNION {BuildAliasMap(r) \cup r.metrics : r \in Requests}
      BY <1>1, <1>2
    <2> QED
      BY <1>2, <1>3, <2>1 DEF AliasMaps
  <1>5. IsFiniteSet(maps[aliasMap[t]] \cup {p})
    BY <1>2, <1>3, FS_AddElement
  <1>6. /\ maps' \in [Addresses -> AliasMaps]
        /\ \A a \in Addresses : IsFiniteSet(maps'[a])
    BY <1>1, <1>2, <1>3, <1>4, <1>5
  <1>7. ASSUME NEW r \in Requests, AliasCacheKey(r) = AliasCacheKey(req[t]),
               NEW m, MadeFor(m, r)
        PROVE  MadeFor(m \cup {p}, r)
    <2>1. p \in Added(r)
      BY <1>1, <1>2, <1>7, MetricsAreAdded
    <2> QED
      BY <1>7, <2>1 DEF MadeFor
  <1>8. /\ UNCHANGED <<items, lastSweep, totalBytes, clock, pc, req, stamp, aliasMap, outcome, lost>>
        /\ grown' = IF aliasMap[t] \in Cached THEN grown + 1 ELSE grown
    BY DEF AddMetric, cacheVars, threadVars
  <1> QED
    BY <1>1, <1>2, <1>6, <1>7, <1>8

LEMMA CacheGrows ==
    ASSUME IndInv, NEW t \in Threads, AddMetric(t)
    PROVE  CacheInv'
  <1> DEFINE am == aliasMap[t]
             key == AliasCacheKey(req[t])
  <1>1. PICK p \in req[t].metrics :
          /\ am \in Addresses /\ p \notin maps[am]
          /\ maps' = [maps EXCEPT ![am] = @ \cup {p}]
          /\ UNCHANGED <<items, lastSweep, totalBytes, clock, req, lost>>
          /\ grown' = IF am \in Cached THEN grown + 1 ELSE grown
          /\ maps' \in [Addresses -> AliasMaps]
          /\ \A a \in Addresses : IsFiniteSet(maps'[a])
          /\ \A r \in Requests : AliasCacheKey(r) = key =>
                \A m : MadeFor(m, r) => MadeFor(m \cup {p}, r)
    BY MetricFacts
  <1>2. CacheInv
    BY IndInvParts
  <1>3. /\ IsFiniteSet(Cells(items, maps))
        /\ totalBytes + grown = BytesOf(items, maps) + lost
        /\ totalBytes \in Int /\ grown \in Nat /\ lost \in Nat
        /\ MaxBytes > 0 => totalBytes <= MaxBytes
        /\ items \in [DOMAIN items -> Entries]
        /\ maps \in [Addresses -> AliasMaps]
    BY <1>2 DEF CacheInv, CountInv, CountDriftExplained, CachedBytes
  <1>4. \A k \in DOMAIN items : items[k].aliasMap = am => k = key
    BY DEF IndInv, SharedByKey
  <1>5. \A a \in Addresses : maps'[a] = IF a = am THEN maps[a] \cup {p} ELSE maps[a]
    BY <1>1, <1>3
  <1>6. /\ IsFiniteSet(Cells(items', maps'))
        /\ totalBytes' + grown' = BytesOf(items', maps') + lost'
    <2>1. CASE am \in Cached
      <3>1. key \in DOMAIN items /\ items[key].aliasMap = am
        BY <2>1, <1>4 DEF Cached
      <3>2. Cells(items', maps') = Cells(items, maps) \cup {<<key, p>>}
        <4>1. ASSUME NEW k \in DOMAIN items
              PROVE  {k} \X maps'[items[k].aliasMap] =
                        IF k = key THEN ({k} \X maps[items[k].aliasMap]) \cup {<<key, p>>}
                        ELSE {k} \X maps[items[k].aliasMap]
          <5>1. items[k].aliasMap \in Addresses
            BY <1>3 DEF Entries
          <5>2. maps'[items[k].aliasMap] =
                   IF k = key THEN maps[items[k].aliasMap] \cup {p}
                   ELSE maps[items[k].aliasMap]
            BY <5>1, <1>4, <1>5, <3>1
          <5>3. ASSUME NEW S
                PROVE  {key} \X (S \cup {p}) = ({key} \X S) \cup {<<key, p>>}
            OBVIOUS
          <5> HIDE DEF key, am
          <5>4. CASE k = key
            BY <5>2, <5>3, <5>4
          <5>5. CASE k # key
            BY <5>2, <5>5
          <5> QED
            BY <5>4, <5>5
        <4> HIDE DEF key, am
        <4>2. items' = items
          BY <1>1
        <4> QED
          BY <3>1, <4>1, <4>2 DEF Cells
      <3>3. <<key, p>> \notin Cells(items, maps)
        BY <1>1, <3>1 DEF Cells
      <3>4. /\ IsFiniteSet(Cells(items, maps) \cup {<<key, p>>})
            /\ Cardinality(Cells(items, maps) \cup {<<key, p>>}) = Cardinality(Cells(items, maps)) + 1
        BY <1>3, <3>3, FS_AddElement
      <3>5. Cardinality(Cells(items, maps)) \in Nat
        BY <1>3, FS_CardinalityType
      <3>6. grown' = grown + 1 /\ totalBytes' = totalBytes /\ lost' = lost
        BY <1>1, <2>1
      <3>7. /\ BytesOf(items', maps') = Cardinality(Cells(items, maps)) + 1
            /\ BytesOf(items, maps) = Cardinality(Cells(items, maps))
        BY <3>2, <3>4 DEF BytesOf
      <3>8. IsFiniteSet(Cells(items', maps'))
        BY <3>2, <3>4
      <3>9. totalBytes + (grown + 1) = (BytesOf(items, maps) + 1) + lost
        BY <1>3, <3>5, <3>7
      <3> QED
        BY <3>6, <3>7, <3>8, <3>9
    <2>2. CASE am \notin Cached
      <3>1. ASSUME NEW k \in DOMAIN items
            PROVE  maps'[items[k].aliasMap] = maps[items[k].aliasMap]
        <4>1. items[k].aliasMap \in Addresses /\ items[k].aliasMap # am
          BY <1>3, <2>2 DEF Entries, Cached
        <4> QED
          BY <4>1, <1>5
      <3>2. Cells(items, maps) = Cells(items, maps')
        BY <3>1, CellsDependOn
      <3> QED
        BY <1>1, <1>3, <2>2, <3>2 DEF BytesOf
    <2> QED
      BY <2>1, <2>2
  <1>7. CountInv'
    BY <1>1, <1>3, <1>6 DEF CountInv, CountDriftExplained, CachedBytes
  <1>8. EntriesHaveKey'
    <2> SUFFICES ASSUME NEW k \in DOMAIN items
                 PROVE  \E r \in Requests \ Unbuildable :
                           AliasCacheKey(r) = k /\ MadeFor(maps'[items[k].aliasMap], r)
      BY <1>1 DEF EntriesHaveKey
    <2>1. PICK r \in Requests \ Unbuildable :
             AliasCacheKey(r) = k /\ MadeFor(maps[items[k].aliasMap], r)
      BY <1>2 DEF CacheInv, EntriesHaveKey
    <2>2. items[k].aliasMap \in Addresses
      BY <1>3 DEF Entries
    <2>3. CASE items[k].aliasMap = am
      <3>1. MadeFor(maps[am] \cup {p}, r)
        BY <1>1, <1>4, <2>1, <2>3
      <3> QED
        BY <2>1, <2>2, <2>3, <3>1, <1>5
    <2>4. CASE items[k].aliasMap # am
      BY <2>1, <2>2, <2>4, <1>5
    <2> QED
      BY <2>3, <2>4
  <1>9. SweptClean'
    BY <1>1, <1>2 DEF CacheInv, SweptClean
  <1>10. grown' \in Nat /\ lost' \in Nat
    BY <1>1, <1>3
  <1> QED
    BY <1>1, <1>2, <1>7, <1>8, <1>9, <1>10 DEF CacheInv

(* The map that Build makes lies where no other map in use lies.           *)
LEMMA BuildFacts ==
    ASSUME IndInv, NEW t \in Threads, Build(t)
    PROVE  /\ Fresh \in Addresses \ Live
           /\ maps' = [maps EXCEPT ![Fresh] = BuildAliasMap(req[t])]
           /\ maps' \in [Addresses -> AliasMaps]
           /\ aliasMap' = [aliasMap EXCEPT ![t] = Fresh]
           /\ CachedMapsKept
           /\ \A x \in Threads \ {t} : aliasMap[x] \in Addresses => maps'[aliasMap[x]] = maps[aliasMap[x]]
  <1>1. Fresh \in Addresses \ Live
    <2>1. \E a \in Addresses : a \notin Live
      BY DEF Build
    <2> QED
      BY <2>1 DEF Fresh
  <1>2. /\ maps' = [maps EXCEPT ![Fresh] = BuildAliasMap(req[t])]
        /\ aliasMap' = [aliasMap EXCEPT ![t] = Fresh]
        /\ items' = items
    BY DEF Build, cacheVars
  <1>3. /\ maps \in [Addresses -> AliasMaps] /\ \A a \in Addresses : IsFiniteSet(maps[a])
        /\ req[t] \in Requests /\ items \in [DOMAIN items -> Entries]
    BY DEF IndInv, TypeOK, CountInv
  <1>4. BuildAliasMap(req[t]) \in AliasMaps /\ IsFiniteSet(BuildAliasMap(req[t]))
    BY <1>3, RequestFacts
  <1>5. \A a \in Addresses : maps'[a] = IF a = Fresh THEN BuildAliasMap(req[t]) ELSE maps[a]
    BY <1>1, <1>2, <1>3
  <1>6. maps' \in [Addresses -> AliasMaps]
    BY <1>1, <1>2, <1>3, <1>4
  <1>7. \A k \in DOMAIN items : items[k].aliasMap \in Addresses \cap Live
    BY <1>3 DEF Entries, Live, Cached
  <1>8. \A x \in Threads : aliasMap[x] \in Live
    BY DEF Live
  <1>9. \A k \in DOMAIN items' : maps'[items'[k].aliasMap] = maps[items'[k].aliasMap]
    BY <1>1, <1>2, <1>5, <1>7
  <1>10. CachedMapsKept
    BY <1>3, <1>4, <1>5, <1>6, <1>9 DEF CachedMapsKept
  <1>11. \A x \in Threads \ {t} : aliasMap[x] \in Addresses => maps'[aliasMap[x]] = maps[aliasMap[x]]
    BY <1>1, <1>5, <1>8
  <1> QED
    BY <1>1, <1>2, <1>6, <1>10, <1>11
-----------------------------------------------------------------------------
(* One goroutine moves on, and the maps of the others stay.                *)
LEMMA OneMoves ==
    ASSUME GoroutineInv, NEW t \in Threads,
           NEW p \in {"idle", "get", "build", "set", "done"}, pc' = [pc EXCEPT ![t] = p],
           req' \in [Threads -> Requests], stamp' \in [Threads -> Nat],
           aliasMap' \in [Threads -> Addresses \cup {NoMap}],
           outcome' \in [Threads -> Outcomes],
           clock' = clock, clock \in Nat, stamp'[t] <= clock,
           p \in {"get", "set"} => clock - stamp'[t] <= MaxWait,
           \A x \in Threads \ {t} :
               /\ req'[x] = req[x] /\ stamp'[x] = stamp[x]
               /\ aliasMap'[x] = aliasMap[x] /\ outcome'[x] = outcome[x]
               /\ aliasMap[x] \in Addresses => maps'[aliasMap[x]] = maps[aliasMap[x]],
           p = "set" => /\ req'[t] \notin Unbuildable
                        /\ maps'[aliasMap'[t]] = BuildAliasMap(req'[t]),
           aliasMap'[t] = NoMap <=> p \in {"idle", "get", "build"} \/ outcome'[t] = "error",
           outcome'[t] = "error" => req'[t] \in Unbuildable,
           outcome'[t] = "none" <=> p # "done",
           outcome'[t] \in Outcomes \ {"none", "error"} =>
               \E r \in Requests \ Unbuildable :
                  SameRequest(r, req'[t]) /\ MadeFor(maps'[aliasMap'[t]], r)
    PROVE  GoroutineInv'
  <1>1. /\ pc' \in [Threads -> {"idle", "get", "build", "set", "done"}]
        /\ pc'[t] = p
        /\ \A x \in Threads \ {t} : pc'[x] = pc[x]
    BY DEF GoroutineInv
  <1>2. \A x \in Threads \ {t} : aliasMap[x] # NoMap => maps'[aliasMap'[x]] = maps[aliasMap[x]]
    BY DEF GoroutineInv
  <1>3. ThreadInv'
    <2> SUFFICES ASSUME NEW x \in Threads
                 PROVE  /\ pc'[x] = "set" => /\ req'[x] \notin Unbuildable
                                             /\ maps'[aliasMap'[x]] = BuildAliasMap(req'[x])
                        /\ aliasMap'[x] = NoMap <=>
                              pc'[x] \in {"idle", "get", "build"} \/ outcome'[x] = "error"
                        /\ outcome'[x] = "error" => req'[x] \in Unbuildable
                        /\ outcome'[x] = "none" <=> pc'[x] # "done"
      BY DEF ThreadInv
    <2>1. CASE x = t
      BY <2>1, <1>1
    <2>2. CASE x # t
      <3>1. /\ pc[x] = "set" => /\ req[x] \notin Unbuildable
                                /\ maps[aliasMap[x]] = BuildAliasMap(req[x])
            /\ aliasMap[x] = NoMap <=> pc[x] \in {"idle", "get", "build"} \/ outcome[x] = "error"
            /\ outcome[x] = "error" => req[x] \in Unbuildable
            /\ outcome[x] = "none" <=> pc[x] # "done"
        BY DEF GoroutineInv, ThreadInv
      <3>2. pc[x] = "set" => aliasMap[x] # NoMap
        BY <3>1
      <3> QED
        BY <2>2, <3>1, <3>2, <1>1, <1>2
    <2> QED
      BY <2>1, <2>2
  <1>4. ServedMapHasKey'
    <2> SUFFICES ASSUME NEW x \in Threads, outcome'[x] \in Outcomes \ {"none", "error"}
                 PROVE  \E r \in Requests \ Unbuildable :
                           SameRequest(r, req'[x]) /\ MadeFor(maps'[aliasMap'[x]], r)
      BY DEF ServedMapHasKey
    <2>1. CASE x = t
      BY <2>1
    <2>2. CASE x # t
      <3>1. outcome[x] = outcome'[x] /\ aliasMap[x] # NoMap
        BY <2>2 DEF GoroutineInv, ThreadInv
      <3>2. \E r \in Requests \ Unbuildable :
               SameRequest(r, req[x]) /\ MadeFor(maps[aliasMap[x]], r)
        BY <3>1 DEF GoroutineInv, ServedMapHasKey
      <3> QED
        BY <2>2, <3>1, <3>2, <1>2
    <2> QED
      BY <2>1, <2>2
  <1>5. \A x \in Threads : stamp'[x] <= clock'
    BY DEF GoroutineInv
  <1>6. \A x \in Threads : pc'[x] \in {"get", "set"} => clock' - stamp'[x] <= MaxWait
    BY <1>1 DEF GoroutineInv
  <1> QED
    BY <1>1, <1>3, <1>4, <1>5, <1>6 DEF GoroutineInv

(* What a step of goroutine t does to the goroutines: the others are left  *)
(* alone but for metrics added to a map they share, and t ends with a map  *)
(* built for its key, or an error.                                         *)
LEMMA GoroutineSteps ==
    ASSUME IndInv, NEW t \in Threads, CreateAliasMap(t)
    PROVE  GoroutineInv'
  <1>0. /\ GoroutineInv /\ clock \in Nat /\ MaxWait \in Nat
        /\ items \in [DOMAIN items -> Entries] /\ req[t] \in Requests
        /\ stamp[t] \in Nat /\ stamp[t] <= clock
    BY IndInvParts, TimeAssumption DEF IndInv, TypeOK, ClockInv
  <1>1. CASE Call(t)
    <2>1. PICK r \in Requests : req' = [req EXCEPT ![t] = r]
      BY <1>1 DEF Call
    <2>2. /\ pc[t] = "idle" /\ pc' = [pc EXCEPT ![t] = "get"]
          /\ stamp' = [stamp EXCEPT ![t] = clock]
          /\ UNCHANGED <<maps, clock, aliasMap, outcome>>
      BY <1>1 DEF Call
    <2>3. aliasMap[t] = NoMap /\ outcome[t] = "none"
      BY <2>2 DEF IndInv, ThreadInv
    <2>4. /\ req' \in [Threads -> Requests] /\ stamp' \in [Threads -> Nat]
          /\ aliasMap' \in [Threads -> Addresses \cup {NoMap}] /\ outcome' \in [Threads -> Outcomes]
          /\ stamp'[t] = clock
      BY <1>0, <2>1, <2>2 DEF GoroutineInv
    <2>5. \A x \in Threads \ {t} : req'[x] = req[x] /\ stamp'[x] = stamp[x]
      BY <2>1, <2>2 DEF IndInv, TypeOK
    <2> QED
      <3>1. \A x \in Threads \ {t} :
               /\ req'[x] = req[x] /\ stamp'[x] = stamp[x]
               /\ aliasMap'[x] = aliasMap[x] /\ outcome'[x] = outcome[x]
               /\ aliasMap[x] \in Addresses => maps'[aliasMap[x]] = maps[aliasMap[x]]
        BY <2>2, <2>5
      <3>2. aliasMap'[t] = NoMap /\ outcome'[t] = "none" /\ clock - stamp'[t] <= MaxWait
        BY <1>0, <2>2, <2>3, <2>4
      <3>3. stamp'[t] <= clock
        BY <1>0, <2>4
      <3> QED
        BY <1>0, <2>2, <2>4, <3>1, <3>2, <3>3, OneMoves
  <1>2. CASE GetMiss(t) \/ GetExpired(t)
    <2>1. /\ pc[t] = "get" /\ pc' = [pc EXCEPT ![t] = "build"]
          /\ UNCHANGED <<clock, req, stamp, aliasMap, outcome>>
      BY <1>2 DEF GetMiss, GetExpired
    <2>2. HeldMapsKept
      BY <1>2, CriticalSections
    <2>3. aliasMap[t] = NoMap /\ outcome[t] = "none"
      BY <2>1 DEF IndInv, ThreadInv
    <2>4. \A x \in Threads \ {t} :
             aliasMap[x] \in Addresses => maps'[aliasMap[x]] = maps[aliasMap[x]]
      BY <2>1, <2>2 DEF HeldMapsKept
    <2>5. /\ req' \in [Threads -> Requests] /\ stamp' \in [Threads -> Nat]
          /\ aliasMap' \in [Threads -> Addresses \cup {NoMap}] /\ outcome' \in [Threads -> Outcomes]
      BY <1>0, <2>1 DEF GoroutineInv
    <2> QED
      BY <1>0, <2>1, <2>3, <2>4, <2>5, OneMoves
  <1>3. CASE GetHit(t)
    <2> DEFINE key == AliasCacheKey(req[t])
               am == items[key].aliasMap
    <2>1. /\ pc[t] = "get" /\ pc' = [pc EXCEPT ![t] = "done"]
          /\ outcome' = [outcome EXCEPT ![t] = "cached"]
          /\ aliasMap' = [aliasMap EXCEPT ![t] = am]
          /\ UNCHANGED <<clock, req, stamp>>
          /\ key \in DOMAIN items
      BY <1>3 DEF GetHit, KeptItems, Restricted
    <2>2. HeldMapsKept
      BY <1>3, CriticalSections
    <2>3. am \in Addresses /\ am # NoMap
      BY <1>0, <2>1, AddressAssumption DEF Entries, NoMap
    <2>4. PICK r \in Requests \ Unbuildable : AliasCacheKey(r) = key /\ MadeFor(maps[am], r)
      BY <2>1 DEF IndInv, EntriesHaveKey
    <2>5. SameRequest(r, req[t])
      BY <2>4 DEF SameRequest, AliasCacheKey
    <2> HIDE DEF key, am
    <2>6. aliasMap'[t] = am /\ outcome'[t] = "cached"
      BY <2>1 DEF IndInv, TypeOK
    <2>7. maps'[aliasMap'[t]] = maps[am]
      BY <2>2, <2>3, <2>6 DEF HeldMapsKept
    <2>8. /\ req' \in [Threads -> Requests] /\ stamp' \in [Threads -> Nat]
          /\ aliasMap' \in [Threads -> Addresses \cup {NoMap}] /\ outcome' \in [Threads -> Outcomes]
      BY <1>0, <2>1, <2>3 DEF GoroutineInv, Outcomes
    <2>9. \A x \in Threads \ {t} :
             /\ aliasMap'[x] = aliasMap[x] /\ outcome'[x] = outcome[x]
             /\ aliasMap[x] \in Addresses => maps'[aliasMap[x]] = maps[aliasMap[x]]
      BY <2>1, <2>2 DEF HeldMapsKept, IndInv, TypeOK
    <2>10. \E q \in Requests \ Unbuildable :
              SameRequest(q, req'[t]) /\ MadeFor(maps'[aliasMap'[t]], q)
      BY <2>1, <2>4, <2>5, <2>7
    <2> QED
      BY <1>0, <2>1, <2>3, <2>6, <2>8, <2>9, <2>10, OneMoves
  <1>4. CASE BuildFails(t)
    <2>1. /\ pc[t] = "build" /\ pc' = [pc EXCEPT ![t] = "done"] /\ req[t] \in Unbuildable
          /\ outcome' = [outcome EXCEPT ![t] = "error"]
          /\ UNCHANGED <<maps, clock, req, stamp, aliasMap>>
      BY <1>4 DEF BuildFails
    <2>2. aliasMap[t] = NoMap
      BY <2>1 DEF IndInv, ThreadInv
    <2>3. /\ req' \in [Threads -> Requests] /\ stamp' \in [Threads -> Nat]
          /\ aliasMap' \in [Threads -> Addresses \cup {NoMap}] /\ outcome' \in [Threads -> Outcomes]
          /\ outcome'[t] = "error"
      BY <1>0, <2>1 DEF GoroutineInv, Outcomes
    <2>4. \A x \in Threads \ {t} : outcome'[x] = outcome[x]
      BY <2>1 DEF IndInv, TypeOK
    <2> QED
      BY <1>0, <2>1, <2>2, <2>3, <2>4, OneMoves
  <1>5. CASE Build(t)
    <2>1. /\ pc[t] = "build" /\ pc' = [pc EXCEPT ![t] = "set"] /\ req[t] \notin Unbuildable
          /\ stamp' = [stamp EXCEPT ![t] = clock]
          /\ UNCHANGED <<clock, req, outcome>>
      BY <1>5 DEF Build
    <2>2. /\ Fresh \in Addresses
          /\ maps' = [maps EXCEPT ![Fresh] = BuildAliasMap(req[t])]
          /\ aliasMap' = [aliasMap EXCEPT ![t] = Fresh]
          /\ \A x \in Threads \ {t} :
                aliasMap[x] \in Addresses => maps'[aliasMap[x]] = maps[aliasMap[x]]
      BY <1>5, BuildFacts
    <2>3. outcome[t] = "none" /\ Fresh # NoMap
      BY <2>1, <2>2, AddressAssumption DEF IndInv, ThreadInv, NoMap
    <2>4. aliasMap'[t] = Fresh /\ maps'[Fresh] = BuildAliasMap(req[t])
      BY <2>2 DEF IndInv, TypeOK
    <2>5. /\ req' \in [Threads -> Requests] /\ stamp' \in [Threads -> Nat]
          /\ aliasMap' \in [Threads -> Addresses \cup {NoMap}] /\ outcome' \in [Threads -> Outcomes]
          /\ stamp'[t] = clock
      BY <1>0, <2>1, <2>2 DEF GoroutineInv
    <2>6. \A x \in Threads \ {t} : stamp'[x] = stamp[x] /\ aliasMap'[x] = aliasMap[x]
      BY <2>1, <2>2 DEF IndInv, TypeOK
    <2> QED
      <3>1. \A x \in Threads \ {t} :
               /\ req'[x] = req[x] /\ stamp'[x] = stamp[x]
               /\ aliasMap'[x] = aliasMap[x] /\ outcome'[x] = outcome[x]
               /\ aliasMap[x] \in Addresses => maps'[aliasMap[x]] = maps[aliasMap[x]]
        BY <2>1, <2>2, <2>6
      <3>2. /\ aliasMap'[t] # NoMap /\ outcome'[t] = "none"
            /\ clock - stamp'[t] <= MaxWait /\ stamp'[t] <= clock
        BY <1>0, <2>1, <2>3, <2>4, <2>5
      <3>3. req'[t] \notin Unbuildable /\ maps'[aliasMap'[t]] = BuildAliasMap(req'[t])
        BY <2>1, <2>4
      <3> QED
        BY <1>0, <2>1, <2>5, <3>1, <3>2, <3>3, OneMoves
  <1>6. CASE SetRefused(t) \/ SetStores(t)
    <2>1. /\ pc[t] = "set" /\ pc' = [pc EXCEPT ![t] = "done"]
          /\ UNCHANGED <<clock, req, stamp, aliasMap>>
      BY <1>6 DEF SetRefused, SetStores
    <2>2. PICK o \in {"tooLarge", "limit", "stored"} : outcome' = [outcome EXCEPT ![t] = o]
      BY <1>6 DEF SetRefused, SetStores
    <2>3. HeldMapsKept
      BY <1>6, CriticalSections, CacheStores
    <2>4. /\ req[t] \in Requests \ Unbuildable /\ maps[aliasMap[t]] = BuildAliasMap(req[t])
          /\ aliasMap[t] # NoMap /\ aliasMap[t] \in Addresses
      BY <1>0, <2>1 DEF IndInv, ThreadInv, TypeOK
    <2>5. maps'[aliasMap[t]] = BuildAliasMap(req[t])
      BY <2>1, <2>3, <2>4 DEF HeldMapsKept
    <2>6. MadeFor(maps'[aliasMap'[t]], req'[t]) /\ SameRequest(req[t], req'[t])
      BY <2>1, <2>4, <2>5, RequestFacts DEF SameRequest
    <2>7. /\ req' \in [Threads -> Requests] /\ stamp' \in [Threads -> Nat]
          /\ aliasMap' \in [Threads -> Addresses \cup {NoMap}] /\ outcome' \in [Threads -> Outcomes]
          /\ outcome'[t] = o
      BY <1>0, <2>1, <2>2 DEF GoroutineInv, Outcomes
    <2>8. \A x \in Threads \ {t} :
             /\ outcome'[x] = outcome[x]
             /\ aliasMap[x] \in Addresses => maps'[aliasMap[x]] = maps[aliasMap[x]]
      BY <2>1, <2>2, <2>3 DEF HeldMapsKept, IndInv, TypeOK
    <2> QED
      BY <1>0, <2>1, <2>4, <2>6, <2>7, <2>8, OneMoves
  <1>7. CASE AddMetric(t)
    <2> DEFINE am == aliasMap[t]
    <2>1. PICK p \in req[t].metrics :
            /\ am \in Addresses
            /\ maps' = [maps EXCEPT ![am] = @ \cup {p}]
            /\ UNCHANGED <<clock, pc, req, stamp, aliasMap, outcome>>
            /\ \A r \in Requests : AliasCacheKey(r) = AliasCacheKey(req[t]) =>
                  \A m : MadeFor(m, r) => MadeFor(m \cup {p}, r)
      BY <1>7, MetricFacts
    <2>2. \A a \in Addresses : maps'[a] = IF a = am THEN maps[a] \cup {p} ELSE maps[a]
      BY <2>1 DEF IndInv, TypeOK
    <2>3. /\ am # NoMap /\ pc[t] = "done"
          /\ \A x \in Threads : aliasMap[x] = am =>
                AliasCacheKey(req[x]) = AliasCacheKey(req[t]) /\ pc[x] # "set"
      BY <1>7, <2>1, AddressAssumption DEF AddMetric, IndInv, SharedByKey, NoMap
    <2>4. ThreadInv'
      <3> SUFFICES ASSUME NEW x \in Threads, pc[x] = "set"
                   PROVE  maps'[aliasMap[x]] = BuildAliasMap(req[x])
        BY <1>0, <2>1 DEF GoroutineInv, ThreadInv
      <3>1. /\ maps[aliasMap[x]] = BuildAliasMap(req[x]) /\ aliasMap[x] # NoMap
            /\ aliasMap[x] \in Addresses
        BY DEF IndInv, ThreadInv, TypeOK
      <3> QED
        BY <3>1, <2>2, <2>3
    <2>5. ServedMapHasKey'
      <3> SUFFICES ASSUME NEW x \in Threads, outcome[x] \in Outcomes \ {"none", "error"}
                   PROVE  \E r \in Requests \ Unbuildable :
                             SameRequest(r, req[x]) /\ MadeFor(maps'[aliasMap[x]], r)
        BY <2>1 DEF ServedMapHasKey
      <3>1. aliasMap[x] \in Addresses
        BY DEF IndInv, ThreadInv, TypeOK
      <3>2. PICK r \in Requests \ Unbuildable :
               SameRequest(r, req[x]) /\ MadeFor(maps[aliasMap[x]], r)
        BY DEF IndInv, ServedMapHasKey
      <3>3. CASE aliasMap[x] = am
        <4>1. AliasCacheKey(r) = AliasCacheKey(req[t])
          BY <2>3, <3>2, <3>3 DEF SameRequest, AliasCacheKey
        <4>2. MadeFor(maps[am] \cup {p}, r)
          BY <2>1, <3>2, <3>3, <4>1
        <4> QED
          BY <2>2, <3>1, <3>2, <3>3, <4>2
      <3>4. CASE aliasMap[x] # am
        BY <2>2, <3>1, <3>2, <3>4
      <3> QED
        BY <3>3, <3>4
    <2> HIDE DEF am
    <2> QED
      BY <1>0, <2>1, <2>4, <2>5 DEF GoroutineInv
  <1>8. CASE Return(t)
    <2>1. /\ pc' = [pc EXCEPT ![t] = "idle"] /\ req' = [req EXCEPT ![t] = AnyRequest]
          /\ stamp' = [stamp EXCEPT ![t] = Never] /\ aliasMap' = [aliasMap EXCEPT ![t] = NoMap]
          /\ outcome' = [outcome EXCEPT ![t] = "none"]
          /\ clock' = clock /\ items' = items /\ CollectGarbage
      BY <1>8 DEF Return, cacheVars
    <2>2. HeldMapsKept
      BY <1>0, <2>1, OnlyGarbage
    <2>3. AnyRequest \in Requests
      BY RequestsAssumption DEF AnyRequest
    <2>4. /\ req' \in [Threads -> Requests] /\ stamp' \in [Threads -> Nat]
          /\ aliasMap' \in [Threads -> Addresses \cup {NoMap}] /\ outcome' \in [Threads -> Outcomes]
          /\ stamp'[t] = 0 /\ aliasMap'[t] = NoMap /\ outcome'[t] = "none"
      BY <1>0, <2>1, <2>3 DEF GoroutineInv, Outcomes, Never
    <2>5. \A x \in Threads \ {t} :
             /\ req'[x] = req[x] /\ stamp'[x] = stamp[x]
             /\ aliasMap'[x] = aliasMap[x] /\ outcome'[x] = outcome[x]
      BY <2>1 DEF IndInv, TypeOK
    <2>6. \A x \in Threads \ {t} :
             aliasMap[x] \in Addresses => maps'[aliasMap[x]] = maps[aliasMap[x]]
      BY <2>2, <2>5 DEF HeldMapsKept
    <2> QED
      <3>1. \A x \in Threads \ {t} :
               /\ req'[x] = req[x] /\ stamp'[x] = stamp[x]
               /\ aliasMap'[x] = aliasMap[x] /\ outcome'[x] = outcome[x]
               /\ aliasMap[x] \in Addresses => maps'[aliasMap[x]] = maps[aliasMap[x]]
        BY <2>5, <2>6
      <3>2. stamp'[t] <= clock
        BY <1>0, <2>4
      <3> QED
        BY <1>0, <2>1, <2>4, <3>1, <3>2, OneMoves
  <1> QED
    BY <1>1, <1>2, <1>3, <1>4, <1>5, <1>6, <1>7, <1>8 DEF CreateAliasMap
-----------------------------------------------------------------------------
(* Maps are shared only under one key, and not before they are stored.     *)
LEMMA SharingSteps ==
    ASSUME IndInv, NEW t \in Threads, CreateAliasMap(t)
    PROVE  SharedByKey'
  <1>0. /\ items \in [DOMAIN items -> Entries] /\ req[t] \in Requests
        /\ pc \in [Threads -> {"idle", "get", "build", "set", "done"}]
        /\ req \in [Threads -> Requests]
        /\ aliasMap \in [Threads -> Addresses \cup {NoMap}]
        /\ SharedByKey /\ NoMap \notin Addresses
    BY AddressAssumption DEF IndInv, TypeOK, NoMap
  <1>1. \A k \in DOMAIN items : items[k].aliasMap \in Addresses
    BY <1>0 DEF Entries
  <1>2. CASE Call(t)
    <2>1. /\ pc' = [pc EXCEPT ![t] = "get"] /\ \E r \in Requests : req' = [req EXCEPT ![t] = r]
          /\ UNCHANGED <<items, aliasMap>> /\ pc[t] = "idle"
      BY <1>2 DEF Call, cacheVars
    <2>2. aliasMap[t] = NoMap
      BY <2>1 DEF IndInv, ThreadInv
    <2> QED
      BY <1>0, <1>1, <2>1, <2>2 DEF SharedByKey
  <1>3. CASE GetMiss(t) \/ GetExpired(t) \/ SetRefused(t)
    <2>1. /\ DOMAIN items' \subseteq DOMAIN items
          /\ \A k \in DOMAIN items' : items'[k].aliasMap = items[k].aliasMap
      BY <1>3, CriticalSections
    <2>2. /\ UNCHANGED <<req, aliasMap>>
          /\ \E p \in {"build", "done"} : pc' = [pc EXCEPT ![t] = p]
      BY <1>3 DEF GetMiss, GetExpired, SetRefused
    <2>3. \A x \in Threads : pc'[x] = "set" => pc[x] = "set"
      BY <1>0, <2>2
    <2> QED
      BY <1>0, <2>1, <2>2, <2>3 DEF SharedByKey
  <1>4. CASE GetHit(t)
    <2> DEFINE key == AliasCacheKey(req[t])
               am == items[key].aliasMap
    <2>1. /\ DOMAIN items' \subseteq DOMAIN items
          /\ \A k \in DOMAIN items' : items'[k].aliasMap = items[k].aliasMap
      BY <1>4, CriticalSections
    <2>2. /\ req' = req /\ pc' = [pc EXCEPT ![t] = "done"]
          /\ aliasMap' = [aliasMap EXCEPT ![t] = am] /\ key \in DOMAIN items
      BY <1>4 DEF GetHit, KeptItems, Restricted
    <2>3. /\ \A k1, k2 \in DOMAIN items : items[k1].aliasMap = items[k2].aliasMap => k1 = k2
          /\ \A x \in Threads, k \in DOMAIN items :
                aliasMap[x] = items[k].aliasMap => AliasCacheKey(req[x]) = k /\ pc[x] # "set"
      BY <1>0 DEF SharedByKey
    <2>4. /\ \A x \in Threads : pc'[x] = "set" => pc[x] = "set" /\ x # t
          /\ aliasMap'[t] = am /\ \A x \in Threads \ {t} : aliasMap'[x] = aliasMap[x]
      BY <1>0, <2>2
    <2>5. \A x \in Threads, k \in DOMAIN items' :
             aliasMap'[x] = items'[k].aliasMap => AliasCacheKey(req'[x]) = k /\ pc'[x] # "set"
      BY <2>1, <2>2, <2>3, <2>4
    <2>6. ASSUME NEW x \in Threads, NEW y \in Threads, x # y,
                 aliasMap'[x] = aliasMap'[y], aliasMap'[x] # NoMap
          PROVE  AliasCacheKey(req'[x]) = AliasCacheKey(req'[y]) /\ pc'[x] # "set"
      <3>1. CASE x # t /\ y # t
        BY <1>0, <2>2, <2>4, <2>6, <3>1 DEF SharedByKey
      <3>2. CASE x = t
        BY <2>2, <2>3, <2>4, <2>6, <3>2
      <3>3. CASE y = t
        BY <2>2, <2>3, <2>4, <2>6, <3>3
      <3> QED
        BY <3>1, <3>2, <3>3
    <2>7. \A k1, k2 \in DOMAIN items' : items'[k1].aliasMap = items'[k2].aliasMap => k1 = k2
      BY <2>1, <2>3
    <2> QED
      BY <2>5, <2>6, <2>7 DEF SharedByKey
  <1>5. CASE BuildFails(t)
    <2>1. UNCHANGED <<items, req, aliasMap>> /\ pc' = [pc EXCEPT ![t] = "done"]
      BY <1>5 DEF BuildFails, cacheVars
    <2>2. \A x \in Threads : pc'[x] = "set" => pc[x] = "set"
      BY <1>0, <2>1
    <2> QED
      BY <1>0, <2>1, <2>2 DEF SharedByKey
  <1>6. CASE Build(t)
    <2>1. UNCHANGED <<items, req>> /\ pc' = [pc EXCEPT ![t] = "set"]
      BY <1>6 DEF Build, cacheVars
    <2>2. Fresh \notin Live /\ aliasMap' = [aliasMap EXCEPT ![t] = Fresh]
      BY <1>6, BuildFacts
    <2>3. /\ \A k \in DOMAIN items : items[k].aliasMap # Fresh
          /\ \A x \in Threads : aliasMap[x] # Fresh
      BY <2>2 DEF Live, Cached
    <2>4. /\ aliasMap'[t] = Fresh
          /\ \A x \in Threads \ {t} : aliasMap'[x] = aliasMap[x] /\ pc'[x] = pc[x]
      BY <1>0, <2>1, <2>2
    <2> QED
      BY <1>0, <2>1, <2>3, <2>4 DEF SharedByKey
  <1>7. CASE SetStores(t)
    <2> DEFINE key == AliasCacheKey(req[t])
               am == aliasMap[t]
    <2>1. /\ UNCHANGED <<req, aliasMap>> /\ pc' = [pc EXCEPT ![t] = "done"] /\ pc[t] = "set"
          /\ DOMAIN items' = DOMAIN KeptItems(stamp[t]) \cup {key}
          /\ items'[key].aliasMap = am
          /\ \A k \in DOMAIN items' \ {key} : items'[k] = KeptItems(stamp[t])[k]
      BY <1>7 DEF SetStores
    <2>2. \A k \in DOMAIN items' \ {key} : k \in DOMAIN items /\ items'[k] = items[k]
      BY <2>1 DEF KeptItems, Restricted
    <2>3. am # NoMap
      BY <2>1 DEF IndInv, ThreadInv
    <2>4. /\ \A k \in DOMAIN items : items[k].aliasMap # am
          /\ \A x \in Threads \ {t} : aliasMap[x] # am
      BY <1>0, <2>1, <2>3 DEF SharedByKey
    <2>5. \A x \in Threads : pc'[x] = "set" => pc[x] = "set" /\ x # t
      BY <1>0, <2>1
    <2> HIDE DEF key, am
    <2>6. \A k1, k2 \in DOMAIN items' : items'[k1].aliasMap = items'[k2].aliasMap => k1 = k2
      BY <1>0, <2>1, <2>2, <2>4 DEF SharedByKey
    <2>7. ASSUME NEW x \in Threads, NEW k \in DOMAIN items', aliasMap'[x] = items'[k].aliasMap
          PROVE  AliasCacheKey(req'[x]) = k /\ pc'[x] # "set"
      <3>1. CASE k = key
        <4>1. aliasMap[x] = am
          BY <2>1, <2>7, <3>1
        <4>2. x = t
          BY <2>4, <4>1
        <4> QED
          BY <2>1, <2>5, <3>1, <4>2 DEF key
      <3>2. CASE k # key
        BY <1>0, <2>1, <2>2, <2>5, <2>7, <3>2 DEF SharedByKey
      <3> QED
        BY <3>1, <3>2
    <2>8. \A x, y \in Threads :
             x # y /\ aliasMap'[x] = aliasMap'[y] /\ aliasMap'[x] # NoMap =>
                AliasCacheKey(req'[x]) = AliasCacheKey(req'[y]) /\ pc'[x] # "set"
      BY <1>0, <2>1, <2>5 DEF SharedByKey
    <2> QED
      BY <2>6, <2>7, <2>8 DEF SharedByKey
  <1>8. CASE AddMetric(t)
    <2>1. UNCHANGED <<items, req, aliasMap, pc>>
      BY <1>8 DEF AddMetric, cacheVars, threadVars
    <2> QED
      BY <1>0, <2>1 DEF SharedByKey
  <1>9. CASE Return(t)
    <2>1. /\ items' = items /\ pc' = [pc EXCEPT ![t] = "idle"]
          /\ req' = [req EXCEPT ![t] = AnyRequest] /\ aliasMap' = [aliasMap EXCEPT ![t] = NoMap]
      BY <1>9 DEF Return, cacheVars
    <2>2. /\ aliasMap'[t] = NoMap
          /\ \A x \in Threads \ {t} :
                aliasMap'[x] = aliasMap[x] /\ pc'[x] = pc[x] /\ req'[x] = req[x]
      BY <1>0, <2>1
    <2> QED
      BY <1>0, <1>1, <2>1, <2>2 DEF SharedByKey
  <1> QED
    BY <1>2, <1>3, <1>4, <1>5, <1>6, <1>7, <1>8, <1>9 DEF CreateAliasMap
-----------------------------------------------------------------------------
LEMMA NextIndInv == IndInv /\ [Next]_vars => IndInv'
  <1> SUFFICES ASSUME IndInv, [Next]_vars PROVE IndInv'
    OBVIOUS
  <1>0. /\ clock \in Nat
        /\ maps \in [Addresses -> AliasMaps] /\ \A a \in Addresses : IsFiniteSet(maps[a])
        /\ items \in [DOMAIN items -> Entries]
    BY DEF IndInv, TypeOK, CountInv
  <1>1. ASSUME NEW t \in Threads, CreateAliasMap(t)
        PROVE  IndInv'
    <2>1. GoroutineInv' /\ SharedByKey'
      BY <1>1, GoroutineSteps, SharingSteps
    <2>2. CacheInv'
      <3>1. CASE GetMiss(t) \/ GetExpired(t) \/ GetHit(t) \/ SetRefused(t)
        BY <3>1, CriticalSections
      <3>2. CASE SetStores(t)
        BY <3>2, CacheStores
      <3>3. CASE Call(t) \/ BuildFails(t)
        <4>1. UNCHANGED <<items, lastSweep, totalBytes, maps, clock, grown, lost>>
          BY <3>3 DEF Call, BuildFails, cacheVars, history
        <4>2. CachedMapsKept
          BY <4>1, <1>0 DEF CachedMapsKept
        <4> QED
          BY <4>1, <4>2, CacheUntouched
      <3>4. CASE Build(t)
        <4>1. UNCHANGED <<items, lastSweep, totalBytes, clock, grown, lost>>
          BY <3>4 DEF Build, cacheVars, history
        <4> QED
          BY <3>4, <4>1, BuildFacts, CacheUntouched
      <3>5. CASE Return(t)
        <4>1. UNCHANGED <<items, lastSweep, totalBytes, clock, grown, lost>> /\ CollectGarbage
          BY <3>5 DEF Return, cacheVars, history
        <4>2. CachedMapsKept
          BY <4>1, <1>0, OnlyGarbage
        <4> QED
          BY <4>1, <4>2, CacheUntouched
      <3>6. CASE AddMetric(t)
        BY <3>6, CacheGrows
      <3> QED
        BY <1>1, <3>1, <3>2, <3>3, <3>4, <3>5, <3>6 DEF CreateAliasMap
    <2> QED
      BY <2>1, <2>2, IndInvPartsPrimed
  <1>2. CASE Tick
    <2>1. /\ clock' = clock + 1
          /\ UNCHANGED <<items, lastSweep, totalBytes, maps, grown, lost,
                         pc, req, stamp, aliasMap, outcome>>
          /\ \A t \in Threads : pc[t] \in {"get", "set"} => clock + 1 - stamp[t] <= MaxWait
      BY <1>2 DEF Tick, cacheVars, threadVars, history
    <2>2. CacheInv'
      <3>1. CachedMapsKept
        BY <2>1, <1>0 DEF CachedMapsKept
      <3> QED
        BY <2>1, <3>1, CacheUntouched
    <2>3. GoroutineInv'
      <3>1. GoroutineInv
        BY IndInvParts
      <3>2. \A t \in Threads : stamp'[t] <= clock'
        BY <3>1, <2>1, <1>0 DEF GoroutineInv
      <3>3. ThreadInv'
        BY <3>1, <2>1 DEF GoroutineInv, ThreadInv
      <3>4. ServedMapHasKey'
        BY <3>1, <2>1 DEF GoroutineInv, ServedMapHasKey
      <3>5. \A t \in Threads : pc'[t] \in {"get", "set"} => clock' - stamp'[t] <= MaxWait
        <4>1. \A t \in Threads : stamp[t] \in Nat /\ stamp'[t] = stamp[t] /\ pc'[t] = pc[t]
          BY <3>1, <2>1 DEF GoroutineInv
        <4>2. clock' = clock + 1
          BY <2>1
        <4>3. \A t \in Threads : clock' - stamp'[t] = clock + 1 - stamp[t]
          BY <4>1, <4>2, <1>0
        <4> QED
          BY <4>1, <4>3, <2>1
      <3> QED
        BY <3>1, <3>2, <3>3, <3>4, <3>5, <2>1 DEF GoroutineInv
    <2>4. SharedByKey'
      BY <2>1 DEF IndInv, SharedByKey
    <2> QED
      BY <2>2, <2>3, <2>4, IndInvPartsPrimed
  <1>3. CASE UNCHANGED vars
    <2>1. UNCHANGED <<items, lastSweep, totalBytes, maps, clock, grown, lost,
                      pc, req, stamp, aliasMap, outcome>>
      BY <1>3 DEF vars, cacheVars, threadVars, history
    <2> QED
      BY <2>1 DEF IndInv, TypeOK, ClockInv, SweptClean,
         CountInv, CountDriftExplained, CachedBytes, BytesOf, Cells, EntriesHaveKey,
         ThreadInv, SharedByKey, ServedMapHasKey
  <1> QED
    BY <1>1, <1>2, <1>3 DEF Next

(* IndInv holds in every reachable state. *)
THEOREM Invariance == Spec => []IndInv
  BY InitIndInv, NextIndInv, PTL DEF Spec

(* Type correctness of the cache and of the goroutines inside              *)
(* CreateAliasMap: what the cache holds is a map in memory, never nil.     *)
THEOREM TypeCorrect == Spec => []TypeOK
  <1>1. IndInv => TypeOK
    BY DEF IndInv
  <1> QED
    BY <1>1, Invariance, PTL

(* The byte count of alias_cache.go differs from the bytes cached by what  *)
(* metrics added to cached maps and what get deleted uncounted, and by     *)
(* nothing else.                                                           *)
THEOREM DriftExplained == Spec => []CountDriftExplained
  <1>1. IndInv => CountDriftExplained
    BY DEF IndInv, CountInv
  <1> QED
    BY <1>1, Invariance, PTL

(* ALIAS_CACHE_MAX_BYTES bounds the maps really cached but for what metrics *)
(* add to them, for any number of goroutines, any requests and any limit.   *)
THEOREM WithinLimit == Spec => []CacheWithinLimit
  <1>1. IndInv => CacheWithinLimit
    <2> SUFFICES ASSUME IndInv, MaxBytes > 0 PROVE CachedBytes <= MaxBytes + grown
      BY DEF CacheWithinLimit
    <2>1. /\ IsFiniteSet(Cells(items, maps))
          /\ totalBytes + grown = CachedBytes + lost
          /\ totalBytes <= MaxBytes /\ totalBytes \in Int
          /\ grown \in Nat /\ lost \in Nat
      BY DEF IndInv, CountInv, CountDriftExplained, TypeOK
    <2>2. CachedBytes \in Nat
      BY <2>1, FS_CardinalityType DEF CachedBytes, BytesOf
    <2> QED
      BY <2>1, <2>2, TimeAssumption
  <1> QED
    BY <1>1, Invariance, PTL

(* A goroutine always gets a map built for its own key, with at most the   *)
(* metrics of that key added.                                              *)
THEOREM ServedHasKey == Spec => []ServedMapHasKey
  <1>1. IndInv => ServedMapHasKey
    BY DEF IndInv
  <1> QED
    BY <1>1, Invariance, PTL

(* No entry survives the sweep that should have removed it.                *)
THEOREM SweepsClean == Spec => []SweptClean
  <1>1. IndInv => SweptClean
    BY DEF IndInv
  <1> QED
    BY <1>1, Invariance, PTL

(* Entries in use are never evicted: every entry that leaves the cache has *)
(* been idle longer than aliasCacheTTL.                                    *)
THEOREM EvictsIdle == Spec => EvictsOnlyIdle
  <1> DEFINE A == \A k \in DOMAIN items \ DOMAIN items' :
                      clock - items[k].lastUsed > TTL
  <1>1. ASSUME IndInv, [Next]_vars PROVE [A]_vars
    <2> USE <1>1
    <2>1. ASSUME NEW t \in Threads, CreateAliasMap(t) PROVE A
      <3> DEFINE now == stamp[t]
                 key == AliasCacheKey(req[t])
                 kept == KeptItems(now)
      <3>1. now \in Nat /\ now <= clock
        BY DEF IndInv, TypeOK, ClockInv
      <3>2. /\ \A k \in DOMAIN items \ DOMAIN kept : clock - items[k].lastUsed > TTL
            /\ DOMAIN kept \subseteq DOMAIN items
        BY <3>1, SweepFacts
      <3>3. CASE GetExpired(t)
        <4>1. DOMAIN items' = DOMAIN kept \ {key} /\ key \in DOMAIN kept
          BY <3>3 DEF GetExpired, Restricted
        <4>2. now - items[key].lastUsed > TTL
          BY <3>3 DEF GetExpired, Expired
        <4>3. items[key].lastUsed \in Nat /\ clock \in Nat /\ TTL \in Nat
          BY <4>1, <3>2, TimeAssumption DEF IndInv, TypeOK, Entries
        <4>4. clock - items[key].lastUsed > TTL
          BY <4>2, <4>3, <3>1
        <4> QED
          BY <4>1, <4>4, <3>2
      <3>4. CASE GetMiss(t) \/ GetHit(t) \/ SetRefused(t) \/ SetStores(t)
        <4>1. DOMAIN kept \subseteq DOMAIN items'
          BY <3>4 DEF GetMiss, GetHit, SetRefused, SetStores
        <4> QED
          BY <4>1, <3>2
      <3>5. CASE Call(t) \/ BuildFails(t) \/ Build(t) \/ AddMetric(t) \/ Return(t)
        BY <3>5 DEF Call, BuildFails, Build, AddMetric, Return, cacheVars
      <3> QED
        BY <2>1, <3>3, <3>4, <3>5 DEF CreateAliasMap
    <2>2. CASE Tick
      BY <2>2 DEF Tick, cacheVars
    <2>3. CASE UNCHANGED vars
      BY <2>3
    <2> QED
      BY <1>1, <2>1, <2>2, <2>3 DEF Next
  <1>2. Spec => [][A]_vars
    BY <1>1, Invariance, PTL DEF Spec
  <1> QED
    BY <1>2 DEF EvictsOnlyIdle

(* What AliasMapService sees of the goroutines.                            *)
phases == [t \in Threads |-> ServicePhase(pc[t])]
failures == [t \in Threads |-> outcome[t] = "error"]
replies == [t \in Threads |-> IF pc[t] = "done" /\ outcome[t] # "error"
                              THEN maps[aliasMap[t]] ELSE {}]

LEMMA ServiceView ==
    ASSUME NEW t \in Threads
    PROVE  /\ Service!Ask(t) <=>
                 /\ phases[t] = "idle"
                 /\ \E r \in Requests : req' = [req EXCEPT ![t] = r]
                 /\ phases' = [phases EXCEPT ![t] = "asked"]
                 /\ UNCHANGED <<failures, replies>>
           /\ Service!Answer(t) <=>
                 /\ phases[t] = "asked"
                 /\ phases' = [phases EXCEPT ![t] = "answered"]
                 /\ failures' = [failures EXCEPT ![t] = req[t] \in Unbuildable]
                 /\ IF req[t] \in Unbuildable
                    THEN replies' = [replies EXCEPT ![t] = {}]
                    ELSE \E more \in SUBSET Added(req[t]) :
                           replies' = [replies EXCEPT ![t] = BuildAliasMap(req[t]) \cup more]
                 /\ UNCHANGED req
           /\ Service!Take(t) <=>
                 /\ phases[t] = "answered"
                 /\ phases' = [phases EXCEPT ![t] = "idle"]
                 /\ failures' = [failures EXCEPT ![t] = FALSE]
                 /\ replies' = [replies EXCEPT ![t] = {}]
                 /\ req' = [req EXCEPT ![t] = AnyRequest]
  BY DEF Service!Ask, Service!Answer, Service!Take, phases, failures, replies,
     AnyRequest, Service!AnyRequest

(* Among the replies, those of the other goroutines are left alone by all  *)
(* steps but AddMetric.                                                    *)
LEMMA OtherReplies ==
    ASSUME GoroutineInv, HeldMapsKept, NEW t \in Threads,
           \A x \in Threads \ {t} :
               pc'[x] = pc[x] /\ outcome'[x] = outcome[x] /\ aliasMap'[x] = aliasMap[x]
    PROVE  /\ \A x \in Threads \ {t} :
                 /\ phases'[x] = phases[x] /\ replies'[x] = replies[x]
                 /\ (outcome'[x] = "error") <=> (outcome[x] = "error")
           /\ phases'[t] = ServicePhase(pc'[t])
           /\ replies'[t] = IF pc'[t] = "done" /\ outcome'[t] # "error"
                            THEN maps'[aliasMap'[t]] ELSE {}
  <1>1. ASSUME NEW x \in Threads \ {t}
        PROVE  replies'[x] = replies[x]
    <2>1. CASE pc[x] = "done" /\ outcome[x] # "error"
      <3>1. aliasMap[x] \in Addresses
        BY <2>1 DEF GoroutineInv, ThreadInv
      <3>2. maps'[aliasMap'[x]] = maps[aliasMap[x]]
        BY <3>1 DEF HeldMapsKept
      <3> QED
        BY <2>1, <3>2 DEF replies
    <2>2. CASE ~(pc[x] = "done" /\ outcome[x] # "error")
      BY <2>2 DEF replies
    <2> QED
      BY <2>1, <2>2
  <1>2. \A x \in Threads \ {t} : phases'[x] = phases[x]
    BY DEF phases
  <1>3. \A x \in Threads \ {t} : (outcome'[x] = "error") <=> (outcome[x] = "error")
    OBVIOUS
  <1> QED
    BY <1>1, <1>2, <1>3 DEF phases, replies

(* Two views with equal values are equal.                                  *)
LEMMA ViewUpdates ==
    ASSUME NEW t \in Threads, NEW p, NEW b \in BOOLEAN, NEW m,
           \A x \in Threads \ {t} :
               /\ phases'[x] = phases[x] /\ replies'[x] = replies[x]
               /\ (outcome'[x] = "error") <=> (outcome[x] = "error"),
           phases'[t] = p, (outcome'[t] = "error") <=> b, replies'[t] = m
    PROVE  /\ phases' = [phases EXCEPT ![t] = p]
           /\ failures' = [failures EXCEPT ![t] = b]
           /\ replies' = [replies EXCEPT ![t] = m]
  <1>1. phases' = [phases EXCEPT ![t] = p]
    <2>1. /\ phases = [x \in Threads |-> phases[x]]
          /\ phases' = [x \in Threads |-> phases'[x]]
      BY DEF phases
    <2> QED
      BY <2>1
  <1>2. replies' = [replies EXCEPT ![t] = m]
    <2>1. /\ replies = [x \in Threads |-> replies[x]]
          /\ replies' = [x \in Threads |-> replies'[x]]
      BY DEF replies
    <2> QED
      BY <2>1
  <1>3. failures' = [failures EXCEPT ![t] = b]
    <2>1. \A x \in Threads : (outcome'[x] = "error") = IF x = t THEN b ELSE outcome[x] = "error"
      OBVIOUS
    <2>2. [x \in Threads |-> outcome'[x] = "error"] =
             [x \in Threads |-> IF x = t THEN b ELSE outcome[x] = "error"]
      BY <2>1, Zenon
    <2>3. [[x \in Threads |-> outcome[x] = "error"] EXCEPT ![t] = b] =
             [x \in Threads |-> IF x = t THEN b ELSE outcome[x] = "error"]
      BY Zenon
    <2> QED
      BY <2>2, <2>3, Zenon DEF failures
  <1> QED
    BY <1>1, <1>2, <1>3, Zenon

(* A goroutine that ends with a map made for its request answers it.       *)
LEMMA AnswersWithMap ==
    ASSUME NEW t \in Threads, GoroutineInv, HeldMapsKept,
           pc[t] \in {"get", "set"}, pc' = [pc EXCEPT ![t] = "done"],
           NEW o \in Outcomes \ {"none", "error"}, outcome' = [outcome EXCEPT ![t] = o],
           req[t] \notin Unbuildable, req' = req,
           NEW a, aliasMap' = [aliasMap EXCEPT ![t] = a], MadeFor(maps'[a], req[t])
    PROVE  Service!Answer(t)
  <1>1. /\ pc'[t] = "done" /\ outcome'[t] = o /\ aliasMap'[t] = a
        /\ \A x \in Threads \ {t} :
              pc'[x] = pc[x] /\ outcome'[x] = outcome[x] /\ aliasMap'[x] = aliasMap[x]
    BY DEF GoroutineInv
  <1>2. /\ \A x \in Threads \ {t} :
              /\ phases'[x] = phases[x] /\ replies'[x] = replies[x]
              /\ (outcome'[x] = "error") <=> (outcome[x] = "error")
        /\ phases'[t] = "answered" /\ replies'[t] = maps'[a]
    BY <1>1, OtherReplies DEF ServicePhase
  <1>3. /\ phases' = [phases EXCEPT ![t] = "answered"]
        /\ failures' = [failures EXCEPT ![t] = FALSE]
        /\ replies' = [replies EXCEPT ![t] = maps'[a]]
    <2>1. (outcome'[t] = "error") <=> FALSE
      BY <1>1
    <2> QED
      BY <1>2, <2>1, ViewUpdates
  <1>4. (req[t] \in Unbuildable) = FALSE
    OBVIOUS
  <1>5. failures' = [failures EXCEPT ![t] = req[t] \in Unbuildable]
    BY <1>3, <1>4, Zenon
  <1>6. \E more \in SUBSET Added(req[t]) :
           replies' = [replies EXCEPT ![t] = BuildAliasMap(req[t]) \cup more]
    <2>1. maps'[a] \ BuildAliasMap(req[t]) \in SUBSET Added(req[t])
      BY DEF MadeFor
    <2>2. BuildAliasMap(req[t]) \cup (maps'[a] \ BuildAliasMap(req[t])) = maps'[a]
      BY DEF MadeFor
    <2> QED
      BY <1>3, <2>1, <2>2
  <1>7. phases[t] = "asked"
    BY DEF phases, ServicePhase
  <1> QED
    BY <1>3, <1>5, <1>6, <1>7, ServiceView, Zenon

(* A path that t adds for its metrics appears in the reply of every        *)
(* goroutine that shares the map, and in no other.                         *)
LEMMA MetricGrows ==
    ASSUME IndInv, NEW t \in Threads, AddMetric(t)
    PROVE  Service!Grow
  <1> DEFINE am == aliasMap[t]
             sharers == {x \in Threads : aliasMap[x] = am}
  <1>1. PICK p \in req[t].metrics :
          /\ am \in Addresses
          /\ maps' = [maps EXCEPT ![am] = @ \cup {p}]
          /\ UNCHANGED <<pc, req, aliasMap, outcome>>
    BY MetricFacts
  <1>2. req \in [Threads -> Requests] /\ maps \in [Addresses -> AliasMaps]
    BY DEF IndInv, TypeOK
  <1>3. p \in UNION {Added(r) : r \in Requests}
    <2>1. p \in Added(req[t])
      BY <1>1, <1>2, MetricsAreAdded
    <2> QED
      BY <2>1, <1>2
  <1>4. ASSUME NEW x \in sharers
        PROVE  /\ phases[x] = "answered" /\ outcome[x] # "error" /\ pc[x] = "done"
               /\ p \in Added(req[x])
    <2>1. aliasMap[x] # NoMap /\ AliasCacheKey(req[x]) = AliasCacheKey(req[t]) /\ pc[x] # "set"
      BY <1>1, AddressAssumption DEF IndInv, SharedByKey, AddMetric, NoMap
    <2>2. pc[x] = "done" /\ outcome[x] # "error"
      BY <2>1 DEF IndInv, ThreadInv, TypeOK
    <2>3. p \in Added(req[x])
      BY <1>1, <1>2, <2>1, MetricsAreAdded
    <2> QED
      BY <2>2, <2>3 DEF phases, ServicePhase
  <1>5. replies' = [x \in Threads |-> IF x \in sharers THEN replies[x] \cup {p} ELSE replies[x]]
    <2>1. ASSUME NEW x \in Threads
          PROVE  replies'[x] = IF x \in sharers THEN replies[x] \cup {p} ELSE replies[x]
      <3>1. CASE x \in sharers
        <4>1. pc[x] = "done" /\ outcome[x] # "error"
          BY <1>4, <3>1
        <4>2. maps'[am] = maps[am] \cup {p}
          BY <1>1, <1>2
        <4> QED
          BY <1>1, <3>1, <4>1, <4>2 DEF replies
      <3>2. CASE x \notin sharers
        <4>1. pc[x] = "done" /\ outcome[x] # "error" => aliasMap[x] \in Addresses
          BY DEF IndInv, ThreadInv, TypeOK
        <4>2. \A a \in Addresses \ {am} : maps'[a] = maps[a]
          BY <1>1, <1>2
        <4> QED
          BY <1>1, <3>2, <4>1, <4>2 DEF replies
      <3> QED
        BY <3>1, <3>2
    <2>2. replies' = [x \in Threads |-> replies'[x]]
      BY DEF replies
    <2> HIDE DEF sharers
    <2> QED
      BY <2>1, <2>2
  <1>6. UNCHANGED <<phases, req, failures>>
    <2>1. UNCHANGED phases /\ UNCHANGED req
      BY <1>1 DEF phases
    <2>2. outcome' = outcome
      BY <1>1
    <2>3. failures' = failures
      BY <2>2, Zenon DEF failures
    <2> QED
      BY <2>1, <2>3, Zenon
  <1>7. sharers \in SUBSET {x \in Threads : /\ phases[x] = "answered" /\ ~failures[x]
                                            /\ p \in Added(req[x])}
    BY <1>4 DEF failures
  <1> HIDE DEF sharers
  <1>8. \E q \in UNION {Added(r) : r \in Requests} :
           \E S \in SUBSET {x \in Threads : /\ phases[x] = "answered" /\ ~failures[x]
                                            /\ q \in Added(req[x])} :
              /\ replies' = [x \in Threads |-> IF x \in S THEN replies[x] \cup {q} ELSE replies[x]]
              /\ UNCHANGED <<phases, req, failures>>
    BY <1>3, <1>5, <1>6, <1>7, Zenon
  <1> QED
    BY <1>8, Zenon DEF Service!Grow, phases, failures, replies

(* The cache is invisible to the callers of CreateAliasMap but for the     *)
(* metrics of others: with requests whose keys tell them apart, the cached *)
(* operation implements the service that builds every map anew and whose   *)
(* callers may share what they add.                                        *)
THEOREM Transparent ==
    ASSUME KeysTellRequestsApart
    PROVE  Spec => CacheIsTransparent
  <1>1. Init => Service!ServiceInit
    BY DEF Init, Service!ServiceInit, ServicePhase, AnyRequest, Service!AnyRequest
  <1>2. ASSUME IndInv, [Next]_vars
        PROVE  [Service!ServiceNext]_Service!serviceVars
    <2>0. /\ GoroutineInv /\ items \in [DOMAIN items -> Entries]
          /\ req \in [Threads -> Requests]
      BY <1>2, IndInvParts DEF IndInv, TypeOK
    <2>1. ASSUME NEW t \in Threads, CreateAliasMap(t)
          PROVE  [Service!ServiceNext]_Service!serviceVars
      <3> USE <1>2
      <3>1. CASE Call(t)
        <4>1. /\ pc[t] = "idle" /\ pc' = [pc EXCEPT ![t] = "get"]
              /\ UNCHANGED <<maps, aliasMap, outcome>>
              /\ \E r \in Requests : req' = [req EXCEPT ![t] = r]
          BY <3>1 DEF Call
        <4>2. phases[t] = "idle" /\ phases' = [phases EXCEPT ![t] = "asked"]
          BY <4>1, <2>0 DEF phases, ServicePhase, GoroutineInv
        <4>3. replies' = replies
          <5>1. \A x \in Threads : (pc'[x] = "done") <=> (pc[x] = "done")
            BY <4>1, <2>0 DEF GoroutineInv
          <5> QED
            BY <4>1, <5>1 DEF replies
        <4>4. failures' = failures
          BY <4>1, Zenon DEF failures
        <4>5. Service!Ask(t)
          BY <4>1, <4>2, <4>3, <4>4, ServiceView, Zenon
        <4> QED
          BY <4>5 DEF Service!ServiceNext
      <3>2. CASE GetMiss(t) \/ GetExpired(t) \/ Build(t)
        <4>1. /\ UNCHANGED <<req, outcome>>
              /\ pc[t] \in {"get", "build"}
              /\ \E p \in {"build", "set"} : pc' = [pc EXCEPT ![t] = p]
              /\ \A x \in Threads \ {t} : aliasMap'[x] = aliasMap[x]
          BY <3>2, <2>0 DEF GetMiss, GetExpired, Build, GoroutineInv
        <4>2. \A x \in Threads \ {t} :
                 aliasMap[x] \in Addresses => maps'[aliasMap[x]] = maps[aliasMap[x]]
          <5>1. CASE Build(t)
            BY <5>1, BuildFacts
          <5>2. CASE GetMiss(t) \/ GetExpired(t)
            BY <4>1, <5>2, CriticalSections DEF HeldMapsKept
          <5> QED
            BY <3>2, <5>1, <5>2
        <4>3. \A x \in Threads : /\ (pc'[x] = "done") <=> (pc[x] = "done")
                                 /\ ServicePhase(pc'[x]) = ServicePhase(pc[x])
          BY <4>1, <2>0 DEF GoroutineInv, ServicePhase
        <4>4. replies' = replies
          <5>1. ASSUME NEW x \in Threads, pc[x] = "done", outcome[x] # "error"
                PROVE  maps'[aliasMap'[x]] = maps[aliasMap[x]]
            <6>1. x # t /\ aliasMap[x] \in Addresses
              BY <4>1, <5>1, <2>0 DEF GoroutineInv, ThreadInv
            <6> QED
              BY <4>1, <4>2, <6>1
          <5> QED
            BY <4>1, <4>3, <5>1 DEF replies
        <4>5. phases' = phases
          BY <4>3 DEF phases
        <4>6. failures' = failures
          BY <4>1, Zenon DEF failures
        <4>7. req' = req
          BY <4>1
        <4> QED
          BY <4>4, <4>5, <4>6, <4>7, Zenon DEF Service!serviceVars, phases, failures, replies
      <3>3. CASE GetHit(t)
        <4> DEFINE key == AliasCacheKey(req[t])
                   am == items[key].aliasMap
        <4>1. /\ pc[t] = "get" /\ pc' = [pc EXCEPT ![t] = "done"]
              /\ outcome' = [outcome EXCEPT ![t] = "cached"]
              /\ aliasMap' = [aliasMap EXCEPT ![t] = am] /\ req' = req
              /\ key \in DOMAIN items
          BY <3>3 DEF GetHit, KeptItems, Restricted
        <4>2. PICK r \in Requests \ Unbuildable : AliasCacheKey(r) = key /\ MadeFor(maps[am], r)
          BY <4>1 DEF IndInv, EntriesHaveKey
        <4>3. req[t] \notin Unbuildable /\ BuildAliasMap(r) = BuildAliasMap(req[t])
          BY <4>2, <2>0 DEF KeysTellRequestsApart
        <4>4. Added(r) = Added(req[t])
          BY <4>2 DEF Added
        <4>5. HeldMapsKept
          BY <3>3, CriticalSections
        <4>6. aliasMap'[t] = am /\ am \in Addresses
          BY <4>1, <2>0 DEF GoroutineInv, Entries
        <4>7. maps'[am] = maps[am]
          BY <4>5, <4>6 DEF HeldMapsKept
        <4>8. MadeFor(maps'[am], req[t])
          BY <4>2, <4>3, <4>4, <4>7 DEF MadeFor
        <4> HIDE DEF key, am
        <4>9. Service!Answer(t)
          BY <4>1, <4>3, <4>5, <4>8, <2>0, AnswersWithMap DEF Outcomes
        <4> QED
          BY <4>9 DEF Service!ServiceNext
      <3>4. CASE BuildFails(t)
        <4>1. /\ pc[t] = "build" /\ pc' = [pc EXCEPT ![t] = "done"] /\ req[t] \in Unbuildable
              /\ outcome' = [outcome EXCEPT ![t] = "error"]
              /\ UNCHANGED <<maps, req, aliasMap>>
          BY <3>4 DEF BuildFails
        <4>2. /\ \A x \in Threads \ {t} :
                    /\ phases'[x] = phases[x] /\ replies'[x] = replies[x]
                    /\ (outcome'[x] = "error") <=> (outcome[x] = "error")
              /\ phases'[t] = "answered" /\ replies'[t] = {} /\ outcome'[t] = "error"
              /\ phases[t] = "asked"
          BY <4>1, <2>0 DEF phases, replies, ServicePhase, GoroutineInv
        <4>3. /\ phases' = [phases EXCEPT ![t] = "answered"]
              /\ failures' = [failures EXCEPT ![t] = TRUE]
              /\ replies' = [replies EXCEPT ![t] = {}]
          BY <4>2, ViewUpdates
        <4>4. (req[t] \in Unbuildable) = TRUE
          BY <4>1
        <4>5. failures' = [failures EXCEPT ![t] = req[t] \in Unbuildable]
          BY <4>3, <4>4, Zenon
        <4>6. Service!Answer(t)
          BY <4>1, <4>2, <4>3, <4>5, ServiceView, Zenon
        <4> QED
          BY <4>6 DEF Service!ServiceNext
      <3>5. CASE SetRefused(t) \/ SetStores(t)
        <4>1. /\ pc[t] = "set" /\ pc' = [pc EXCEPT ![t] = "done"]
              /\ UNCHANGED <<req, aliasMap>>
          BY <3>5 DEF SetRefused, SetStores
        <4>2. PICK o \in {"tooLarge", "limit", "stored"} : outcome' = [outcome EXCEPT ![t] = o]
          BY <3>5 DEF SetRefused, SetStores
        <4>3. HeldMapsKept
          BY <3>5, CriticalSections, CacheStores
        <4>4. /\ req[t] \in Requests \ Unbuildable /\ maps[aliasMap[t]] = BuildAliasMap(req[t])
              /\ aliasMap[t] \in Addresses
          BY <4>1, <2>0 DEF GoroutineInv, ThreadInv
        <4>5. MadeFor(maps'[aliasMap[t]], req[t])
          BY <4>1, <4>3, <4>4, RequestFacts DEF HeldMapsKept
        <4>6. aliasMap' = [aliasMap EXCEPT ![t] = aliasMap[t]]
          BY <4>1, <2>0 DEF GoroutineInv
        <4>7. Service!Answer(t)
          BY <4>1, <4>2, <4>3, <4>4, <4>5, <4>6, <2>0, AnswersWithMap DEF Outcomes
        <4> QED
          BY <4>7 DEF Service!ServiceNext
      <3>6. CASE AddMetric(t)
        BY <3>6, MetricGrows DEF Service!ServiceNext
      <3>7. CASE Return(t)
        <4>1. /\ pc[t] = "done" /\ pc' = [pc EXCEPT ![t] = "idle"]
              /\ aliasMap' = [aliasMap EXCEPT ![t] = NoMap]
              /\ outcome' = [outcome EXCEPT ![t] = "none"]
              /\ req' = [req EXCEPT ![t] = AnyRequest] /\ items' = items /\ CollectGarbage
          BY <3>7 DEF Return, cacheVars
        <4>2. HeldMapsKept
          BY <4>1, <2>0, OnlyGarbage
        <4>3. /\ \A x \in Threads \ {t} :
                    pc'[x] = pc[x] /\ outcome'[x] = outcome[x] /\ aliasMap'[x] = aliasMap[x]
              /\ pc'[t] = "idle" /\ outcome'[t] = "none"
          BY <4>1, <2>0 DEF GoroutineInv
        <4>4. /\ \A x \in Threads \ {t} :
                    /\ phases'[x] = phases[x] /\ replies'[x] = replies[x]
                    /\ (outcome'[x] = "error") <=> (outcome[x] = "error")
              /\ phases'[t] = "idle" /\ replies'[t] = {}
          BY <4>2, <4>3, <2>0, OtherReplies DEF ServicePhase
        <4>5. /\ phases' = [phases EXCEPT ![t] = "idle"]
              /\ failures' = [failures EXCEPT ![t] = FALSE]
              /\ replies' = [replies EXCEPT ![t] = {}]
          BY <4>3, <4>4, ViewUpdates
        <4>6. phases[t] = "answered"
          BY <4>1 DEF phases, ServicePhase
        <4>7. Service!Take(t)
          BY <4>1, <4>5, <4>6, ServiceView, Zenon
        <4> QED
          BY <4>7 DEF Service!ServiceNext
      <3> QED
        BY <2>1, <3>1, <3>2, <3>3, <3>4, <3>5, <3>6, <3>7 DEF CreateAliasMap
    <2>2. CASE Tick \/ UNCHANGED vars
      <3>1. UNCHANGED <<pc, req, aliasMap, outcome, maps>>
        BY <2>2 DEF Tick, vars, threadVars
      <3> QED
        BY <3>1, Zenon DEF Service!serviceVars
    <2> QED
      BY <1>2, <2>1, <2>2 DEF Next
  <1> QED
    BY <1>1, <1>2, Invariance, PTL DEF Spec, CacheIsTransparent, Service!ServiceSpec
=============================================================================
