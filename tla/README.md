# A TLA+ verification of YrestAPI

YrestAPI answers `POST /api/index` requests from PostgreSQL, guided by YAML models: a request
names a model and a *preset* (a tree of fields and related models) and gets back a JSON tree.
The service is read-only; what is hard in it is not the data it stores but the way a request is
taken apart into a tree of concurrent queries and put together again, and the caches and
traversals behind that. This directory models these parts in TLA+, checks them with TLC and
proves central properties with TLAPS.

All source references are to `src/` of the repository.

## 1. Inventory of the system

| Component | Source | State it keeps | Operations | What is hard | Modelled in |
|---|---|---|---|---|---|
| Alias map cache | `internal/model/alias_cache.go`, `CreateAliasMap.go` | entries by key, last sweep, byte count, limit | `get`, `set`, sweep, `CreateAliasMap` | clock read before the lock, build between two critical sections, byte accounting of maps that grow while they are cached, identity of keys | `AliasCache` |
| Resolver call tree | `internal/resolver/resolver.go`, `MakeThroughRequest.go`, `handler/index.go`, `db/postgres.go` | locals of each call: WaitGroup, `rerr`, `err`, groups; the connection pool | one recursive call per branch, one goroutine per has_* branch | racing goroutines, shared `err`, partial failure, pool exhaustion, cancellation | `Resolver` |
| Stitching of has_* branches | `resolver.go`, `MakeThroughRequest.go`, `finalizeItems.go` | items and groups of a call | collect keys, child query, group, attach, unwrap | shared limit, items with equal keys, two places that unwrap a through relation | `TailStitch` |
| Stitching of polymorphic branches | `resolver.go` | as above | group by type, one query per type, attach | random order of types, equal ids in several tables, presets without the key, branches below the root | `PolyStitch` |
| Alias map construction | `BuildAliasMap.go`, `alias_helpers.go`, `computable_paths.go` | the map under construction | path collection, alias numbering, shortcut expansion | re-entry policy, expansion that does not end | `PresetGraph`, `Filters` (sorts: not modelled) |
| Linking, validation, `max_depth` | `linker.go`, `registry_validation.go`, `max_depth.go`, `CreateAliasMap.go` | the registry, before start | resolve references, defaults, cycle check | three different notions of depth | `PresetGraph` (partly) |
| Loading, preset inheritance | `loader.go`, `validateYAML.go` | the registry, before start | templates, `extends` chains | order of resolution, stale flattened presets | `Inheritance` |
| Item finalization | `finalizeItems.go`, `locales.go` | items | alias, collapse, localize, format, remove internal fields, rename | order of the steps, dependencies between formatters | `Finalize`, `Templates` |
| Filters, joins, queries | `BuildWhereClause.go`, `DetectJoins.go`, `BuildIndexQuery.go`, `distinct.go`, `Scan*.go`, ... | none | translation to SQL | nested and/or, null handling, WHERE against HAVING, joins that move to CTEs | `Filters`, `PresetGraph` (partly) |
| Statistics | `handler/stats.go`, `aggregates.go` | none; the alias map it shares with others | validation of metrics, metrics to SQL | a cached map changed in place | `AliasCache`, `StatsAliasMap`, `Server` (partly) |
| Startup, health | `cmd/main.go`, `registry.go`, `router/health.go` | registry, pool | phases, `readyz` | readiness against a vanishing or silent database | `Server` |
| Authentication, CORS, routing | `auth/jwt.go`, `router/*.go` | validator keys | token validation | boundaries of time claims, order of the middleware | `Jwt`, `Server` |
| Log endpoint, logger | `router/logs.go`, `logger/logger.go` | the log file | append, read the tail backwards | lines across chunks, concurrent appends | `LogTail`, `Server` |
| Localization | `Localization.go`, `locales.go` | dictionaries | lookup | types of keys | lookup in `Finalize` |
| Importers | `cmd/sqlimport`, `internal/importer` | none | schema text to YAML | command-line tools, outside the service | - |
| Configuration, memory statistics | `config/config.go`, `memory_stats.go` | none | reading of variables, reporting | - | - |

How they interact. At startup `main` opens the pool, loads, links and validates the registry and from
then on only reads it. `IndexHandler` calls `Resolver` with the context of the HTTP request. `Resolver`
takes its alias map from the cache, builds and runs one query, and calls itself for the branches of the
preset: concurrently for has_one / has_many ("tails"), one after the other for polymorphic
belongs_to. Then it stitches the branches to the items and finalizes them. `StatsHandler` takes its map
from the same cache and adds to it. What requests share is the alias cache (and, because of
`StatsHandler`, the maps in it), the connection pool and the log file.

What makes the components correct, in one line each: the cache is invisible except for its speed
and keeps to its limit but for what statistics add to cached maps; an answer is complete or an error, comes, and leaves nothing
running; a branch holds exactly the rows joined to its item; traversals respect `max_depth` and
end; inherited presets do not depend on the order of loading; formatters see finished values; a query
selects the rows its filters ask for; `readyz` tells the truth of some instant of the call; a token is
accepted exactly within its limits; the log tail is what one look at the whole file would have given.

## 2. Modules

| Module | Role |
|---|---|
| `AliasMapService` | abstract: a request for an alias map is answered with its own map, to which only paths for requests like it are added, or its own error |
| `AliasCache` | the cache and `CreateAliasMap`, run by concurrent goroutines; refines `AliasMapService` |
| `AliasCacheProofs` | theorems about `AliasCache` |
| `StatsAliasMap` | what statistics requests do to the map the cache has given them |
| `ResolverService` | abstract: an index request is answered with all rows, or with an error if any call failed |
| `Resolver` | the tree of resolver calls; refines `ResolverService` |
| `ResolverProofs` | theorems about `Resolver` |
| `TailStitch` | the data path of a has_* branch |
| `PolyStitch` | the data path of a polymorphic branch |
| `ItemProofs` | theorems about `TailStitch`, `PolyStitch` and `Finalize` |
| `PresetGraph` | linking, validation and the collected paths of presets, the alias map of a call, and the walks of a request through its preset |
| `PresetGraphProofs` | theorems about `PresetGraph` |
| `Inheritance` | loading of one model file: keys, templates, `extends` |
| `InheritanceProofs` | theorems about `Inheritance` |
| `Filters` | the filters of a request from JSON keys to WHERE and HAVING |
| `FilterMeaning` | what filters and queries mean for a row of the database; extends `Filters` |
| `FiltersProofs` | theorems about `Filters` and `FilterMeaning` |
| `Templates` | operators only: tokens, slices, conditions and ternaries of formatters |
| `Finalize` | the passes of `finalizeItems` over one item; extends `Templates` |
| `LogTail` | logger and log reader |
| `Jwt` | operators only: the decision about a token |
| `Server` | startup, middleware, handlers, database outages; composes `LogTail` and `Jwt` |
| `ServerProofs` | theorems about `Server`, `LogTail` and `Jwt` |
| `Selections` | operators only: the elements of a sequence that are in a set |
| `CommonLemmas` | lemmas about sequences, selections and least numbers that several proofs need |
| `MC...` | small instances for TLC, one per module with a state machine; `MCItems` puts those of `TailStitch`, `PolyStitch` and `Finalize` side by side |

Some definitions are marked *Mutant*: they are faulty variants of the definition that follows, not part
of the specification. Each property was tested by putting such a variant in place of the original and
seeing the property fail.

### AliasCache

| Model | Code |
|---|---|
| `items`, `lastSweep`, `totalBytes` | fields of `aliasMapCache`; `createdAt` is written and never read, and left out |
| `maps` | the alias maps in memory, by address: entries and callers hold addresses, as they hold pointers in the code |
| `Call` | `CreateAliasMap` up to `time.Now()` in the call of `get` |
| `GetMiss`, `GetExpired`, `GetHit` | `get`, by its three ways out; each includes the sweep it starts with |
| `Build`, `BuildFails` | `BuildAliasMap`, and the clock read for `set` |
| `SetRefused`, `SetStores` | `set`, again including its sweep |
| `AddMetric` | `CreateAliasMapForAggregates` adds the path of a metric to the map it was served, in place and without the lock |
| `Return` | the caller is done with the map, which remains only if it is cached or another caller has it (`CollectGarbage`) |
| `Tick` | the clock; other actions take no time |

`get` and `set` hold the mutex throughout and are one action each. The clock is read before the
lock (`stamp`), so that the times handed to the cache may run backwards; `MaxWait` bounds how long
a goroutine waits between the two, and `MaxWait <= TTL` (seven days in the code) is an
assumption. An alias map is the set of relation paths it names and its size their number: every path is taken to
weigh the same, where the code sums up string lengths. As in the code the size is that of the map at the moment of the estimate
(`EstimateAliasMapBytes`, `BytesOf`), not the size it had when it was stored. Two history variables say what that does to the byte count:
`grown`, the paths that metrics have added to maps while they were cached, and `lost`, the entries that `get` deletes without
subtracting them. What the Go runtime may do when such a map is read and written at once, and how two writers number their paths,
is the subject of `StatsAliasMap`. A key that cannot be encoded
(`aliasCacheKey` returns an error) does not occur with filters decoded from JSON, and the
recovered panic in `set` is left out.

Note that the limit test in `set` does not credit the entry about to be replaced; the model has
this as it is.

### Resolver

A call (`c \in Calls`) is one execution of `Resolver`, together with the goroutine that runs it if
it is a tail. `Calls`, `Parent` and `Kind` describe the preset tree of each request.

| `pc` | Place in `resolver.go` |
|---|---|
| `prepare`, `query`, `scan` | lines 68-127: lookup and SQL; `Pool.Query`; `ScanFlatRows` |
| `spawn`, `wait` | the loop over the tails (177-263), `wg.Wait()` (265) |
| `poly`, `polywait` | the loop over polymorphic branches (330-430), inside its child call |
| `returned` | the call has returned, its caller has not yet reacted |
| `start`, `made`, `leave`, `left` | of a tail goroutine: begun (186), after `MakeThroughChildRequest` (237), before the deferred `wg.Done()`, ended |
| `skipped` | a branch without parent ids or type |
| `idle`, `replied` | of a request, before and after it |

`wg`, `rerr`, `err`, `grouped` are the variables of that name (per call; `grouped[k]`: the tail's rows
are in its parent's `groupedByTail`). `free` counts the pool's connections: `Query` takes one,
`Scan` gives it back, since pgx closes the rows after the last. `Disconnect` cancels the context;
from then on queries may fail even while they wait for a connection.

The write of `err` at line 237 and the test at line 238 are not synchronized between the through
tails of a call. The test may see what the goroutine wrote itself or what another wrote since;
`CallThrough` chooses between the two. Tests of an interface value against nil look at one machine
word, so there is no third outcome.

`finalizeItems` never returns an error in the code as it is (all its paths return nil), so there is
no failing `Finalize`. A panic in a goroutine ends the process and is not modelled. A request may
come again after its reply, with fresh variables: behaviours never end.

### TailStitch and PolyStitch

Both take the rows of one child query as a table chosen in `Init` and run the algorithm of one
branch, item by item. A row of `TailStitch` keeps its foreign key, which the code deletes from the
output, and carries `wrapped` while the final row lies inside the row of the intermediate model. The
filters `where` and `through_where` are part of the choice of the table. A final row all of whose
selected fields are null is collapsed to null before unwrapping and is `None`, like no row. The
formatter of a preset field, a legacy path in the stitching loop, is left out. `PolyStitch` finds the rows of a type by the key they carry (`ByKey`):
nothing adds that key to the child preset, and `keyed` are the types whose preset happens to select it under its own name.

`Shapes` tells the relations apart: has_many or has_one, direct or through, whether the final preset has
branches of its own, whether intermediate rows may lack a final row.

### PresetGraph

A recursive walk of the code is a set of frames `todo`, the arguments of its recursive calls still to
come. The code goes depth first; the model visits all frames of one depth in one step, and so the
same places. Which error is reported first is all that gets lost.

| Phase | Code |
|---|---|
| `link` | `LinkModelRelations`, as far as it finds models and nested presets |
| `validate` | `dfsPresetWithPolicy` from every preset |
| `collect` | `collectPresetRelationPaths` from every preset, then the numbering in `buildPresetAliasMapsForModel` |
| `ready` | the server waits |
| `alias` | `BuildAliasMap` for one call of the resolver: `NextExtraPath` takes the next path of `mergeAndSortPaths`, `EnsureSegment` is one round of the loop of `ensureAliasPath` |
| `scan` | `ScanPresetFields`, `ScanColumns`, `collectTails`, `collectPolyTails`: the four follow the same belongs_to fields, and are one walk; then `DetectJoins` |
| `tails` | the branches; `CallTail` is the next call, of a branch that has rows |
| `failed`, `refused`, `unjoined` | startup fails; a filter path is refused; a join has no alias |

`trail` is the way of models from the user's request to the running call, so that the recursion of
calls can be measured; only one branch is followed at a time, since branches do not influence each
other's depth. That stacks are finite appears as `StackLimit`: a walk that gets there goes on no
further and counts as endless. Shortcuts (`aliases:`) are taken to be expanded; through relations are
left out (their synthetic preset brings a map of its own), and so are `order` and `where` of
relations, which add filters and sorts to a branch.

### StatsAliasMap

Several requests with one cache key: `Hit`, `Build`, `Store` are `CreateAliasMap`, `Evict` any way an entry
gets lost. `DetectNextAliasIndex`, `SkipPath`, `NextAlias`, `EnterPath`, `EnterAlias` are the steps in which
`ensureAliasPath` adds a path to the shared map, one access to the map each, since no lock makes them one
step; `DetectJoins` then reads the aliases. `Fatal` is the Go runtime noticing that a map is accessed during a write.

### Inheritance

`ReadFile` and `ReadTemplate` validate keys (`validateYAMLNode`) and parse; `Pick` is one round of the loop over
the map of presets - any of them, since Go's map order is none; `Descend`, `MergeParent`, `Leave` are `dfs` of
`resolvePresetInheritance`, whose recursion is the variable `stack`; `IncludeTemplate` is the rest of
`applyTemplateIncludes`, `Register` the end of loading. A field is the key it answers to and the place it
was written at, which is all that merging looks at. `Meaning` and `Merged` say what a file means without any order of
work; the properties compare with that.

### Filters

`Take`, `Substitute`, `Follow`, `Stop` are `ExpandAliasPath`, a turn of its loop each; `Normalize` is
`NormalizeFiltersWithAliases`, `Join` the collection of relation paths from filters and computables, after which
`buildHasManyCTEs` moves each has_many path that a computable is computed over to a CTE and `filterJoinSpecs` takes its join out of the main query (`joined`, `ctes`),
and `BuildWhere` is `buildWhereClause` with the split into WHERE and HAVING.

The filters of a request are a group of conditions and further groups, as JSON decodes them; `Places` are the ways down from the
whole to a group below it. Definitions go over a tree level by level: a function on the levels from 0 to `Depth` says
what belongs to the groups of each level, from what belongs to those one level below. An expression is a tree of atoms in `Layers`. As
in the code each part of it carries the flag that `buildCond` gives it (`Atom`) and `buildGroupExpr` combines
(`Combine`); where a conjunct goes is decided by the flag (`Conjuncts`), not by looking into the tree.

`FilterMeaning` says what SQL makes of an expression for a row (`Eval`), with three truth values, and what the filters mean
as they were written, before any step of the code (`Asked`). Both are functions on levels too. `Denotes` reads a path once from left
to right and knows nothing of `ExpandAliasPath`, which keeps the whole path and a position in it; `Turns` bounds how often it looks at a
path. `Unambiguous` excludes requests in which two keys of one group name the same fields with the same operator, one by
a shortcut and one by its path: `NormalizeFiltersWithAliases` makes one key of them, and the condition that comes later
in the order of Go's map replaces the other. Such a request is among those of `MCFiltersRows`, for the other properties.

### Templates and Finalize

`Templates` has the template language: values are tagged, as Go's interface values are, and texts are sequences
of characters. A map with all that is in it is a function on paths of keys, so that looking into it, deleting a subtree and
moving one are operations on the domain. Ternaries in ternaries are unfolded from the outside in, `MaxNesting` times.

`Finalize` follows one row of the database: `Scan` is the shape `ScanColumns` and `FoldFlatRowByPreset` give it (a container is
there if a column in it is selected), `Attach` puts the has_many branches in, and the passes of `finalizeItems` follow in
their order (`After`). The code walks a preset and the presets of its belongs_to fields, with a prefix of sources; the fields
are one list here, each with its prefix, in the order in which those walks are done with them - what is in a container before the
container. A pass takes the fields it is concerned with (`Work`) in this order, one step each (`Turn`):

| Action | Code |
|---|---|
| `AliasField` | `applyFieldAliases`, for a field of the item itself |
| `CollapseContainer` | `collapseEmptyBelongsTo` |
| `LocalizeField` | `applyLocalization`, for a field of the item itself |
| `ComputeNode` | the execution of one node in `applyAllFormatters`, in the order of the list `insertByDeps` made of the nodes of its map (`NodeList`) |
| `RemoveFields` | `collectInternalMarkers`, `deleteExactPath` and `deletePrefix` |
| `RenameContainer` | `applyPresetAliases` |
| `PassEnds` | the next pass begins |

At the field level the dictionary is asked for an integer exactly if the preset calls the field one (`ofInt`, `FieldKey`), and a value that is none has no translation there.
The unwrapping of through branches is in `TailStitch`; formatting of dates and fields that copy a whole container
(`nested_field` to a map, which the copy would share) are left out.

### LogTail, Jwt and Server

The log is a sequence of cells, so that a chunk may cut a line. `BeginWrite` and `EndWrite` put a line into the file in two
pieces (a reader may see the first without the second); `OpenLog`, `ReadChunk` and `FinishTail` are `readLogTail`.

`ValidateToken` translates the checks of `jwt.go` in their order, on claims as whole seconds; cryptography
is external: a signature verifies under the key it was made with and no other.

`Server` composes them. `InitPostgres`, `InitRegistry`, `InitRoutes`, `CannotListen` are `main`, each of which may
end the process. A request is a record with a stage:

| Action | Code |
|---|---|
| `Arrive` | a client sends a call; while the server listens |
| `Answer204` | `withCORS` answers a preflight request |
| `Refuse` | `withAuth` (a preflight request is answered before it, outside `withLogging`, and is not logged) |
| `Handle` | the handler up to what it waits for, or its answer: `IndexHandler`, `StatsHandler`, `LogsHandler`, `ProbeHandler` |
| `Query` | one query of the handler, answered or refused; also the mapping of errors to status codes. It has no time limit, and waits while the database is silent |
| `Cancel` | a query or ping whose client has left ends with an error |
| `Ping` | `dbReadyFunc`, with its timeout of two seconds |
| `Open`, `Read`, `Finish` | `readLogTail` |
| `Log`, `Logged` | `withLogging` after the handler: a line in the log |
| `DatabaseStops`, `DatabaseRefuses`, `DatabaseReturns`, `Disconnect`, `Tick` | the environment: a database that is away refuses calls at once or is `silent`, that is, takes them and does not answer |

## 3. What the runs check

| Run | Expectation | Question |
|---|---|---|
| `MCAliasCacheAll` | pass | by what is the byte count wrong, do limit and expiry hold up to that in every interleaving, and is the cache invisible? (refinement) |
| `MCResolverRace` | pass | complete stitching, nothing left running, no hold-and-wait, all-or-nothing answers (refinement) |
| `MCResolverPool` | pass | is every request answered, with one connection for all? (liveness) |
| `MCPresetGraphSound` | pass | do all walks end and agree, does every join have an alias of its own, are filters accepted as deep as they should be? |
| `MCInheritanceLoad` | pass | does a file that loads mean what it says, whatever the order of work, and are faults found? |
| `MCFiltersRows` | pass | does the query select the rows the filters ask for, with every relation joined that no CTE takes? does its making end? |
| `MCItemsAll` | pass | is a has_* branch the join of its item, does every item get the row it refers to, does the client get what fields, row and dictionary say? |
| `MCServer` | pass | are tokens, log tails, status codes, readiness and CORS right while time passes, the database comes, goes and falls silent and clients leave, and does every call end that does not wait for a silent database? |
| `MCStatsAliasMapShared` | violation | do two relations of a statistics query always have different aliases? |
| `MCPresetGraphDepth` | violation | does a request keep to `max_depth`? |
| `MCAliasCacheLimit` | violation | do the cached maps keep to `ALIAS_CACHE_MAX_BYTES`? |
| `MCFiltersJoins` | violation | is every relation in the path of a condition joined? |

**Bounds.** `AliasCache`: two goroutines are enough for every race on one key (a miss by both; a
store between a miss and a store; a touch with an old time); a limit of 2 against maps of sizes 1, 2
and 3 makes refusals, replacements, a full cache and maps too large to cache happen; one request cannot
be built, and one is for statistics with two metrics, of which `ensureAliasPath` refuses one (`MaxGrown` 1: it comes until a cached map has grown, which is enough
for the count to fall below the bytes cached; four addresses are as many as entries and goroutines can hold at once, so none is ever lacking); a horizon of three TTLs lets entries expire between sweeps and at sweeps. `Resolver`: two through
tails race on `err`, a third tail has a tail, a polymorphic branch follows the join; the second run adds a
second request and leaves one connection. `TailStitch`: three rows and three items exceed the limit of two and
let items share a key, lack one, or differ. `PolyStitch`: two items, two models with the same ids, one
type without a model, and every choice of presets that select the key. `PresetGraph`: two models with a relation from a model to itself, a cycle of two and a
polymorphic relation; limits of 0 (the default), 1, 2 and 3, at the relation and the field, reentrant and not;
presets that select themselves or end; a formatter that names the relation its preset selects; every subset of three filter paths of length three, one of which
goes deeper than its relation allows and one through the polymorphic relation. `StackLimit` exceeds every
depth `max_depth` allows there, `MaxHops` lets a request come back to its model three times.
`Inheritance`: three presets extend each other in every way (chains, diamonds, cycles, missing parents), one or two
templates share presets and relations with the model. `Filters`: three models in a cycle of relations, with shortcuts
to shortcuts; every operator; groups nested three deep, enough for each way of nesting "or" and "and" below the other
and for aggregates in the middle; rows in which any field may be null; aggregates over a has_many relation, one always shown and one only if a filter asks for it; `Depth` 2, since the lowest of three levels of groups is two below
the first (Go's decoder has a limit on nesting too; a request that is deeper than `Depth` would make `RequestsAssumption` false), and `Turns` 6, more than the longest chain of shortcuts and relations
there takes (`TurnsAssumption`). `Finalize`: four formatters with every acyclic way
of mentioning each other that the insertion can order (errors need three); containers in containers with branches, aliases and
internal fields; every comparison with its opposite over null, numbers and texts; every dictionary over the paths of a field; ternaries are nested at most two deep (`MaxNesting`).
`Server`: six configurations (faulty and empty registry, unusable and usable keys, skew 1 and a negative one, origins
listed and `*`, with and without credentials); two requests; chunks of three cells against lines of two and a newline, after
an old log whose last line is torn, so that lines lie on both sides of a chunk's edge; `MaxNow` 3 covers tokens that are
about to be valid, valid, just expired and expired beyond the skew; one outage of the database, which refuses calls or is silent, and a client that may leave during it. Time passes only while a
token is to be judged and the database changes only while a call needs it: nothing else reads either.

**Fairness.** `AliasCache` states safety only. `FairSpec` of `Resolver` has weak fairness for the steps of goroutines,
which the Go scheduler provides; the database is assumed to answer each query somehow - the code sets no
query timeout, so without this assumption a request may hang for as long as its client stays
connected. A call waiting for a connection needs strong fairness, since the connection is free only at
times; the pool serves its callers in the order they came, which justifies it. With weak
fairness alone TLC shows a call starved by the others. `Inheritance` and `Filters` are sequential code,
which takes the next step it can take: `WF_vars(Next)`. `Server` has weak fairness for the steps of
each request (goroutines are scheduled, and the logger's mutex is held for one line) and none
for clients, the clock and the database. `Query` is possible only while the database is not silent, so that weak fairness promises nothing of a query
that is never answered or refused: `EveryCallEnds` excepts just these (`WaitsForEver`), for which the code has no timeout; `Ping` ends by its own timeout, `Cancel` when the client has left.

**Deadlock** is not checked where the program stops: a model is loaded, a query made, an item finished, or the
clients of the server have no further call.

**Violations.** Each of the four runs contradicts a statement of the documentation or of a comment; the
statement is quoted with the finding in `PROJECT.json`.

1. *Shared map changed in place* (`aggregates.go:198`): a statistics request adds the paths of its metrics to the map
   that the cache serves to others too. Two such requests give two relations one alias, and the metric of
   one of them is computed from the wrong table for as long as the map stays cached; or Go ends the process.
2. *max_depth ignored by requests* (`ScanPresetFields.go:95`, `resolver.go:245`): a preset that selects itself is
   followed as deep as the data goes through has_*, and without end through belongs_to, although the same
   preset is valid and its alias map ends where it should.
3. *Cache beyond its limit* (`alias_cache.go:95`): a map's size is added to the count when the map is stored and subtracted, as it then is, when it is replaced or swept;
   what statistics have added to it meanwhile (`aggregates.go:198`) is subtracted without ever having been counted. The count falls below the bytes cached, or below 0, and `set` stores more than
   `ALIAS_CACHE_MAX_BYTES` (DOCS.md:367). How far is proved: `WithinLimit`.
4. *A CTE takes a join away* (`BuildIndexQuery.go:85`): a computable that aggregates over a has_many path is computed in a CTE, and the relation is no longer joined in the main query, although another
   condition of the same request goes through it; the query then names an alias it does not have (DOCS.md:141).

### Divergences without a run

These have no run of their own; the inputs of the passing runs leave them out. Where a way is given, TLC
shows the property named violated with it.

| Divergence | How to see it |
|---|---|
| `get` deletes an expired entry but leaves its bytes in `totalBytes` (`alias_cache.go:55`); only the sweep subtracts, and `set` then refuses maps that fit (DOCS.md:367) | `lost` in `CountDriftExplained`: with `totalBytes + grown = CachedBytes` as invariant of `MCAliasCacheAll` |
| The cache key contains the preset's name, and synthetic presets of through relations reuse names (`alias_cache.go:121`, `MakeThroughRequest.go:123`): the map served may be another preset's. The assumption `KeysTellRequestsApart` of theorem `Transparent` is needed | `CacheIsTransparent` with two requests of `MCAliasCache` that differ in `fields` only |
| has_many through to a preset with branches: the child request already unwraps, and the parent's second unwrapping drops every element (`finalizeItems.go:507`; DOCS.md:973) | `BranchIsJoin` with `Shapes <- ThroughManyTree` |
| A has_one through relation whose intermediate row lacks a final row yields the intermediate row instead of null (`finalizeItems.go:501`) | `BranchIsJoin` for `Relation(FALSE, TRUE, FALSE, TRUE)` |
| Polymorphic branches below a belongs_to container read their reference from the root item (`resolver.go:341`; the comment at :472, DOCS.md:1459) | `BranchIsReferenced` with the container among `Levels` |
| A polymorphic branch whose child preset does not select the primary key is always null (`resolver.go:385`), since rows are grouped by a key they do not carry | `BranchIsReferenced` without `keyed` in it |
| Where `max_depth` cuts a chain of belongs_to presets that ends by itself a little further on, the collected paths are too few, and `DetectJoins` fails with "alias not found" (`DetectJoins.go:87`) | `JoinsHaveAliases` for a belongs_to relation with `max_depth` 1 to a preset that selects another belongs_to relation |
| A formatter that names a relation its preset does not select fails in the same way, although `ScanPresetFields.go:21` means to prepare for it | `JoinsHaveAliases` for a token outside the preset |
| An internal field in a container under an alias reaches the client (DOCS.md:1219) | `OnlyVisibleKeys` with `Cases <- HiddenCases`, which `SensibleCases` excludes (`MCFinalize` without its ASSUME) |
| A container whose only data lies in nested containers or lists collapses to null, against the comment at `finalizeItems.go:172` | `OnlyEmptyContainersNull` as invariant of `MCFinalize` |
| A field the model gives to a preset that a template's preset extends does not reach that heir, which was flattened before (DOCS.md:773) | `OverridesReachHeirs` as invariant of `MCInheritance` |

Seen while reading, and kept as they are in the models or left out with the inputs:

- `isAggregateValidationError` looks for the word "relation" in any message, so that a missing table is answered with 400
  (`stats.go:187`; `AnswersMatchDatabase` excepts missing tables). An unknown model or preset gets 500 from `/api/index` where
  DOCS.md:298 has 400, and 404 from `/api/stats`, which checks no method.
- With a wildcard origin and credentials an answer to a call without `Origin` is `*` and has no `Vary`.
- A line torn by a crash is glued to the first line of the next process in the log, and both are lost to the reader.
- An audience of `","` is accepted as a setting, and then no token is valid.
- Filters: the CTE of a computable joins its has_many path and nothing else, so an expression that reads another relation, or a relation on the way to that path, names an alias the CTE lacks
  (`cte_helpers.go:125`); paths below the one that moved stay joined, by way of a relation that is not.
- Filters: computables used only inside or/and groups or composite keys get no joins (`EveryPathJoined` states what does get one: the relation
  of every condition, and the paths of a computable that is alone in a key of the outermost group); of two keys that expand to one path
  either may win (the order of a Go map); shortcuts that expand into each other never end; a key with both `_or_` and
  `_and_` is split at `_or_` only; `lt`/`gt` with null are errors.
- Finalize: integers from the database do not match integers of the dictionary above the field level; nothing
  is localized inside belongs_to containers; two containers that swap source and alias, or the same relation selected
  under two aliases, lose data; an alias on the primary key before a has_many relation leaves the branch unloaded; null
  compares as the empty text, so that `null < 5` holds in a ternary; a formatter
  that an earlier one mentions and that mentions an earlier one itself is computed only after the one that
  reads it (`S`, `A` that reads `X`, `X` that reads `S`); `FormattersSeeDependencies` is about all other orders (`OrderlyCases`).
- A template's field with `alias: skip` remains when the preset is not in the model (DOCS.md:774).

The race on `err` in the through tails, on the other hand, turns out to be harmless: `AllOrNothing` holds in spite of it. A
tail that misses its own error goes on with an empty request, which fails for want of a model; a tail
that sees another's error fails, but then the whole request fails anyway. The property depends on
that accident, as the mutant `PrepareAnyRequest` shows.

## 4. What is proved

TLAPS checks the following for all values of the constants, not only for the small ones of the runs.

| Module | Theorem | Statement |
|---|---|---|
| `AliasCacheProofs` | `TypeCorrect` | `Spec => []TypeOK` |
| | `DriftExplained` | `Spec => []CountDriftExplained` |
| | `WithinLimit` | `Spec => []CacheWithinLimit` |
| | `ServedHasKey` | `Spec => []ServedMapHasKey` |
| | `SweepsClean` | `Spec => []SweptClean` |
| | `EvictsIdle` | `Spec => EvictsOnlyIdle` |
| | `Transparent` | `KeysTellRequestsApart` implies `Spec => CacheIsTransparent` |
| `ResolverProofs` | `TypesHold` | `Spec => []TypeOK` |
| | `StitchesComplete` | `Spec => []CompleteStitch` |
| | `LeavesNothingRunning` | `Spec => []NothingLeftRunning` |
| | `HoldsOrWaits` | `Spec => []NoHoldAndWait` |
| | `AllOrNothingHolds` | `Spec => AllOrNothing` |
| `ServerProofs` | `TokenAccepted` | `ValidateToken` accepts a token exactly if it is genuine and current by some clock within the skew |
| | `TokensAlwaysJudgedRight` | `Spec => []TokensJudgedRight` |
| | `AnswersAlwaysMatchDatabase` | `Spec => []AnswersMatchDatabase` |
| | `AlwaysVaryWhenDependent` | `Spec => []VaryWhenDependent` |
| | `TailAlwaysExact` | `Spec => []TailExact` |
| `ItemProofs` | `BranchIsAlwaysBeginningOfJoin` | `ShapesKeepPlace` implies `Spec => []BranchIsBeginningOfJoin` |
| | `BranchIsAlwaysJoin` | `ShapesKeepPlace` and `ShapesUnwrapOnce` imply `Spec => []BranchIsJoin` |
| | `BranchesAreReferenced` | `Levels = {"root"}` implies `Spec => []BranchIsReferenced` |
| | `OnlyVisibleKeysAlways` | `SensibleCases` implies `FinalizeSpec => []OnlyVisibleKeys` |
| | `ContainersKeptAlways` | `SensibleCases` implies `FinalizeSpec => []ContainersKept` |
| | `LocalizedAlways` | `SensibleCases` implies `FinalizeSpec => []Localized` |
| | `FormattersAlwaysSeeDependencies` | `SensibleCases` and `OrderlyCases` imply `FinalizeSpec => []FormattersSeeDependencies` |
| | `OppositesAlwaysAgree` | `SensibleCases` and `OrderlyCases` imply `FinalizeSpec => []OppositesAgree` |
| `PresetGraphProofs` | `CutsOnlyAtMaxDepth` | `Spec => []CutOnlyAtMaxDepth` |
| | `AliasMapAlwaysTree` | `Spec => []AliasMapIsTree` |
| | `PresetPathsAlwaysAccepted` | `Spec => []PresetPathsAccepted` |
| | `AddedPathsAlwaysBounded` | `Spec => []AddedPathsBounded` |
| | `RecursionAlwaysEnds` | `StackSuffices` implies `Spec => []RecursionEnds` |
| | `JoinsAlwaysHaveAliases` | `NothingCutOff` implies `Spec => []JoinsHaveAliases` |
| `InheritanceProofs` | `PresetsNeverTwice` | `Spec => []NoPresetTwice` |
| | `RelationsAlwaysDeclared` | `Spec => []RelationsAsDeclared` |
| | `FieldsAlwaysDeclared` | `Spec => []FieldsAsDeclared` |
| | `FaultsAlwaysFound` | `Spec => []FaultsFound` |
| `FiltersProofs` | `AggregatesNeverInWhere` | `Spec => []NoAggregateInWhere` |
| | `PathsAlwaysJoined` | `Spec => []EveryPathJoined` |
| | `RowsAlwaysAsAsked` | `Spec => []RowsAsAsked` |
| | `ConditionsNeverLost` | `Spec => []ConditionsKept`: every condition that applies is in WHERE or HAVING |

**AliasCache.** The theorems rest on the inductive invariant `IndInv`. Nothing is assumed of callers: maps are shared by address, and
`AddMetric` changes one that the cache, and other callers, may hold. The byte count is therefore neither a bound nor positive; what can be said of it is an equation
(`CountDriftExplained`): the count and what cached maps have grown by are together the bytes cached and those of the entries that `get` deleted. It is
kept by every step because `set` and the sweep count each map at the size it has at that moment - sizes are cardinalities of the disjoint union `Cells`, so that the
library's facts on finite sets apply, and no recursion is needed - and a map that grows adds as many bytes to the cache as to `grown`, since no two entries share a
map (`SharedByKey`). With it, that `set` tests the counter (`CountInv`) gives `CacheWithinLimit`: limit and growth together are exceeded by nothing.
`SharedByKey` also says that callers who share a map have one key, and that a map not yet stored is its builder's alone; so what is added to a served map was asked for
under its key (`ServedMapHasKey`, with `EntriesHaveKey` and what a goroutine holds at each place, `ThreadInv`). `SweptClean` and `EvictsOnlyIdle`
need `ClockInv`: no time in the cache lies in the future, and a goroutine waits at most `MaxWait <= TTL`
for the lock; otherwise a goroutine could store an entry that is already overdue. The refinement maps
`pc` to the phase of the service and the map at a goroutine's address to its reply; `AddMetric` is `Grow` for all who share the map. Assumptions: `RequestsAssumption` (path sets are
finite), `AddressAssumption` and `TimeAssumption`.

**Resolver.** `Tree[c]` is defined as a least closed set, so that "true of `c`, and handed on from
each call to its branches" gives "true in `Tree[c]`" without recursion or induction over data (`TreeLeast`). The
invariant `IndInv` has three parts. `Control` says, edge by edge of the tree, how the place of a call and
the place of its parent fit together: a branch runs only while its parent waits for it, nothing is known of
a branch before its parent has its rows, and a parent is past `wg.Wait()` only if each of its tails was skipped or
has left with its rows grouped. `Counts` says that `wg` is the number of running tails, which makes
`wg = 0` mean what `Join` needs, and that the pool lacks as many connections as calls read rows. `Results`
relates results, groups, `rerr` and `err` to the failures below a call (`Bad`): what makes the shared
`err` harmless is that `err` or `rerr` of a call is set only if a tail of it has failed, and that a tail which
misses its own failure is `broken` and cannot pass `Prepare`. From `Control`, nothing runs below a call that is over
(`NothingRunsBelow`), hence nothing more can go wrong there (`BadSettled`), and results stay true. In the
refinement `Receive` is `Ask`, `Reply` is `Answer`, a step that sets `broken` is `GoWrong`, all others stutter.
Assumptions: `CallsAssumption` (finitely many calls, each in the tree of a request) and `PoolAssumption`.

**Server and Jwt.** `ValidateToken` compares the clock three times, each time with the skew; the lemma `SomeClock` shows that
the three together mean one clock within the skew by which all three claims hold, provided the issuer does not
contradict itself (`Consistent`: `nbf` and `iat` are not later than `exp`). `IndInv` says of each request's record what is
settled at its stage (`Waiting`, `Answers`) and that its witnesses include the database as it is now (`Witness`), silent or not; a
reader of the log that is done belongs to a request that waits for it (`ReaderInv`), since the end of the reading
is the answer. Assumptions: `CallsAssumption` (routes are those of the router; times, and the limits of calls for the log,
are integers) and `ReadersAssumption` (a reader for each request).

**LogTail.** What a reader knows is `Looks`: the lines of the file, as it was when it was opened, are the lines of what is still
to be read followed by the remainder, and then lines that are done; the remainder holds no newline, and the entries are those
of the done lines that pass, from the newest and up to the limit. Two facts carry it over a chunk. `LinesOfTwo`: the lines of
two texts put together are those of the first, those of the second, and one in the middle made of the last line of the one and the first
of the other - so a line cut by a chunk is whole again when the remainder is glued to the chunk before it, at whatever place it
was cut. `FoundOn`: to look for the newest among two lists of lines is to look in the second and, for what the limit leaves, in the
first. At the end `FoundInOrder` turns the entries round. `LogGrows` says that nothing a writer appends changes the cells
a reader has opened, half a line included. `LogInv` puts this beside the invariant of the requests, which
knows that a call that reads the log asks for a positive number of lines (`LogAnswers`). Further assumption: `LogAssumption`
(what is left in the log is a sequence, lines have a width).

**TailStitch.** A page of the child query, grouped by key, cut to one row for has_one, and unwrapped in one or two places is
compared with the join of one key. All of these are selections from a sequence (`Keep`), and the lemmas of `CommonLemmas`
say that selections commute with each other, with the beginning of a sequence and with a map of its elements; the rest is to follow the
branch of one item through `Fetch`, `Stitch` and `Finalize`. `ShapesKeepPlace` excludes has_one relations whose intermediate
row may lack its final one (and has no branches that would have it unwrapped early), `ShapesUnwrapOnce` the has_many relations
that are unwrapped twice: for both the code gives something else (see the divergences), and the relations of the run are the others.

**PolyStitch.** What has been fetched is right for every type that is no longer to be fetched (`Settled`), so the order
in which the map of types is walked cannot show, and each child request may only add rows of its own type. What of these is found by the reference's key is the row it names, if the type is `keyed`, and else
nothing, since a row without the key answers to no reference. The condition
`Levels = {"root"}` is needed: below a belongs_to container the reference is read from the wrong row (see the divergences).

**Finalize.** The properties hold of presets that are `SensibleCases`: the fields of a map answer to different names, so that no alias
is another field's source (two containers that swap them lose data, see the divergences); a column that has_many rows are joined by
keeps its name; what is internal has no other name (or is not removed); what is computed has a name; from each container a column is selected
(else it is not there at all); and columns hold no maps. TLC evaluates `SensibleCases` for the presets of the run, so they
are not empty words. The base is `ItemInv`: the item stays a tree, in which each value lies in a map that is there, and until the first
pass changes anything it is what was read (`Filled`). Each pass at a field then changes only what lies under the field's
source or target (`PutItem`, `MovedItem`, `DropItem`, `RemoveItem`), and since names are apart, nothing that lies under another field.

*Localization* (`LocalInv`): a localized field is the column until its turn in the pass, and from then on the translation; no pass afterwards
writes to its place, removes or renames it. That the first hit in the list of lookups is the most specific translation
is a matter of the list alone (`MostSpecific`).

*Keys* (`KeysInv`): while containers are renamed, a field lies under the present names of the containers around it
(`PathIn(Renamed, ...)`), those in `Renamed` with their aliases, the others with their sources. Three facts hold between any
two steps: each path of the item is that of a field or a has_many key that is left (`Knows`), each field that is left is there when the
map around it is (`Present`), and no container that is to be renamed finds its alias taken (`Free`). The last is what makes the others
inductive: if an alias were taken, `applyPresetAliases` would drop the container instead of moving it. Since a
container is renamed after those in it, its new name changes only the first part of the paths that are already final
(`RenameGoes`, `RenameKnows`); at the end every name is the client's (`ClientPath`).

*Containers* (`DataInv`): until its turn in the collapse pass a container is `Intact`, that is, it is a map with its columns in it, and a
scalar lies directly in it only if one of them is not null (a has_many branch is not even a list when the key is null).
So the emptiness that the pass finds is that of the columns (`CollapseDecides`), and from then on it is `Decided`: wherever the container is found, it
is null or a map as its columns say. Containers inside have collapsed before, which the rule does not count; those that are still to come are not
inside (`CollapseIntact`). This takes `Free` from `KeysInv` twice: the pass would else collapse what lies under the alias, and the last one drop the
container. That the container is there at all is `Present`.

*Formatters* (`FormatInv`): what `applyFormatter` makes of a template depends on nothing but the values at paths of names that stand somewhere in the template,
unused branches included (`SameText`, level by level of its ternaries). So a text that has been made stays what it should be
(`Right`) as long as no other node writes at, above or below such a path; a node that writes to the same map must be one that the formatter mentions,
one that writes in a map below must be in a container below, and none writes above (`NotRead`, `NotAbove`). Hence it is enough that with each computed node
all it mentions, and all nodes below, are computed too (`Seen`); the second is the order of the walk, the first the order of the list.
`insertByDeps` puts a node after the last one it mentions, and nothing that is put in later may have to come before one that is already there:
`OrderFits` says just this of the order in which fields are given, and then no node stands in the list before one it mentions (`InsertLists`, `NodesListed`).
`OrderlyCases` adds that no template mentions itself and that templates have the form the parser gives them. TLC evaluates it for the presets of the run too.

*Opposite conditions* (`AgreeInv`): of two opposite conditions one holds, whatever is compared with what, booleans excepted (`OppositeValues`); so both templates
are the same from their first ternaries down, and what they make is the same (`SameSaid`). After the pass nobody writes to or removes a formatter's place.

**PresetGraph.** Several arguments share one invariant. *Validation covers collection*: there is a set of places
that validation has found in order and that leads only to itself and to what is still to visit (`Passed`, `ValidInv`);
when nothing is left to visit the set is closed, and as collection goes on only where validation does, its places
stay in it. *The map is a tree*: collected paths are closed under prefixes (`PathsInv`), a total order numbers them
apart (`BeforeIsTotal`, `NumbersDiffer`), and `ensureAliasPath` registers the prefixes of a path one by one, each with a number that
is free among one more candidates than there are paths (`AliasIsNew`). *Preset paths are accepted*: each collected path
leads along relations that exist (`Leads`), the cursor stands at the model the path leads to (`CursorOK`),
and all prefixes are registered already. *Added paths are bounded*: the models along an added path are those the cursor passed, so
that what `MayEnter` counts there is what the path shows. *Walks end*: at startup a model is on the stack at most as often as
the largest `max_depth`, so the stack is no longer than that many times the models (`StackIsShort`, an injection into a finite
product); a request follows belongs_to fields without counting, and ends because presets descend. `StackSuffices` says
just this of registry and `StackLimit`; a belongs_to field that leads back to its own preset is the second violation of section 3.
*Joins have aliases*: the walk of a request visits no preset whose path the walk at startup has not recorded
(`CoverInv`, the reverse of the argument on validation), as long as `max_depth` cuts nothing off on the way down belongs_to fields and
the tokens of formatters name what their preset selects; these are the two conditions of `NothingCutOff`, and the code fails
without either (see the divergences). Least numbers, which the library gives only by induction, come from the
well-foundedness of finite sets under inclusion (`MinOfNats`). Assumptions: `PresetGraphAssumption` (names are ordered
without ties) and `RegistriesAssumption` (presets belong to models and are finite).

**Inheritance.** `LoadingInv` types the loader's variables without naming types: presets are functions from names to records whose
lists are sequences of whatever is in them (`IsPresets`), a frame of the stack is for a preset that exists, its `parent` is a
place among that preset's parents or just behind them, and the preset a frame waits for is the one of the frame above. With it,
`dfs` calls only for presets that are neither on the stack (`OnStack`) nor resolved, which is `NoPresetTwice`.
`RelationsInv` says what the relations are after each template: an attribute is what the first text among the model and the templates so
far says of it (`Said`), since the empty text counts as nothing said.
`MeaningInv` is about the fields. What a preset means is seen from a number of levels up, and a preset that is resolved means the same from
as many levels up as presets are resolved, or more (`WorkMeans`): its parents were resolved before it, so fewer levels were enough for
them. A frame holds the override of the fields of the parents merged so far, since merging fields into an override is the override of
both in a row (`mergeFields(Overridden(x), s) = Overridden(x \o s)`). Once all are resolved, the presets mean what they hold. The presets of
the model follow template by template: leaving out skipped fields keeps the keys distinct, so merging a template is one more step
of `MergedTo`.
`FaultsInv` is about the errors. The contexts of `validateYAML` are followed along a path, from each key of the top, to the few places
where `WellFormed` says something of it. A preset that is resolved is `Settled`: it extends only presets that were resolved before it, so it
is not among its own ancestors, and when all are settled there is no cycle and nothing missing. The other way round, each call on the
stack is for a parent of the preset before it, so a parent that is already on the stack is its own ancestor; the chain is not longer
than there are presets, since no two calls are for one. Assumption: `FilesAssumption` - what the program decodes a file into:
lists are sequences, and the relations of all texts have the same attributes, since all are of one Go type; a text that cannot be decoded is not a
file of the model, and a path in the YAML is not longer than decoding allows.

**Filters.** Filters and expressions are trees, and what the code computes recursively is defined as a function on levels. That such
functions exist, and what each gives for a level, is shown once (`PlacesAre`, `LayersAre`, `ExpressionsAre`, `RekeyedIs`); after
that no recursion is left, and trees are followed from the whole to its parts. *Aggregates*: an expression `Fits` if
its flag covers the flags of its parts and those fit one layer lower. What `buildGroupExpr` returns fits (`WholeFits`), so an atom
anywhere in an expression without the flag is no aggregate (`AtomsFit`), and WHERE takes only expressions without it. For this the
layers must reach down to the last atom: a group becomes at most two layers (its keys, and the fields of a composite key), hence
`LastLayer`, below which there is nothing (`NothingBelowLastLayer`; `LayersAlwaysSuffice` states this of every query, so that the
other theorems cannot hold for want of looking). *Joins*: a condition of the normalized filters is one of the filters that were sent, with
its path replaced by what `ExpandAliasPath` made of it, at the same level (`RekeyedGroups`), and the paths to be joined
are collected over all levels; those of computables are joined too. Of them `Join` moves only paths that are the has_many path of a computable in use (`ComputedOver`), which are the domain
of `ctes`, so any path a condition reads is joined or is one of these. An aggregate that is in a CTE is a column there (`Overridden`) and no aggregate to `isAggregate`. *Conditions*: each one that applies is an atom of the conjunct made from its key, and each conjunct goes to
exactly one of the two clauses; here the argument goes up the tree, from a condition to the whole (`CondPresent`,
`AtomPresent`). Assumptions: `ModelsAssumption` (paths are sequences of names) and `RequestsAssumption` (groups are well-formed and nested
no deeper than `Depth`).

**Rows.** `RowsAlwaysAsAsked` compares two meanings: what SQL makes of WHERE and HAVING for a row, and what the filters meant before the
code touched them. *Paths*: wherever the cursor is, some step of `Denotes` is there too, with what is done before the
position and what remains after it (`ReadingInv`, `ReadingStepHolds`); when `Stop` gives up a path, so does `Denotes`
(`ReadStays`), hence in the end `expanded` is what the paths denote (`ExpandedAreRead`). *Groups*: in an unambiguous
group all conditions survive (`AllSurvive`), so the expression of each condition has the truth that was asked for (`CondWorth`), nulls
included; what holds of parts holds of their combination (`CombineWorth`), and with the number of levels below a
group this goes up from the deepest groups (`AllGroupsWorth`). No expression counts as no condition: `None` is worth "-". *The split*: the
groups that only "and" leads to correspond, before and after the expansion (`LevelsAlike`), so do their conjuncts
(`ConjunctsWorth`); a row is asked for when all these answers are "T" or "-" (`AskedLevelByLevel`), and that is when WHERE and HAVING
are both true, whichever of them a conjunct is in (`RowsOfParts`). Nothing is assumed of the rows, nor of what an operator does with
a value. Assumptions: those above and `TurnsAssumption` (the shortcuts in the requests can be read in `Turns` steps;
`QueryBuilt`, that the code ends, is a matter of the same shortcuts).

**Induction.** The induction theorems of the library take a predicate as a parameter, with which the provers at hand cannot
work. Where an argument needs induction, the set of numbers, or of sequences, for which the claim holds is formed instead,
and `InductionOnNats` or `InductionOnSeqs` of `CommonLemmas` says that it is all of them. Selections are functions recursive in the
length of the sequence (`Keep`), since `SelectSeq` has an operator as a parameter too.

**Only model-checked.** Liveness (`RequestsAnswered`, `EveryCallEnds` and the like) is out of the prover's reach, since its
temporal backend does not handle fairness and ENABLED. All invariants and action properties of
the passing runs are proved.

## 5. Plan

In order of importance; what is written is marked.

1. `AliasMapService`, `AliasCache`, `AliasCacheProofs` - **done**.
2. `ResolverService`, `Resolver`, `ResolverProofs` - **done**.
3. `TailStitch`, `PolyStitch`, `ItemProofs` - **done**.
4. `PresetGraph`, `PresetGraphProofs` - **done**.
5. `Inheritance`, `InheritanceProofs`, `Filters`, `FilterMeaning`, `FiltersProofs`, `Templates`, `Finalize`, `StatsAliasMap` - **done**.
6. `LogTail`, `Jwt`, `Server`, `ServerProofs` - **done**.
7. Shortcuts in sorts, and the defaults the linker fills in (keys and order of relations).
8. The proofs about `Finalize` - **done**.

### Not modelled

- The text of SQL statements: quoting, placeholders, sorting, paging, what the CTEs in which aggregates over has_many relations
  are computed look like (which joins they take is in `Filters`). Requests that `BuildAliasMap` refuses, shortcuts in the paths of computables and relations through a third table are not among the inputs of `Filters`. `Filters` goes from the JSON of a request to a tree of conditions and says what the conditions select; how
  such a tree is spelled is covered by the repository's own tests.
- YAML decoding beyond the checks of keys, the loading of locale files (at most one file for a locale, static), the formatting of dates.
- The importers (`cmd/sqlimport`, `internal/importer`), command-line tools that turn one text into another and share nothing with the running
  service.
- Configuration from the environment and the memory statistics, which have no behaviour over time.
