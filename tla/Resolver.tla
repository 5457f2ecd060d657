------------------------------ MODULE Resolver ------------------------------
(***************************************************************************)
(* The recursive resolver (internal/resolver/resolver.go) behind           *)
(* POST /api/index, as a tree of calls that run concurrently.              *)
(*                                                                         *)
(* A call reads its own rows with one query, starts one goroutine for each *)
(* has_one / has_many branch ("tail") of its preset, waits for all of      *)
(* them, fetches the polymorphic belongs_to branches one after the other,  *)
(* and returns.  A tail goroutine calls the resolver again; a tail         *)
(* "through" another model first builds its request with                   *)
(* MakeThroughChildRequest, whose error it stores in the PARENT's variable *)
(* err, which all the through tails of one call share without a lock       *)
(* (resolver.go:237).                                                      *)
(*                                                                         *)
(* All calls share one pool of database connections.  Calls is the preset  *)
(* tree unfolded; which of its calls are made depends on the rows.  The    *)
(* rows themselves are left out: a call ends with "rows" or with "error".  *)
(***************************************************************************)
EXTENDS Naturals, FiniteSets

CONSTANTS
    Calls,          \* the calls of the resolver, of all requests
    Parent,         \* the call whose preset holds the branch; a root's is itself
    Kind,           \* "root", "direct" or "through" (tails), or "poly"
    PoolSize        \* connections of the pool (MaxConns in postgres.go)

Roots == {c \in Calls : Kind[c] = "root"}
Tails == {c \in Calls : Kind[c] \in {"direct", "through"}}
Polys == {c \in Calls : Kind[c] = "poly"}
TailsOf(c) == {k \in Tails : Parent[k] = c}
PolysOf(c) == {k \in Polys : Parent[k] = c}
Branches(c) == TailsOf(c) \cup PolysOf(c)

(* A call and the calls below it: the least set that holds the call and the *)
(* branches of its members.                                                 *)
Closed(S) == \A c \in S : Branches(c) \subseteq S
Tree == [c \in Calls |->
           {d \in Calls : \A S \in SUBSET Calls : c \in S /\ Closed(S) => d \in S}]

ASSUME CallsAssumption ==
    /\ IsFiniteSet(Calls)
    /\ Kind \in [Calls -> {"root", "direct", "through", "poly"}]
    /\ Parent \in [Calls -> Calls]
    /\ \A c \in Calls : \E r \in Roots : c \in Tree[r]

ASSUME PoolAssumption == PoolSize \in Nat \ {0}

VARIABLES
    pc,             \* where each call is
    result,         \* what the call returned
    broken,         \* whether it failed on its own account
    wg,             \* the WaitGroup of each call
    rerr,           \* whether its rerr is set
    err,            \* whether its err, shared by its through tails, is set
    grouped,        \* whether a tail's rows are in its parent's groupedByTail
    cancelled,      \* the requests whose client has gone (the context)
    free            \* connections not in use

vars == <<pc, result, broken, wg, rerr, err, grouped, cancelled, free>>
-----------------------------------------------------------------------------
Init ==
    /\ pc = [c \in Calls |-> "idle"]
    /\ result = [c \in Calls |-> "none"]
    /\ broken = [c \in Calls |-> FALSE]
    /\ wg = [c \in Calls |-> 0]
    /\ rerr = [c \in Calls |-> FALSE]
    /\ err = [c \in Calls |-> FALSE]
    /\ grouped = [c \in Calls |-> FALSE]
    /\ cancelled = [r \in Roots |-> FALSE]
    /\ free = PoolSize

Goto(c, place) == pc' = [pc EXCEPT ![c] = place]

(* The call returns to whoever made it. *)
ReturnRows(c) ==
    /\ Goto(c, "returned")
    /\ result' = [result EXCEPT ![c] = "rows"]

ReturnError(c) ==
    /\ Goto(c, "returned")
    /\ result' = [result EXCEPT ![c] = "error"]

(* It returns an error of its own. *)
Fail(c) ==
    /\ ReturnError(c)
    /\ broken' = [broken EXCEPT ![c] = TRUE]

Cancelled(c) == \E r \in Roots : c \in Tree[r] /\ cancelled[r]

Fresh(f, r, v) == [c \in Calls |-> IF c \in Tree[r] THEN v ELSE f[c]]
-----------------------------------------------------------------------------
(* IndexHandler gets a request and calls the resolver; every call below it *)
(* will have local variables of its own.                                   *)
Receive(r) ==
    /\ pc[r] \in {"idle", "replied"}
    /\ pc' = [Fresh(pc, r, "idle") EXCEPT ![r] = "prepare"]
    /\ result' = Fresh(result, r, "none")
    /\ broken' = Fresh(broken, r, FALSE)
    /\ wg' = Fresh(wg, r, 0)
    /\ rerr' = Fresh(rerr, r, FALSE)
    /\ err' = Fresh(err, r, FALSE)
    /\ grouped' = Fresh(grouped, r, FALSE)
    /\ cancelled' = [cancelled EXCEPT ![r] = FALSE]
    /\ UNCHANGED free

(* The client goes away: the context of the request is cancelled. *)
Disconnect(r) ==
    /\ pc[r] \notin {"idle", "replied"}
    /\ ~cancelled[r]
    /\ cancelled' = [cancelled EXCEPT ![r] = TRUE]
    /\ UNCHANGED <<pc, result, broken, wg, rerr, err, grouped, free>>

(* The handler writes the rows, or status 500. *)
Reply(r) ==
    /\ pc[r] = "returned"
    /\ Goto(r, "replied")
    /\ UNCHANGED <<result, broken, wg, rerr, err, grouped, cancelled, free>>
-----------------------------------------------------------------------------
(* Mutant: an empty request gets a model after all. *)
PrepareAnyRequest(c) ==
    /\ pc[c] = "prepare"
    /\ Goto(c, "query")
    /\ UNCHANGED <<result, broken, wg, rerr, err, grouped, cancelled, free>>

(* Model, preset, alias map and SQL are found and built... *)
Prepare(c) ==
    /\ pc[c] = "prepare"
    /\ ~broken[c]
    /\ Goto(c, "query")
    /\ UNCHANGED <<result, broken, wg, rerr, err, grouped, cancelled, free>>

(* ... or one of them is not: as it is for the empty request a through tail *)
(* is left with when its own MakeThroughChildRequest failed.                *)
PrepareFails(c) ==
    /\ pc[c] = "prepare"
    /\ Fail(c)
    /\ UNCHANGED <<wg, rerr, err, grouped, cancelled, free>>

(* The query takes a connection out of the pool. *)
Query(c) ==
    /\ pc[c] = "query"
    /\ free > 0
    /\ free' = free - 1
    /\ Goto(c, "scan")
    /\ UNCHANGED <<result, broken, wg, rerr, err, grouped, cancelled>>

(* The database refuses it, or the context ends the wait for a connection. *)
QueryFails(c) ==
    /\ pc[c] = "query"
    /\ free > 0 \/ Cancelled(c)
    /\ Fail(c)
    /\ UNCHANGED <<wg, rerr, err, grouped, cancelled, free>>

(* ScanFlatRows reads to the last row, which gives the connection back.    *)
(* Without rows, or without branches, there is nothing to fetch.           *)
Scan(c) ==
    /\ pc[c] = "scan"
    /\ free' = free + 1
    /\ \/ ReturnRows(c)
       \/ /\ Branches(c) # {}
          /\ Goto(c, "spawn")
          /\ UNCHANGED result
    /\ UNCHANGED <<broken, wg, rerr, err, grouped, cancelled>>

(* Mutant: no deferred rows.Close. *)
ScanFailsUnclosed(c) ==
    /\ pc[c] = "scan"
    /\ Fail(c)
    /\ UNCHANGED <<wg, rerr, err, grouped, cancelled, free>>

(* A row cannot be read, or the connection fails; the deferred rows.Close  *)
(* gives it back.                                                          *)
ScanFails(c) ==
    /\ pc[c] = "scan"
    /\ free' = free + 1
    /\ Fail(c)
    /\ UNCHANGED <<wg, rerr, err, grouped, cancelled>>
-----------------------------------------------------------------------------
(* Mutant: the goroutine is not counted. *)
SpawnWithoutAdd(k) ==
    /\ pc[Parent[k]] = "spawn" /\ pc[k] = "idle"
    /\ Goto(k, "start")
    /\ UNCHANGED <<result, broken, wg, rerr, err, grouped, cancelled, free>>

(* The loop over the tails: a goroutine for each that has parent ids... *)
Spawn(k) ==
    LET c == Parent[k]
    IN  /\ pc[c] = "spawn" /\ pc[k] = "idle"
        /\ wg' = [wg EXCEPT ![c] = @ + 1]
        /\ Goto(k, "start")
        /\ UNCHANGED <<result, broken, rerr, err, grouped, cancelled, free>>

(* ... and none for a tail without. *)
SkipTail(k) ==
    /\ pc[Parent[k]] = "spawn" /\ pc[k] = "idle"
    /\ Goto(k, "skipped")
    /\ UNCHANGED <<result, broken, wg, rerr, err, grouped, cancelled, free>>

SpawnsDone(c) ==
    /\ pc[c] = "spawn"
    /\ \A k \in TailsOf(c) : pc[k] # "idle"
    /\ Goto(c, "wait")
    /\ UNCHANGED <<result, broken, wg, rerr, err, grouped, cancelled, free>>

(* The goroutine sets rerr, under the mutex, and is about to end. *)
SetRerr(k) ==
    /\ rerr' = [rerr EXCEPT ![Parent[k]] = TRUE]
    /\ Goto(k, "leave")

(* The goroutine finds no model or no nested preset. *)
TailFails(k) ==
    /\ pc[k] = "start"
    /\ SetRerr(k)
    /\ broken' = [broken EXCEPT ![k] = TRUE]
    /\ UNCHANGED <<result, wg, err, grouped, cancelled, free>>

(* A direct tail goes on to the resolver with a request of its own. *)
CallDirect(k) ==
    /\ pc[k] = "start"
    /\ Kind[k] = "direct"
    /\ Goto(k, "prepare")
    /\ UNCHANGED <<result, broken, wg, rerr, err, grouped, cancelled, free>>

(* A through tail builds its request, and stores the error or nil in the   *)
(* parent's err.                                                           *)
MakeThroughChildRequest(k) ==
    /\ pc[k] = "start"
    /\ Kind[k] = "through"
    /\ \E fails \in BOOLEAN :
          /\ err' = [err EXCEPT ![Parent[k]] = fails]
          /\ broken' = [broken EXCEPT ![k] = fails]
    /\ Goto(k, "made")
    /\ UNCHANGED <<result, wg, rerr, grouped, cancelled, free>>

(* Then it tests err.  Nothing orders this read after the writes of the    *)
(* other tails: it sees what it wrote itself, or what is there by now.     *)
CallThrough(k) ==
    /\ pc[k] = "made"
    /\ \E failed \in {broken[k], err[Parent[k]]} :
          \/ failed /\ SetRerr(k)
          \/ ~failed /\ Goto(k, "prepare") /\ UNCHANGED rerr
    /\ UNCHANGED <<result, broken, wg, err, grouped, cancelled, free>>

(* Mutant: a shadowed rerr. *)
ReportRowsOnly(k) ==
    /\ pc[k] = "returned"
    /\ grouped' = [grouped EXCEPT ![k] = result[k] = "rows"]
    /\ Goto(k, "leave")
    /\ UNCHANGED <<result, broken, wg, rerr, err, cancelled, free>>

(* The resolver has returned to the goroutine: under the mutex, the rows go *)
(* to groupedByTail or the error to rerr.                                   *)
Report(k) ==
    /\ pc[k] = "returned"
    /\ \/ /\ result[k] = "rows"
          /\ grouped' = [grouped EXCEPT ![k] = TRUE]
          /\ Goto(k, "leave")
          /\ UNCHANGED rerr
       \/ /\ result[k] = "error"
          /\ SetRerr(k)
          /\ UNCHANGED grouped
    /\ UNCHANGED <<result, broken, wg, err, cancelled, free>>

(* Mutant: wg.Done() after the rows are grouped, not deferred. *)
LeaveIfGrouped(k) ==
    /\ pc[k] = "leave"
    /\ wg' = [wg EXCEPT ![Parent[k]] = IF grouped[k] THEN @ - 1 ELSE @]
    /\ Goto(k, "left")
    /\ UNCHANGED <<result, broken, rerr, err, grouped, cancelled, free>>

(* The deferred wg.Done(). *)
Leave(k) ==
    LET c == Parent[k]
    IN  /\ pc[k] = "leave"
        /\ wg' = [wg EXCEPT ![c] = @ - 1]
        /\ Goto(k, "left")
        /\ UNCHANGED <<result, broken, rerr, err, grouped, cancelled, free>>

(* Mutant: the first error ends the wait. *)
JoinFailFast(c) ==
    /\ pc[c] = "wait"
    /\ \/ rerr[c] /\ ReturnError(c)
       \/ wg[c] = 0 /\ ~rerr[c] /\ Goto(c, "poly") /\ UNCHANGED result
    /\ UNCHANGED <<broken, wg, rerr, err, grouped, cancelled, free>>

(* wg.Wait() is over; the tails are stitched to the items unless one failed. *)
Join(c) ==
    /\ pc[c] = "wait"
    /\ wg[c] = 0
    /\ \/ rerr[c] /\ ReturnError(c)
       \/ ~rerr[c] /\ Goto(c, "poly") /\ UNCHANGED result
    /\ UNCHANGED <<broken, wg, rerr, err, grouped, cancelled, free>>
-----------------------------------------------------------------------------
(* Polymorphic branches, one call for each type found in the rows, made by *)
(* the goroutine of the parent itself.                                     *)
CallPoly(k) ==
    LET c == Parent[k]
    IN  /\ pc[c] = "poly" /\ pc[k] = "idle"
        /\ pc' = [pc EXCEPT ![c] = "polywait", ![k] = "prepare"]
        /\ UNCHANGED <<result, broken, wg, rerr, err, grouped, cancelled, free>>

(* No row of the type, or a type without model or preset. *)
SkipPoly(k) ==
    /\ pc[Parent[k]] = "poly" /\ pc[k] = "idle"
    /\ Goto(k, "skipped")
    /\ UNCHANGED <<result, broken, wg, rerr, err, grouped, cancelled, free>>

PolyReturns(k) ==
    LET c == Parent[k]
        next == IF result[k] = "rows" THEN "poly" ELSE "returned"
    IN  /\ pc[k] = "returned"
        /\ pc' = [pc EXCEPT ![c] = next, ![k] = "left"]
        /\ result' = [result EXCEPT ![c] =
                         IF next = "returned" THEN "error" ELSE @]
        /\ UNCHANGED <<broken, wg, rerr, err, grouped, cancelled, free>>

(* The items are complete: finalizeItems, and the rows go to the caller. *)
Finalize(c) ==
    /\ pc[c] = "poly"
    /\ \A k \in PolysOf(c) : pc[k] # "idle"
    /\ ReturnRows(c)
    /\ UNCHANGED <<broken, wg, rerr, err, grouped, cancelled, free>>
-----------------------------------------------------------------------------
(* What the goroutine that runs the call does. *)
Step(c) ==
    \/ Prepare(c) \/ PrepareFails(c) \/ Query(c) \/ QueryFails(c)
    \/ Scan(c) \/ ScanFails(c) \/ SpawnsDone(c) \/ Join(c) \/ Finalize(c)

TailStep(k) ==
    \/ Spawn(k) \/ SkipTail(k) \/ TailFails(k) \/ CallDirect(k)
    \/ MakeThroughChildRequest(k) \/ CallThrough(k) \/ Report(k) \/ Leave(k)

PolyStep(k) == CallPoly(k) \/ SkipPoly(k) \/ PolyReturns(k)

Next ==
    \/ \E r \in Roots : Receive(r) \/ Disconnect(r) \/ Reply(r)
    \/ \E c \in Calls : Step(c)
    \/ \E k \in Tails : TailStep(k)
    \/ \E k \in Polys : PolyStep(k)

Spec == Init /\ [][Next]_vars

(* Goroutines run on, and the database answers every query, with rows or   *)
(* with an error.  A call that waits for a connection is served in its     *)
(* turn: the pool queues its callers.                                      *)
Fairness ==
    /\ \A r \in Roots : WF_vars(Reply(r))
    /\ \A c \in Calls : WF_vars(Step(c)) /\ SF_vars(Query(c) \/ QueryFails(c))
    /\ \A k \in Tails : WF_vars(TailStep(k))
    /\ \A k \in Polys : WF_vars(PolyStep(k))

FairSpec == Spec /\ Fairness
-----------------------------------------------------------------------------
Asleep == {"idle", "skipped", "left", "replied"}
Places == Asleep \cup {"prepare", "query", "scan", "spawn", "wait", "poly",
                       "polywait", "returned", "start", "made", "leave"}

(* Types of the variables; in particular no WaitGroup counter and no count  *)
(* of free connections is ever negative.                                    *)
TypeOK ==
    /\ pc \in [Calls -> Places]
    /\ result \in [Calls -> {"none", "rows", "error"}]
    /\ broken \in [Calls -> BOOLEAN]
    /\ wg \in [Calls -> Nat]
    /\ rerr \in [Calls -> BOOLEAN]
    /\ err \in [Calls -> BOOLEAN]
    /\ grouped \in [Calls -> BOOLEAN]
    /\ cancelled \in [Roots -> BOOLEAN]
    /\ free \in 0..PoolSize

(* Once a call has read its rows and goes on, every tail it started has     *)
(* delivered its rows: the stitching loop (resolver.go:276) never takes a   *)
(* branch for empty because its goroutine was late or had failed.           *)
CompleteStitch ==
    \A c \in Calls : pc[c] \in {"poly", "polywait"} =>
        \A k \in TailsOf(c) : pc[k] = "skipped" \/ (pc[k] = "left" /\ grouped[k])

(* A call that has returned leaves nothing behind: no goroutine below it    *)
(* still runs, on whichever path it returned, so no goroutine writes to the *)
(* variables of a call that is over and no connection is held for it.       *)
NothingLeftRunning ==
    \A c \in Calls : pc[c] \in Asleep \cup {"returned", "leave"} =>
        \A k \in Tree[c] \ {c} : pc[k] \in Asleep

(* Whoever holds a connection is reading its rows: no call keeps one while  *)
(* it waits for its tails, for a polymorphic branch or for its caller, and  *)
(* none is lost on a failing path.  So callers wait for connections, never  *)
(* for each other.                                                          *)
NoHoldAndWait ==
    free + Cardinality({c \in Calls : pc[c] = "scan"}) = PoolSize

(* Every request is answered, and every branch of it comes to an end, even  *)
(* with one connection for all the calls of several requests.               *)
RequestsAnswered ==
    \A r \in Roots : (pc[r] = "prepare") ~> (pc[r] = "replied")
-----------------------------------------------------------------------------
Service ==
    INSTANCE ResolverService WITH
        phase <- [r \in Roots |->
                    CASE pc[r] = "idle" -> "idle"
                      [] pc[r] = "replied" -> "answered"
                      [] OTHER -> "asked"],
        answer <- [r \in Roots |->
                     IF pc[r] = "replied" THEN result[r] ELSE "none"]

(* The answer is all or nothing, whatever the order of the goroutines and   *)
(* whatever a tail reads in the shared err: rows if and only if no call of  *)
(* the tree went wrong.                                                     *)
AllOrNothing == Service!ServiceSpec
=============================================================================
