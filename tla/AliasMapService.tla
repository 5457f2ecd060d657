--------------------------- MODULE AliasMapService ---------------------------
(***************************************************************************)
(* What Model.CreateAliasMap promises its caller, whatever it caches: each *)
(* call is answered once, with an error exactly when BuildAliasMap fails   *)
(* on its request, else with the alias map BuildAliasMap gives for that    *)
(* very request.  Callers that share a map may add paths to it: a caller   *)
(* finds all paths of its own request, and in addition only such as a      *)
(* caller with an equal request has added, before or after the answer.     *)
(* AliasCache is shown to implement this module.                           *)
(***************************************************************************)
CONSTANTS
    Threads,        \* goroutines that serve requests
    Requests,       \* (model, preset, filters, sorts) tuples
    Unbuildable,    \* the requests BuildAliasMap rejects
    Built(_),       \* the alias map of a request
    Added(_)        \* the paths callers with that request may add to it

VARIABLES
    phase,          \* "idle", "asked" or "answered", per thread
    request,        \* the request of the call; of no meaning when idle
    failed,         \* whether the last answer is an error
    reply           \* the alias map of the last answer without error

serviceVars == <<phase, request, failed, reply>>

AnyRequest == CHOOSE r \in Requests : TRUE

ServiceInit ==
    /\ phase = [t \in Threads |-> "idle"]
    /\ request = [t \in Threads |-> AnyRequest]
    /\ failed = [t \in Threads |-> FALSE]
    /\ reply = [t \in Threads |-> {}]

(* A request enters CreateAliasMap. *)
Ask(t) ==
    /\ phase[t] = "idle"
    /\ \E r \in Requests : request' = [request EXCEPT ![t] = r]
    /\ phase' = [phase EXCEPT ![t] = "asked"]
    /\ UNCHANGED <<failed, reply>>

(* CreateAliasMap returns a map, or an error. *)
Answer(t) ==
    /\ phase[t] = "asked"
    /\ phase' = [phase EXCEPT ![t] = "answered"]
    /\ failed' = [failed EXCEPT ![t] = request[t] \in Unbuildable]
    /\ IF request[t] \in Unbuildable
       THEN reply' = [reply EXCEPT ![t] = {}]
       ELSE \E more \in SUBSET Added(request[t]) :
              reply' = [reply EXCEPT ![t] = Built(request[t]) \cup more]
    /\ UNCHANGED request

(* A path is added to a map; some of the callers that have an answer share *)
(* that map.                                                               *)
Grow ==
    \E p \in UNION {Added(r) : r \in Requests} :
        \E sharers \in SUBSET {t \in Threads : /\ phase[t] = "answered" /\ ~failed[t]
                                              /\ p \in Added(request[t])} :
            /\ reply' = [t \in Threads |-> IF t \in sharers THEN reply[t] \cup {p}
                                           ELSE reply[t]]
            /\ UNCHANGED <<phase, request, failed>>

(* The caller takes the answer. *)
Take(t) ==
    /\ phase[t] = "answered"
    /\ phase' = [phase EXCEPT ![t] = "idle"]
    /\ failed' = [failed EXCEPT ![t] = FALSE]
    /\ reply' = [reply EXCEPT ![t] = {}]
    /\ request' = [request EXCEPT ![t] = AnyRequest]

ServiceNext == Grow \/ \E t \in Threads : Ask(t) \/ Answer(t) \/ Take(t)

ServiceSpec == ServiceInit /\ [][ServiceNext]_serviceVars
=============================================================================
