-------------------------- MODULE ResolverService ---------------------------
(***************************************************************************)
(* What POST /api/index promises, seen from outside: a request is answered *)
(* with the complete rows when nothing went wrong anywhere in its tree of  *)
(* resolver calls, and with an error otherwise; never with part of the     *)
(* rows, and never before the last call has come to its end.               *)
(***************************************************************************)
CONSTANTS
    Roots,          \* the index requests
    Calls,          \* all calls of the resolver
    Tree            \* for each request, the calls it may make

VARIABLES
    phase,          \* of each request
    broken,         \* the calls that went wrong on their own account
    answer          \* what the client got

svars == <<phase, broken, answer>>

ServiceInit ==
    /\ phase = [r \in Roots |-> "idle"]
    /\ broken = [c \in Calls |-> FALSE]
    /\ answer = [r \in Roots |-> "none"]

(* A client asks, for the first time or again. *)
Ask(r) ==
    /\ phase[r] # "asked"
    /\ phase' = [phase EXCEPT ![r] = "asked"]
    /\ answer' = [answer EXCEPT ![r] = "none"]
    /\ broken' = [c \in Calls |-> c \notin Tree[r] /\ broken[c]]

(* Something goes wrong in a call; whoever asked has no answer yet. *)
GoWrong(c) ==
    /\ \A r \in Roots : c \in Tree[r] => phase[r] = "asked"
    /\ broken' = [broken EXCEPT ![c] = TRUE]
    /\ UNCHANGED <<phase, answer>>

Answer(r) ==
    /\ phase[r] = "asked"
    /\ phase' = [phase EXCEPT ![r] = "answered"]
    /\ answer' = [answer EXCEPT ![r] =
                     IF \E c \in Tree[r] : broken[c] THEN "error" ELSE "rows"]
    /\ UNCHANGED broken

ServiceNext ==
    \/ \E r \in Roots : Ask(r) \/ Answer(r)
    \/ \E c \in Calls : GoWrong(c)

ServiceSpec == ServiceInit /\ [][ServiceNext]_svars
=============================================================================
