------------------------------ MODULE MCItems ------------------------------
(***************************************************************************)
(* The small instances of TailStitch, PolyStitch and Finalize side by      *)
(* side: the three share no state, and in each behaviour one of them is    *)
(* looked at while the others wait with the least of their inputs.         *)
(***************************************************************************)
EXTENDS MCTailStitch, MCPolyStitch, MCFinalize

VARIABLE part       \* the one that is looked at

tailsWait ==
    /\ shape = ThroughOneLeaf /\ links = <<>> /\ items = <<None>>
    /\ phase = "collect" /\ ids = {} /\ rows = <<>> /\ branches = <<>>
polyWaits ==
    /\ level = "root" /\ refs = <<[root |-> NoRef, container |-> NoRef]>>
    /\ stored = {} /\ keyed = {}
    /\ polyPhase = "group" /\ toFetch = {} /\ fetched = {} /\ polyBranches = <<>>
finalizeWaits ==
    /\ case = LeastCase /\ dict = <<>>
    /\ item = <<>> /\ stage = "scan" /\ done = {}

MCInit ==
    /\ part \in {"tails", "poly", "finalize"}
    /\ IF part = "tails" THEN Init ELSE tailsWait
    /\ IF part = "poly" THEN PolyInit ELSE polyWaits
    /\ IF part = "finalize" THEN FinalizeInit ELSE finalizeWaits

MCNext ==
    \/ part = "tails" /\ Next /\ UNCHANGED <<part, polyVars, finalizeVars>>
    \/ part = "poly" /\ PolyNext /\ UNCHANGED <<part, vars, finalizeVars>>
    \/ part = "finalize" /\ FinalizeNext /\ UNCHANGED <<part, vars, polyVars>>

MCSpec == MCInit /\ [][MCNext]_<<part, vars, polyVars, finalizeVars>>

AllSymmetry == KeySymmetry \cup IdSymmetry
=============================================================================
