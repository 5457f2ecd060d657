----------------------------- MODULE MCResolver -----------------------------
(* Small preset trees for Resolver. *)
EXTENDS Resolver, TLC

CONSTANTS main, other, members, owners, items, cards, subject, author

(* One request; its preset has two through tails, which share err, a        *)
(* direct tail that has a tail of its own, and a polymorphic branch.        *)
RaceCalls == {main, members, owners, items, cards, subject}
RaceKind ==
    main :> "root" @@ members :> "through" @@ owners :> "through" @@
    items :> "direct" @@ cards :> "direct" @@ subject :> "poly"
RaceParent ==
    main :> main @@ members :> main @@ owners :> main @@
    items :> main @@ cards :> items @@ subject :> main

(* Two requests: one with a tail and two polymorphic branches, the other    *)
(* with a through tail.                                                     *)
PoolCalls == {main, other, items, subject, author, members}
PoolKind ==
    main :> "root" @@ other :> "root" @@ items :> "direct" @@
    subject :> "poly" @@ author :> "poly" @@ members :> "through"
PoolParent ==
    main :> main @@ other :> other @@ items :> main @@
    subject :> main @@ author :> main @@ members :> other
=============================================================================
