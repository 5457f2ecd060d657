---------------------------- MODULE MCAliasCache ----------------------------
(* Small instances of AliasCache. *)
EXTENDS AliasCache, TLC

CONSTANTS t1, t2

Request(m, p, fields, filters) ==
    [model |-> m, preset |-> p, fields |-> fields, filters |-> filters, sorts |-> {},
     metrics |-> {}]

(* Requests that differ in model, or filters, or only in whether the map    *)
(* can be built; their maps have sizes 1, 2 and 3.                          *)
ListRequest == Request("Contract", "list", {"org"}, {})
FilteredRequest == Request("Contract", "list", {"org"}, {"person"})
WideRequest == Request("Person", "list", {"org", "address"}, {"person"})

(* Statistics over the same list: metrics through two relations, one of     *)
(* which does not exist.                                                    *)
StatsRequest == [ListRequest EXCEPT !.metrics = {"person", "nowhere"}]
NowhereOnly == {"nowhere"}

(* A filter through a relation the model does not have. *)
BrokenRequest == Request("Contract", "list", {"org"}, {"nowhere"})

MixedRequests == {ListRequest, StatsRequest, FilteredRequest, WideRequest, BrokenRequest}
BrokenOnly == {BrokenRequest}

TwoThreads == {t1, t2}
Symmetry == Permutations(TwoThreads)
=============================================================================
