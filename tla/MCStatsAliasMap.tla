--------------------------- MODULE MCStatsAliasMap ---------------------------
(* Three requests for the statistics of people that filter by their firm:   *)
(* on the sums of their contracts, on the age of their boss, and on both.   *)
EXTENDS StatsAliasMap, TLC

CONSTANTS sums, ages, both

MCBuilt == "firm" :> 0
MCPaths == sums :> <<"contract">> @@ ages :> <<"boss">> @@ both :> <<"boss", "contract">>
=============================================================================
