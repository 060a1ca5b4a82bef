--------------------------- MODULE MCConnections ---------------------------
(***************************************************************************)
(* Connections with two clients, two labels and a clock of two ticks, a    *)
(* cache being stale after one: calls overlap in every way, a registry of  *)
(* two entries loses one, a label is added again with another URI, and a   *)
(* cache goes stale that was populated after the start.                    *)
(***************************************************************************)
EXTENDS Connections, TLC

CONSTANTS c1, c2, a, b, sql, redis

MCClients   == {c1, c2}
MCNobody    == {}
MCLabels    == {a, b}
MCUris      == {sql, redis}
MCRedisUris == {redis}
MCSymmetry  ==
    Permutations(MCClients) \cup Permutations(MCLabels)
=============================================================================
