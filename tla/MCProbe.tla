------------------------------ MODULE MCProbe ------------------------------
(***************************************************************************)
(* Probe with two requests, the last of three stages being asked about,    *)
(* and a label that is registered with one database and then another.      *)
(* Cache entries are good for two ticks, a request waits for one.          *)
(***************************************************************************)
EXTENDS Probe, TLC

CONSTANTS r1, r2

MCRequests == {r1, r2}
MCOneRequest == {r1}
MCLabels == {"pg", "jq"}
MCUris == {"postgres://a", "postgres://b", "jq://"}
MCSchemeOf ==
    [u \in MCUris |-> IF u = "jq://" THEN "jq" ELSE "postgres"]
MCWords == {"select", "delete", "map", "x"}
MCRegistries ==
    {[l \in {"pg"} |-> u] : u \in {"postgres://a", "postgres://b"}}

On(l, t) == [kind |-> "header", indented |-> FALSE, label |-> l, text |-> t]

MCPlaces ==
    {[lines |-> <<On("pg", <<"select">>), On("pg", <<"select", Hole>>),
                  On("jq", <<"map">>)>>,
      cursor |-> 3]}
MCWritingPlaces ==
    {[lines |-> <<On("pg", <<"delete">>), On("jq", <<"map">>)>>,
      cursor |-> 2]}

MCSymmetry == Permutations(MCRequests)
=============================================================================
