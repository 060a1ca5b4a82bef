---------------------------- MODULE MCWebuiSync ----------------------------
(***************************************************************************)
(* WebuiSync with two tabs, two files and two texts.  Users act three      *)
(* times.  Orderly prunes what the properties do not speak of: tabs that   *)
(* missed an event, and overlaps with more than edits; of edits that       *)
(* overlap it allows two.                                                  *)
(***************************************************************************)
EXTENDS WebuiSync, TLC

CONSTANTS p1, p2, t1, t2, text

MCPaths    == {p1, p2}
MCTabs     == {t1, t2}
MCContents == {Empty, text}
MCSymmetry == Permutations(MCTabs) \cup Permutations(MCPaths)

Orderly ==
    /\ missed = {}
    /\ overlap # "any"
    /\ overlap = "edits" => acts <= 2
=============================================================================
