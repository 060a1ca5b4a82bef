----------------------------- MODULE MCEventBus -----------------------------
(***************************************************************************)
(* EventBus with two publishing requests, two streams and channels of one   *)
(* event: the publishers overlap, a channel overflows, and both streams    *)
(* come and go while they do.                                              *)
(***************************************************************************)
EXTENDS EventBus

CONSTANTS r1, r2, s1, s2

MCRequests == {r1, r2}
MCStreams  == {s1, s2}
=============================================================================
