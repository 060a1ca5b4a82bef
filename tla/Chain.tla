------------------------------- MODULE Chain -------------------------------
(***************************************************************************)
(* What an execution of a pipeline promises (specs/simpanan.allium, rules  *)
(* StartPipelineExecution to FailPipeline): stages run one after the       *)
(* other, the next one when its predecessor has completed, until the last  *)
(* one completes and its result is the pipeline's, or one fails.           *)
(***************************************************************************)
EXTENDS Naturals

CONSTANTS Calls, Lengths    \* pipelines, and the stages one may have

VARIABLES
    status,     \* "none", "running", "completed" or "failed"
    count,      \* stages of the pipeline
    index,      \* the stage that is running
    result      \* the stage whose result is the pipeline's, or 0

vars == <<status, count, index, result>>

Init ==
    /\ status = [c \in Calls |-> "none"]
    /\ count = [c \in Calls |-> 0]
    /\ index = [c \in Calls |-> 0]
    /\ result = [c \in Calls |-> 0]

Become(c, s, n, i, r) ==
    /\ status' = [status EXCEPT ![c] = s]
    /\ count' = [count EXCEPT ![c] = n]
    /\ index' = [index EXCEPT ![c] = i]
    /\ result' = [result EXCEPT ![c] = r]

Start(c) ==
    /\ status[c] = "none"
    /\ \E n \in Lengths \ {0} : Become(c, "running", n, 1, 0)

\* A pipeline that is refused, or that has no stages, does not start.
Advance(c) ==
    /\ status[c] = "running" /\ index[c] < count[c]
    /\ Become(c, "running", count[c], index[c] + 1, 0)

Complete(c) ==
    /\ status[c] = "running" /\ index[c] = count[c]
    /\ Become(c, "completed", count[c], index[c], count[c])

Fail(c) ==
    /\ status[c] = "running"
    /\ Become(c, "failed", count[c], index[c], 0)

Forget(c) ==
    /\ status[c] \in {"completed", "failed"}
    /\ Become(c, "none", 0, 0, 0)

Next == \E c \in Calls :
    Start(c) \/ Advance(c) \/ Complete(c) \/ Fail(c) \/ Forget(c)

Spec == Init /\ [][Next]_vars
=============================================================================
