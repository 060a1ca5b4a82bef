------------------------------- MODULE Fanout -------------------------------
(***************************************************************************)
(* What a broadcast promises its members, without locks or buffers.  An    *)
(* event is put in a member's inbox between the beginning and the end of   *)
(* its publication, at most once, and an inbox only grows at its end.      *)
(* Hence a member never sees an event twice, and never sees it before one  *)
(* whose publication had ended when its own began.  Nothing promises that  *)
(* an event reaches a member, nor that two members agree on the order of   *)
(* events published at the same time.                                      *)
(***************************************************************************)
EXTENDS Sequences

CONSTANTS Events, Members

VARIABLES
    phase,     \* publication of each event
    members,   \* who is listening
    inbox      \* what each member was given, in order

vars == <<phase, members, inbox>>

Init ==
    /\ phase = [e \in Events |-> "idle"]
    /\ members = {}
    /\ inbox = [m \in Members |-> << >>]

Begin(e) ==
    /\ phase[e] = "idle"
    /\ phase' = [phase EXCEPT ![e] = "begun"]
    /\ UNCHANGED <<members, inbox>>

Post(e, m) ==
    /\ phase[e] = "begun"
    /\ m \in members
    /\ \A i \in DOMAIN inbox[m] : inbox[m][i] # e
    /\ inbox' = [inbox EXCEPT ![m] = Append(@, e)]
    /\ UNCHANGED <<phase, members>>

End(e) ==
    /\ phase[e] = "begun"
    /\ phase' = [phase EXCEPT ![e] = "ended"]
    /\ UNCHANGED <<members, inbox>>

Join(m) ==
    /\ m \notin members
    /\ members' = members \cup {m}
    /\ UNCHANGED <<phase, inbox>>

Leave(m) ==
    /\ m \in members
    /\ members' = members \ {m}
    /\ UNCHANGED <<phase, inbox>>

Next ==
    \/ \E e \in Events : Begin(e) \/ End(e)
    \/ \E m \in Members : Join(m) \/ Leave(m) \/ \E e \in Events : Post(e, m)

Spec == Init /\ [][Next]_vars

=============================================================================
