----------------------------- MODULE Consensus -----------------------------
(***************************************************************************)
(* What one agreement promises: at most one of the proposed values is      *)
(* chosen, for good, and a node decides nothing but the chosen value.      *)
(***************************************************************************)
CONSTANTS Node, Value

VARIABLES
    chosen,     \* the chosen value, as a set of at most one element
    decided     \* decided[n]: what n has decided, as a set

Init ==
    /\ chosen = {}
    /\ decided = [n \in Node |-> {}]

Choose(v) ==
    /\ chosen = {}
    /\ chosen' = {v}
    /\ UNCHANGED decided

Decide(n) ==
    /\ decided[n] = {}
    /\ chosen # {}
    /\ decided' = [decided EXCEPT ![n] = chosen]
    /\ UNCHANGED chosen

Next ==
    \/ \E v \in Value : Choose(v)
    \/ \E n \in Node : Decide(n)

Spec == Init /\ [][Next]_<<chosen, decided>>
=============================================================================
