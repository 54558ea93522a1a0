----------------------------- MODULE MCConcord -----------------------------
(***************************************************************************)
(* Instances of Concord.                                                   *)
(***************************************************************************)
EXTENDS Concord, TLC

CONSTANTS a, b, c

Powers221 == 0 :> 2 @@ 1 :> 2 @@ 2 :> 1
Powers311 == 0 :> 3 @@ 1 :> 1 @@ 2 :> 1
Powers111 == 0 :> 1 @@ 1 :> 1 @@ 2 :> 1
Powers31 == 0 :> 3 @@ 1 :> 1

(* The proposer's caller may pass either block, the others pass nil. *)
MCArg == [n \in Correct |-> IF n = Proposer THEN Blocks ELSE {NoBlock}]

(* The proposer's caller passes a, or c, the others pass b. *)
OwnArg == [n \in Correct |-> IF n = Proposer THEN {a, c} ELSE {b}]

BlockSymmetry == Permutations(Valid)

vote(t, k, i, sig) ==
    [type |-> t, block |-> k, time |-> 1, addr |-> i, index |-> i, sig |-> sig]

(* A faulty proposer proposes every block and votes for each that is valid. *)
Equivocations ==
    {vote(t, k, f, Sign(f, t, k, 1)) : t \in VoteTypes, k \in Valid, f \in Faulty}
    \cup {[type |-> "proposal", data |-> k, time |-> 1, key |-> f] :
             k \in Blocks, f \in Faulty}

(* A faulty voter equivocates in its precommits, and for b it also forges a
   proposal, and votes of the others over its own signature. *)
Forgeries ==
    {vote(t, a, f, Sign(f, t, a, 1)) : t \in VoteTypes, f \in Faulty}
    \cup {vote("precommit", b, i, Sign(f, "precommit", b, 1)) : i \in Vals, f \in Faulty}
    \cup {vote("prevote", b, i, Sign(f, "prevote", b, 1)) : i \in Correct, f \in Faulty}
    \cup {[type |-> "proposal", data |-> b, time |-> 1, key |-> f] : f \in Faulty}
=============================================================================
