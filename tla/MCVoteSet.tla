----------------------------- MODULE MCVoteSet -----------------------------
(***************************************************************************)
(* Instances of VoteSet.  Four proposers with powers 2, 1, 1, 1: total 5,  *)
(* quorum 4, so a quorum needs proposer 0 and two others, or is everybody  *)
(* else with proposer 0: counting heads and counting power differ, and 5   *)
(* is not a multiple of 3.                                                 *)
(***************************************************************************)
EXTENDS VoteSet, FiniteSetsExt

CONSTANTS a, b

MCPower == [i \in 0 .. 3 |-> IF i = 0 THEN 2 ELSE 1]

(* The laws of PowerOf that the definition by units must give. *)
ASSUME PowerOfIsTheSum ==
    \A S \in SUBSET Vals : PowerOf(S) = MapThenSumSet(LAMBDA i : Power[i], S)

Good(type, i, k, t) ==
    [type |-> type, block |-> k, time |-> t, addr |-> i, index |-> i,
     sig |-> Sign(i, type, k, t)]

(* One vote for each early return of addVote: negative and unknown index, no
   address, another's address, another vote type, a forged signature, and a
   signature of the right key over other content. *)
Unsound ==
    LET v == Good("precommit", 1, a, 1)
    IN  {[v EXCEPT !.index = -1], [v EXCEPT !.index = 4], [v EXCEPT !.addr = NoAddr],
         [v EXCEPT !.addr = 2], Good("prevote", 1, a, 1), [v EXCEPT !.sig = NoSig],
         [v EXCEPT !.block = b]}

(* Every proposer may vote for several blocks, or for a block and for nil;
   proposer 1 signs its vote for a twice, at two times. *)
EquivocatingVotes ==
    {Good("precommit", i, a, 1) : i \in Vals}
        \cup {Good("precommit", i, b, 1) : i \in {1, 2, 3}}
        \cup {Good("precommit", i, NilBlock, 1) : i \in {0, 1, 2}}
        \cup {Good("precommit", 1, a, 2)} \cup Unsound
=============================================================================
