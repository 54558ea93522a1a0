--------------------------- MODULE MCProposerSet ---------------------------
(***************************************************************************)
(* Instances of ProposerSet.                                               *)
(***************************************************************************)
EXTENDS ProposerSet

ch(a, p) == [addr |-> a, power |-> p]

(* Uneven powers, so that priorities drift; one proposer; equal powers, so that
   the address decides. *)
MCGenesis == {<<ch(1, 5), ch(2, 4), ch(3, 1)>>, <<ch(1, 1)>>, <<ch(2, 3), ch(1, 3)>>}

(* One change or two: removals, additions, gains and losses of power; changes
   that name a proposer twice, remove a stranger or everybody, have a negative
   power, or exceed MaxTotalVotingPower alone, together, or only until a
   removal or a loss in the same set is taken into account. *)
MCChangeSets ==
    {<<>>} \cup {<<ch(a, p)>> : a \in Addresses, p \in {-1, 0, 1, 7, 12}}
        \cup {<<ch(a, p), ch(b, q)>> : a \in {1, 2}, b \in {2, 3},
                                       p \in {0, 8, 15, 16}, q \in {0, 1, 14}}

NoChangeSets == {}

=============================================================================
