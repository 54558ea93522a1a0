---------------------------- MODULE VotingPower ----------------------------
(***************************************************************************)
(* Voting power of a ProposerSet (concord/proposer_set.go), as the vote    *)
(* set and the commit verification use it.                                 *)
(*                                                                         *)
(* A ProposerSet is a slice of proposers; a proposer is named here by its  *)
(* index in that slice, which is also its address and its public key (the  *)
(* three correspond one to one in a set).  The set does not change while a *)
(* vote set refers to it.                                                  *)
(***************************************************************************)
EXTENDS Integers, FiniteSets

CONSTANTS
    Size,       \* number of proposers in the set
    Power       \* Power[i]: voting power of the proposer at index i

Vals == 0 .. Size - 1

ASSUME PowerAssumption ==
    /\ Size \in Nat
    /\ Power \in [Vals -> Nat]

(***************************************************************************)
(* The power of a set of proposers is the number of units of voting power  *)
(* they hold between them, proposer i holding the units <<i, 1>> up to     *)
(* <<i, Power[i]>>.  It is the sum of the powers (an assumption of         *)
(* MCVoteSet compares the two), stated so that its laws follow from those  *)
(* of cardinality.                                                         *)
(***************************************************************************)
Units(S) == UNION {{i} \X (1 .. Power[i]) : i \in S}

PowerOf(S) == Cardinality(Units(S))

(* ProposerSet.TotalVotingPower.  Totals above MaxTotalVotingPower =
   MaxInt64/8 are refused, so twice the total never overflows an int64. *)
TotalVotingPower == PowerOf(Vals)

(* Mutant: two thirds are enough. *)
TwoThirds == (TotalVotingPower * 2) \div 3

(* The least power that is more than two thirds of the total. *)
Quorum == (TotalVotingPower * 2) \div 3 + 1
=============================================================================
