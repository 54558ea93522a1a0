------------------------------ MODULE VoteSet ------------------------------
(***************************************************************************)
(* A vote set as a state machine: any number of callers add votes and peer *)
(* claims to one VoteSet, in any order.  The mutex makes each call one     *)
(* step.                                                                   *)
(***************************************************************************)
EXTENDS Commit

CONSTANTS
    SignedMsgType,  \* the vote type this set collects
    Offered         \* the votes callers may add, sound and unsound ones

ASSUME OfferedAssumption ==
    /\ SignedMsgType \in VoteTypes
    /\ Offered \subseteq Vote

VARIABLES
    vs,             \* the vote set
    ret             \* what the last call returned

vars == <<vs, ret>>

Init ==
    /\ vs = NewVoteSet(SignedMsgType)
    /\ ret = [added |-> FALSE, err |-> "ok"]

DoAddVote(v) ==
    LET r == AddVote(vs, v)
    IN  /\ vs' = r.vs
        /\ ret' = [added |-> r.added, err |-> r.err]

DoSetPeerMaj23(p, k) ==
    LET r == SetPeerMaj23(vs, p, k)
    IN  /\ vs' = r.vs
        /\ ret' = [added |-> FALSE, err |-> r.err]

Next ==
    \/ \E v \in Offered : DoAddVote(v)
    \/ \E p \in Peers, k \in Keys : DoSetPeerMaj23(p, k)

Spec == Init /\ [][Next]_vars

-----------------------------------------------------------------------------
(* Derived state. *)

(* The proposers of which the set holds votes for two blocks. *)
Equivocators ==
    {i \in Vals : \E k \in Keys :
        /\ vs.votesByBlock[k].votes[i] # NoVote
        /\ vs.votes[i].block # k}

-----------------------------------------------------------------------------
(* Properties. *)

(* Type correctness of the struct. *)
TypeOK ==
    /\ vs \in VoteSetType
    /\ ret \in [added : BOOLEAN, err : Errors]

(* Both tallies count every voter once and at its voting power, and the bit
   arrays name exactly the voters: after equivocation, peer claims and the
   copying of votes on a majority, sum and votesBitArray still describe
   `votes`, each blockVotes describes its own list, and nobody is counted for
   a block without being counted in sum. *)
TalliesMatchVotes == TalliesOK(vs)

(* Every vote the set holds passed the checks of addVote: it sits at its own
   index, under its own block, has the set's type and a valid signature. *)
HeldVotesAreGenuine == VotesGenuine(vs)

(* maj23 names a block iff some block reached a quorum, and then the canonical
   votes hold a quorum for that very block: what MakeCommit relies on, and
   what the copying of votes in addVerifiedVote is for. *)
MajorityIsBacked == MajorityOK(vs)

(* MakeCommit of a precommit set with a majority for a block yields a commit
   that passes Commit.ValidateBasic and VerifyCommit for that block, whatever
   stray votes for nil and for other blocks the set holds. *)
CommitVerifies ==
    vs.type = "precommit" /\ vs.maj23 \in Blocks =>
        LET c == MakeCommit(vs) IN
        /\ ValidateBasic(c) = "ok"
        /\ VerifyCommit(vs.maj23, c) = "ok"

(* Light clients accept the same commit: the verifiers that stop early agree
   with the one that reads every signature. *)
LightClientsAccept ==
    vs.type = "precommit" /\ vs.maj23 \in Blocks =>
        LET c == MakeCommit(vs) IN
        /\ VerifyCommitLight(vs.maj23, c) = "ok"
        /\ VerifyCommitLightTrusting(c, 2, 3) = "ok"

(* CommitToVoteSet is the inverse of MakeCommit: rebuilding the set does not
   panic, finds the same majority and makes the same commit. *)
CommitRoundTrips ==
    vs.type = "precommit" /\ vs.maj23 # NoBlock =>
        LET r == CommitToVoteSet(MakeCommit(vs)) IN
        /\ ~ r.panics
        /\ r.vs.maj23 = vs.maj23
        /\ r.vs.done
        /\ MakeCommit(r.vs) = MakeCommit(vs)

(* While less than a third of the power has equivocated, at most one block
   can have a quorum in votesByBlock. *)
OneQuorum ==
    3 * PowerOf(Equivocators) < TotalVotingPower =>
        \A j, k \in Keys :
            /\ vs.votesByBlock[j].sum >= Quorum
            /\ vs.votesByBlock[k].sum >= Quorum
            => j = k

(* The memory bound of the header comment: a block is tracked because some
   proposer voted for it first or some peer claimed it. *)
MemoryBounded ==
    Cardinality({k \in Keys : vs.votesByBlock[k].tracked})
        <= Cardinality(vs.votesBitArray)
           + Cardinality({p \in Peers : vs.peerMaj23s[p] # NoBlock})

(* No sequence of calls makes addVote or addVerifiedVote panic: every duplicate
   is caught by getVote, in whichever storage area the first copy is, so that
   addVerifiedVote meets none; and a vote that addVerifiedVote does not add is
   in conflict with one it names. *)
NoPanic == ret.err # "panic"

(* The first majority is final and nothing is forgotten: maj23 never changes
   once set, a proposer's canonical vote is never dropped and changes only to
   a vote for the majority block, votes by block only accumulate, and done,
   once closed, stays closed. *)
MajorityIsFinal == [][Extends(vs, vs')]_vars

(* done signals the majority: Round.Vote blocks on it.  It is closed by the
   very call that establishes maj23, and never before. *)
DoneMeansMajority == vs.done <=> vs.maj23 # NoBlock
=============================================================================
