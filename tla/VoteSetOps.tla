----------------------------- MODULE VoteSetOps -----------------------------
(***************************************************************************)
(* The data and the operations of concord/vote_set.go, as operators on a   *)
(* vote set value: VoteSet makes a state machine of them, Concord keeps    *)
(* two vote sets per round.  Every operation of the code runs under the    *)
(* vote set's mutex, so one operator application is one atomic step.       *)
(***************************************************************************)
EXTENDS VotingPower

CONSTANTS
    Blocks,     \* the complete (32 byte) data hashes
    NilBlock,   \* the zero data hash, a vote for nil
    Peers,      \* peers that may claim a +2/3 majority
    NoBlock,    \* a nil *DataHash
    NoVote,     \* a nil *Vote
    NoSig       \* bytes that verify under no key: empty or forged

VoteTypes == {"prevote", "precommit"}

(* What DataHash.Key can return for a hash that passed ValidateHash. *)
Keys == Blocks \cup {NilBlock}

(* A signature is the content it signs and the key that signed it: what
   CanonicalizeVote keeps of a vote.  The index, the address and (Vote has
   neither) the height and the round are not signed. *)
Sign(key, type, block, time) ==
    [key |-> key, type |-> type, block |-> block, time |-> time]

Signatures ==
    [key : Vals, type : VoteTypes, block : Keys, time : Nat] \cup {NoSig}

(* addr is the index of the proposer with that address; NoAddr is the empty
   address. *)
NoAddr == -1

Vote == [type : VoteTypes, block : Keys, time : Nat,
         addr : Int, index : Int, sig : Signatures]

ASSUME VoteAssumption ==
    /\ NilBlock \notin Blocks
    /\ NoBlock \notin Keys
    /\ NoVote \notin Vote
    /\ NoSig \notin [key : Vals, type : VoteTypes, block : Keys, time : Nat]

(* Vote.Verify with the public key of the proposer at index i. *)
Verify(v, i) == v.addr = i /\ v.sig = Sign(i, v.type, v.block, v.time)

-----------------------------------------------------------------------------
(* The state of a vote set. *)

(* blockVotes; an entry that is not tracked is absent from the map. *)
BlockVotes == [tracked : BOOLEAN, peerMaj23 : BOOLEAN, bitArray : SUBSET Vals,
               votes : [Vals -> Vote \cup {NoVote}], sum : Nat]

VoteSetType ==
    [type          : VoteTypes,
     votesBitArray : SUBSET Vals,
     votes         : [Vals -> Vote \cup {NoVote}],
     sum           : Nat,
     maj23         : Keys \cup {NoBlock},
     votesByBlock  : [Keys -> BlockVotes],
     peerMaj23s    : [Peers -> Keys \cup {NoBlock}],
     done          : BOOLEAN]

newBlockVotes(tracked, peerMaj23) ==
    [tracked |-> tracked, peerMaj23 |-> peerMaj23, bitArray |-> {},
     votes |-> [i \in Vals |-> NoVote], sum |-> 0]

NewVoteSet(type) ==
    [type          |-> type,
     votesBitArray |-> {},
     votes         |-> [i \in Vals |-> NoVote],
     sum           |-> 0,
     maj23         |-> NoBlock,
     votesByBlock  |-> [k \in Keys |-> newBlockVotes(FALSE, FALSE)],
     peerMaj23s    |-> [p \in Peers |-> NoBlock],
     done          |-> FALSE]

HasTwoThirdsMajority(vs) == vs.maj23 # NoBlock

-----------------------------------------------------------------------------
(* AddVote. *)

(* Mutant: only votes filed by block are looked at. *)
getFiledVote(vs, i, k) == vs.votesByBlock[k].votes[i]

(* The vote of proposer i for block k that the set already holds, in either
   of its two storage areas. *)
getVote(vs, i, k) ==
    IF vs.votes[i] # NoVote /\ vs.votes[i].block = k
    THEN vs.votes[i]
    ELSE vs.votesByBlock[k].votes[i]

(* blockVotes.addVerifiedVote *)
addBlockVote(bv, v) ==
    IF bv.votes[v.index] # NoVote
    THEN bv
    ELSE [bv EXCEPT !.bitArray = @ \cup {v.index},
                    !.votes    = [@ EXCEPT ![v.index] = v],
                    !.sum      = @ + Power[v.index]]

(* Mutant: a vote that takes another's place is counted again. *)
recordVoteTwice(vs, v) ==
    IF vs.votes[v.index] = NoVote \/ vs.maj23 = v.block
    THEN [vs EXCEPT !.votes         = [@ EXCEPT ![v.index] = v],
                    !.votesBitArray = @ \cup {v.index},
                    !.sum           = @ + Power[v.index]]
    ELSE vs

(* The canonical votes after v: the first vote of a proposer stays, except
   that a vote for the majority block takes its place. *)
recordVote(vs, v) ==
    IF vs.votes[v.index] = NoVote
    THEN [vs EXCEPT !.votes         = [@ EXCEPT ![v.index] = v],
                    !.votesBitArray = @ \cup {v.index},
                    !.sum           = @ + Power[v.index]]
    ELSE IF vs.maj23 = v.block
    THEN [vs EXCEPT !.votes         = [@ EXCEPT ![v.index] = v],
                    !.votesBitArray = @ \cup {v.index}]
    ELSE vs

(* Mutant: conflicting votes are kept for every block. *)
forgetsNothing(vs, v) == FALSE

(* Mutant: every vote for a block nobody claims is forgotten, a proposer's first
   one too. *)
forgetsUnclaimed(vs, v) ==
    ~ (vs.votesByBlock[v.block].tracked /\ vs.votesByBlock[v.block].peerMaj23)

(* A conflicting vote is kept only for a block some peer claims. *)
forgetsVote(vs, v) ==
    /\ vs.votes[v.index] # NoVote
    /\ ~ (vs.votesByBlock[v.block].tracked /\ vs.votesByBlock[v.block].peerMaj23)

(* The votes for v's block once v is among them. *)
withVote(vs, v) ==
    addBlockVote([vs.votesByBlock[v.block] EXCEPT !.tracked = TRUE], v)

fileVote(vs, v) == [vs EXCEPT !.votesByBlock = [@ EXCEPT ![v.block] = withVote(vs, v)]]

(* Mutant: a later quorum replaces the first. *)
reachesAnyQuorum(vs, v) ==
    /\ vs.votesByBlock[v.block].sum < Quorum
    /\ Quorum <= withVote(vs, v).sum

(* Mutant: the votes for all blocks are counted. *)
reachesQuorumOfAll(vs, v) ==
    /\ Quorum <= recordVote(vs, v).sum
    /\ vs.maj23 = NoBlock

(* This vote gives the set its first block with a quorum. *)
reachesQuorum(vs, v) ==
    /\ vs.votesByBlock[v.block].sum < Quorum
    /\ Quorum <= withVote(vs, v).sum
    /\ vs.maj23 = NoBlock

(* Mutant: the votes of the majority are not copied over. *)
setMaj23Only(vs, k) == [vs EXCEPT !.maj23 = k]

setMaj23(vs, k) ==
    [vs EXCEPT !.maj23 = k,
               !.votes = [i \in Vals |-> IF vs.votesByBlock[k].votes[i] # NoVote
                                         THEN vs.votesByBlock[k].votes[i]
                                         ELSE @[i]]]

(* The vote set after addVerifiedVote. *)
addVerifiedVote(vs, v) ==
    LET recorded == recordVote(vs, v)
        filed    == fileVote(recorded, v)
    IN  IF forgetsVote(vs, v) THEN recorded
        ELSE IF reachesQuorum(vs, v) THEN setMaj23(filed, v.block)
        ELSE filed

(* Mutant: signatures are not verified. *)
refusalUnverified(vs, v) ==
    IF v.index < 0 THEN "ErrVoteInvalidValidatorIndex"
    ELSE IF v.addr = NoAddr THEN "ErrVoteInvalidValidatorAddress"
    ELSE IF v.type # vs.type THEN "ErrVoteUnexpectedStep"
    ELSE IF v.index \notin Vals THEN "ErrVoteInvalidValidatorIndex"
    ELSE IF v.addr # v.index THEN "ErrVoteInvalidValidatorAddress"
    ELSE IF getVote(vs, v.index, v.block) # NoVote THEN "duplicate"
    ELSE "ok"

(* The error with which addVote refuses v before it touches the set. *)
refusal(vs, v) ==
    IF v.index < 0 THEN "ErrVoteInvalidValidatorIndex"
    ELSE IF v.addr = NoAddr THEN "ErrVoteInvalidValidatorAddress"
    ELSE IF v.type # vs.type THEN "ErrVoteUnexpectedStep"
    ELSE IF v.index \notin Vals THEN "ErrVoteInvalidValidatorIndex"
    ELSE IF v.addr # v.index THEN "ErrVoteInvalidValidatorAddress"
    ELSE IF getVote(vs, v.index, v.block) # NoVote
         THEN IF getVote(vs, v.index, v.block).sig = v.sig
              THEN "duplicate"
              ELSE "ErrVoteNonDeterministicSignature"
    ELSE IF ~ Verify(v, v.index) THEN "ErrVoteInvalidSignature"
    ELSE "ok"

(* Every error AddVote and SetPeerMaj23 return, and that they panic. *)
Errors ==
    {"ok", "ErrVoteInvalidValidatorIndex", "ErrVoteInvalidValidatorAddress",
     "ErrVoteUnexpectedStep", "ErrVoteNonDeterministicSignature",
     "ErrVoteInvalidSignature", "ErrVoteConflictingVotes", "conflicting blockID",
     "panic"}

(* Mutant: a duplicate is an error of its own. *)
AddVoteOnce(vs, v) ==
    LET e   == refusal(vs, v)
        new == addVerifiedVote(vs, v)
    IN  IF e # "ok" THEN [vs |-> vs, added |-> FALSE, err |-> e]
        ELSE [vs |-> [new EXCEPT !.done = @ \/ HasTwoThirdsMajority(new)],
              added |-> ~ forgetsVote(vs, v), err |-> "ok"]

(* Mutant: done is closed by the vote after the one that makes the majority. *)
AddVoteLateSignal(vs, v) ==
    LET e   == refusal(vs, v)
        new == addVerifiedVote(vs, v)
    IN  IF e = "duplicate" THEN [vs |-> vs, added |-> FALSE, err |-> "ok"]
        ELSE IF e # "ok" THEN [vs |-> vs, added |-> FALSE, err |-> e]
        ELSE [vs |-> [new EXCEPT !.done = @ \/ HasTwoThirdsMajority(vs)],
              added |-> ~ forgetsVote(vs, v), err |-> "ok"]

(* AddVote returns the new set, added and err ("ok" is a nil error).  A
   conflicting vote returns before the signal on done is considered.  There are
   two panics: addVerifiedVote's, before it changes anything, on a vote for a
   block that the canonical vote is for; and addVote's, on a vote that was
   neither in conflict nor added. *)
AddVote(vs, v) ==
    LET e     == refusal(vs, v)
        new   == addVerifiedVote(vs, v)
        added == ~ forgetsVote(vs, v)
        first == vs.votes[v.index] = NoVote
    IN  IF e = "duplicate" THEN [vs |-> vs, added |-> FALSE, err |-> "ok"]
        ELSE IF e # "ok" THEN [vs |-> vs, added |-> FALSE, err |-> e]
        ELSE IF ~ first /\ vs.votes[v.index].block = v.block
        THEN [vs |-> vs, added |-> FALSE, err |-> "panic"]
        ELSE IF ~ first
        THEN [vs |-> new, added |-> added, err |-> "ErrVoteConflictingVotes"]
        ELSE IF ~ added
        THEN [vs |-> new, added |-> FALSE, err |-> "panic"]
        ELSE [vs |-> [new EXCEPT !.done = @ \/ HasTwoThirdsMajority(new)],
              added |-> TRUE, err |-> "ok"]

-----------------------------------------------------------------------------
(* Peer p's claim for block k is noted, and k tracked from now on. *)
noteClaim(vs, p, k) ==
    LET claimed == [vs.votesByBlock[k] EXCEPT !.tracked = TRUE, !.peerMaj23 = TRUE]
    IN  [vs EXCEPT !.peerMaj23s   = [@ EXCEPT ![p] = k],
                   !.votesByBlock = [@ EXCEPT ![k] = claimed]]

(* SetPeerMaj23: only the first claim of a peer counts. *)
SetPeerMaj23(vs, p, k) ==
    IF vs.peerMaj23s[p] = NoBlock
    THEN [vs |-> noteClaim(vs, p, k), err |-> "ok"]
    ELSE [vs |-> vs, err |-> IF vs.peerMaj23s[p] = k THEN "ok" ELSE "conflicting blockID"]

-----------------------------------------------------------------------------
(* What a consistent vote set is.  VoteSet checks these of every reachable
   set, CommitProofs proves that AddVote and SetPeerMaj23 keep them. *)

(* The proposers with a vote, or with a vote for block k, in a list. *)
Voters(votes) == {i \in Vals : votes[i] # NoVote}
VotersFor(votes, k) == {i \in Voters(votes) : votes[i].block = k}

(* Both tallies count every voter once and at its voting power, the bit arrays
   name exactly the voters, and a voter of a block is a canonical voter. *)
TalliesOK(s) ==
    /\ s.votesBitArray = Voters(s.votes)
    /\ s.sum = PowerOf(Voters(s.votes))
    /\ \A k \in Keys :
          /\ s.votesByBlock[k].bitArray = Voters(s.votesByBlock[k].votes)
          /\ s.votesByBlock[k].sum = PowerOf(Voters(s.votesByBlock[k].votes))
          /\ Voters(s.votesByBlock[k].votes) \subseteq Voters(s.votes)

(* A vote v held at index i passed the checks of addVote. *)
IsGenuine(s, i, v) == v.index = i /\ v.type = s.type /\ Verify(v, i)

VotesGenuine(s) ==
    /\ \A i \in Voters(s.votes) : IsGenuine(s, i, s.votes[i])
    /\ \A k \in Keys : \A i \in Voters(s.votesByBlock[k].votes) :
          /\ s.votesByBlock[k].votes[i].block = k
          /\ IsGenuine(s, i, s.votesByBlock[k].votes[i])

(* The canonical votes hold a quorum for maj23, and a block with a quorum
   means that there is a maj23. *)
MajorityOK(s) ==
    /\ s.maj23 # NoBlock => PowerOf(VotersFor(s.votes, s.maj23)) >= Quorum
    /\ \A k \in Keys : s.votesByBlock[k].sum >= Quorum => s.maj23 # NoBlock

(* The inductive invariant of a vote set. *)
VoteSetInv(s) ==
    /\ s \in VoteSetType
    /\ TalliesOK(s)
    /\ VotesGenuine(s)
    /\ MajorityOK(s)

(* t is a later state of the vote set s: the first majority is final, done
   stays closed, a canonical vote changes only to a vote for the majority
   block, and votes by block only accumulate. *)
Extends(s, t) ==
    /\ s.maj23 # NoBlock => t.maj23 = s.maj23
    /\ s.done => t.done
    /\ \A i \in Voters(s.votes) :
          \/ t.votes[i] = s.votes[i]
          \/ t.votes[i] # NoVote /\ t.votes[i].block = t.maj23
    /\ \A k \in Keys : \A i \in Voters(s.votesByBlock[k].votes) :
          t.votesByBlock[k].votes[i] = s.votesByBlock[k].votes[i]

(* No peer has claimed a majority, and done is closed iff there is one.
   Nothing in concord calls SetPeerMaj23, so this is how rounds use it. *)
SignalOK(s) ==
    /\ \A k \in Keys : ~ s.votesByBlock[k].peerMaj23
    /\ s.done <=> s.maj23 # NoBlock
=============================================================================
