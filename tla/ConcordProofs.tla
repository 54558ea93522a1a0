--------------------------- MODULE ConcordProofs ---------------------------
(***************************************************************************)
(* Agreement and the soundness of commits, for every proposer set, every   *)
(* set of faulty proposers with less than a third of the power, and every  *)
(* set of messages they may send.                                          *)
(*                                                                         *)
(* The argument: a vote set holds nothing that its signer did not cast; a  *)
(* correct instance casts votes for data it validated only, and in one     *)
(* agreement one precommit; a returned commit stands for a quorum of       *)
(* precommits; two quorums share a correct proposer.                       *)
(*                                                                         *)
(* One agreement of the instances implements Consensus.                    *)
(*                                                                         *)
(* A hash is chosen when the precommits on the topic, with whatever the    *)
(* faulty may sign, make a quorum for it.  The argument: what is on the    *)
(* topic stays there, so a chosen hash stays chosen; two chosen hashes     *)
(* would share a correct instance that precommitted twice; so a step       *)
(* chooses a first hash or changes nothing.  An instance returns the hash  *)
(* its set has a majority for, and what a set holds of correct instances   *)
(* has been on the topic, so that hash is chosen already.                  *)
(***************************************************************************)
EXTENDS Concord, CommitProofs

(* The faulty hold less than a third of the voting power. *)
FaultyBound == 3 * PowerOf(Faulty) < TotalVotingPower

(* The votes that may turn up: anything signed by the faulty, and of a correct
   instance what it has cast (its own votes pass its validator first). *)
Known == {v \in Vote : \/ v.index \in Faulty
                       \/ v.index \in Correct /\ v \in seen[v.index]}

(* The vote sets are consistent and hold known votes only. *)
SetsOK ==
    \A n \in Correct : \A t \in VoteTypes :
        /\ VoteSetInv(votes[n][t])
        /\ votes[n][t].type = t
        /\ votes[n][t].done => votes[n][t].maj23 # NoBlock
        /\ HoldsOnly(votes[n][t], Known)

(* So do the messages in transit. *)
SentOK == \A m \in msgs : m.type # "proposal" => m \in Known

(* A correct instance votes for validated data only. *)
OwnOK ==
    \A n \in Correct : \A v \in seen[n] :
        v.type # "proposal" /\ v.index = n => v.block \in Valid

Voting == {"prevote", "await prevotes", "precommit", "await precommits", "make commit"}

PcOK ==
    \A n \in Correct :
        /\ pc[n] \in Voting => prop[n] \in Valid
        /\ pc[n] = "propose" /\ n = Proposer => prop[n] \in Blocks
        /\ pc[n] \notin {"idle", "crashed"} => calls[n] > 0
        /\ pc[n] = "make commit" => votes[n]["precommit"].done

IsPrecommitOf(v, n) == v.type = "precommit" /\ v.index = n

(* Within one call an instance precommits one block. *)
OnceOK ==
    \A n \in Correct : \A v \in seen[n] : IsPrecommitOf(v, n) =>
        /\ calls[n] > 0
        /\ pc[n] \in {"await precommits", "make commit", "idle", "crashed"}
        /\ v.block = prop[n]

(* A quorum stands behind hash k. *)
Backed(k) ==
    \E S \in SUBSET Vals :
        /\ PowerOf(S) >= Quorum
        /\ \A i \in S \cap Correct :
              \E v \in seen[i] : IsPrecommitOf(v, i) /\ v.block = k

ReturnedOK ==
    \A r \in returned :
        /\ Backed(r.commit.hash)
        /\ ValidateBasic(r.commit) = "ok"
        /\ VerifyCommit(r.commit.hash, r.commit) = "ok"
        /\ r.commit.hash \in Valid

IInv == TypeOK /\ SetsOK /\ SentOK /\ OwnOK /\ PcOK /\ ReturnedOK

-----------------------------------------------------------------------------
(* A correct instance is a proposer of the set, and not a faulty one. *)
LEMMA CorrectFaulty == Correct \subseteq Vals /\ \A n \in Correct : n \notin Faulty
BY DEF Correct

(* Instances forget nothing they have seen. *)
LEMMA KnownGrows ==
    ASSUME \A n \in Correct : seen[n] \subseteq seen'[n]
    PROVE  Known \subseteq Known'
BY DEF Known

(* A hash that a quorum stands behind keeps its quorum. *)
LEMMA BackedStays ==
    ASSUME \A n \in Correct : seen[n] \subseteq seen'[n], NEW k, Backed(k)
    PROVE  Backed(k)'
BY DEF Backed, IsPrecommitOf

(* A new round's vote sets are consistent and empty. *)
LEMMA NewVotesOK ==
    ASSUME NEW t \in VoteTypes, NEW V
    PROVE  /\ VoteSetInv(NewVotes[t])
           /\ NewVotes[t].type = t
           /\ ~ NewVotes[t].done
           /\ HoldsOnly(NewVotes[t], V)
<1>1. NewVotes[t] = NewVoteSet(t)
  BY DEF NewVotes
<1>2. VoteSetInv(NewVoteSet(t))
  BY NewVoteSetOK
<1>3. NewVoteSet(t).type = t /\ ~ NewVoteSet(t).done
  BY DEF NewVoteSet
<1>4. HoldsOnly(NewVoteSet(t), V)
  BY DEF NewVoteSet, newBlockVotes, HoldsOnly, Voters
<1> QED BY <1>1, <1>2, <1>3, <1>4

(* The vote sets of newRound have their types. *)
LEMMA NewVotesType == NewVotes \in [VoteTypes -> VoteSetType]
BY NewVotesOK DEF VoteSetInv, NewVotes

(* NewConcord establishes the invariant. *)
LEMMA InitInv == Init => IInv /\ OnceOK
<1> SUFFICES ASSUME Init PROVE IInv /\ OnceOK
  OBVIOUS
<1>1. TypeOK
  BY NewVotesType, ConcordAssumption DEF Init, TypeOK, PCs
<1>2. SetsOK
  BY NewVotesOK DEF Init, SetsOK
<1>3. SentOK /\ OwnOK /\ PcOK /\ ReturnedOK /\ OnceOK
  BY DEF Init, SentOK, OwnOK, PcOK, ReturnedOK, OnceOK, Voting
<1> QED BY <1>1, <1>2, <1>3 DEF IInv

(* A delivered message is a proposal, or a vote that is known if its
   signature is good. *)
LEMMA DeliveredOK ==
    ASSUME IInv, NEW n \in Correct, NEW m \in Deliverable(n)
    PROVE  /\ m \in Vote \cup Proposal
           /\ m.type # "proposal" => m \in Vote
           /\ m \in msgs \/ m \in FaultyMsgs
           /\ m \in Vote /\ m.index \in Vals /\ Verify(m, m.index) => m \in Known
<1>1. m \in msgs \/ m \in FaultyMsgs
  BY DEF Deliverable
<1>2. m \in Vote \cup Proposal
  BY <1>1, ConcordAssumption DEF IInv, TypeOK
<1>3. m.type # "proposal" => m \in Vote
  BY <1>2 DEF Proposal
<1>4. ASSUME m \in Vote, m.index \in Vals, Verify(m, m.index) PROVE m \in Known
  <2>1. m.type # "proposal"
    BY <1>4 DEF Vote, VoteTypes
  <2>2. CASE m \in msgs
    BY <2>1, <2>2 DEF IInv, SentOK
  <2>3. CASE m \in FaultyMsgs
    <3>1. m.sig = NoSig \/ m.sig.key \in Faulty
      BY <2>1, <2>3, ConcordAssumption
    <3>2. m.sig = Sign(m.index, m.type, m.block, m.time)
      BY <1>4 DEF Verify
    <3>3. m.sig # NoSig
      BY <1>4, <3>2, VoteAssumption DEF Sign, Vote
    <3>4. m.sig.key = m.index
      BY <3>2 DEF Sign
    <3> QED BY <1>4, <3>1, <3>3, <3>4 DEF Known
  <2> QED BY <1>1, <2>2, <2>3
<1> QED BY <1>1, <1>2, <1>3, <1>4
(* Adding a vote to a round's set keeps the sets consistent. *)
LEMMA VoteStep ==
    ASSUME IInv, NEW n \in Correct, NEW v \in Vote,
           \A i \in Correct : seen[i] \subseteq seen'[i],
           refusal(votes[n][v.type], v) = "ok" => v \in Known',
           votes' = [votes EXCEPT ![n] =
                        [@ EXCEPT ![v.type] = AddVote(votes[n][v.type], v).vs]]
    PROVE  /\ SetsOK'
           /\ votes' \in [Correct -> [VoteTypes -> VoteSetType]]
           /\ \A i \in Correct : votes[i]["precommit"].done => votes'[i]["precommit"].done
<1> DEFINE s == votes[n][v.type]
           w == AddVote(s, v).vs
<1>1. /\ v.type \in VoteTypes /\ "precommit" \in VoteTypes
      /\ votes \in [Correct -> [VoteTypes -> VoteSetType]]
  BY DEF Vote, VoteTypes, IInv, TypeOK
<1>2. /\ VoteSetInv(s) /\ s.type = v.type
      /\ s.done => s.maj23 # NoBlock
      /\ HoldsOnly(s, Known)
  BY <1>1 DEF IInv, SetsOK
<1>3. Known \subseteq Known'
  BY KnownGrows
<1>4. HoldsOnly(s, Known')
  BY <1>2, <1>3, HoldsOnlyMore
<1>5. VoteSetInv(w) /\ w \in VoteSetType
  BY <1>2, AddVoteOK DEF VoteSetInv
<1>6. /\ HoldsOnly(w, Known') /\ w.type = v.type
      /\ w.done => w.maj23 # NoBlock
  BY <1>2, <1>4, AddVoteKeeps
<1>7. s.done => w.done
  BY <1>2, AddVoteExtends DEF Extends
<1>8. votes' = [votes EXCEPT ![n] = [votes[n] EXCEPT ![v.type] = w]]
  OBVIOUS
<1> HIDE DEF s, w
<1>9. /\ votes' \in [Correct -> [VoteTypes -> VoteSetType]]
      /\ votes'[n][v.type] = w
      /\ \A i \in Correct : \A t \in VoteTypes :
            (i # n \/ t # v.type) => votes'[i][t] = votes[i][t]
  BY <1>1, <1>5, <1>8
<1>10. ASSUME NEW i \in Correct, NEW t \in VoteTypes
       PROVE  /\ VoteSetInv(votes'[i][t])
              /\ votes'[i][t].type = t
              /\ votes'[i][t].done => votes'[i][t].maj23 # NoBlock
              /\ HoldsOnly(votes'[i][t], Known')
  <2>1. CASE i = n /\ t = v.type
    BY <2>1, <1>5, <1>6, <1>9
  <2>2. CASE i # n \/ t # v.type
    <3>1. /\ VoteSetInv(votes[i][t]) /\ votes[i][t].type = t
          /\ votes[i][t].done => votes[i][t].maj23 # NoBlock
          /\ HoldsOnly(votes[i][t], Known)
      BY DEF IInv, SetsOK
    <3>2. HoldsOnly(votes[i][t], Known')
      BY <1>3, <3>1, HoldsOnlyMore
    <3> QED BY <2>2, <3>1, <3>2, <1>9
  <2> QED BY <2>1, <2>2
<1>11. SetsOK'
  BY <1>10 DEF SetsOK
<1>12. \A i \in Correct : votes[i]["precommit"].done => votes'[i]["precommit"].done
  BY <1>1, <1>7, <1>9 DEF s
<1> QED BY <1>9, <1>11, <1>12

(* A step that leaves the vote sets alone. *)
LEMMA SetsStay ==
    ASSUME SetsOK, UNCHANGED votes, \A i \in Correct : seen[i] \subseteq seen'[i]
    PROVE  SetsOK'
<1>1. Known \subseteq Known'
  BY KnownGrows
<1> SUFFICES ASSUME NEW i \in Correct, NEW t \in VoteTypes
             PROVE  /\ VoteSetInv(votes[i][t])
                    /\ votes[i][t].type = t
                    /\ votes[i][t].done => votes[i][t].maj23 # NoBlock
                    /\ HoldsOnly(votes[i][t], Known')
  BY DEF SetsOK
<1>2. /\ VoteSetInv(votes[i][t]) /\ votes[i][t].type = t
      /\ votes[i][t].done => votes[i][t].maj23 # NoBlock
      /\ HoldsOnly(votes[i][t], Known)
  BY DEF SetsOK
<1> QED BY <1>1, <1>2, HoldsOnlyMore

(* What has been returned stays good. *)
LEMMA ReturnedStays ==
    ASSUME ReturnedOK, UNCHANGED returned, \A i \in Correct : seen[i] \subseteq seen'[i]
    PROVE  ReturnedOK'
<1> SUFFICES ASSUME NEW r \in returned
             PROVE  /\ Backed(r.commit.hash)'
                    /\ ValidateBasic(r.commit) = "ok"
                    /\ VerifyCommit(r.commit.hash, r.commit) = "ok"
                    /\ r.commit.hash \in Valid
  BY DEF ReturnedOK
<1>1. Backed(r.commit.hash)
  BY DEF ReturnedOK
<1>2. Backed(r.commit.hash)'
  BY <1>1 DEF Backed, IsPrecommitOf
<1> QED BY <1>2 DEF ReturnedOK

(* A step that publishes nothing and is seen by nobody. *)
LEMMA Quiet ==
    ASSUME IInv, UNCHANGED <<votes, msgs, seen, returned>>
    PROVE  SetsOK' /\ SentOK' /\ OwnOK' /\ ReturnedOK'
<1>1. SetsOK'
  BY SetsStay DEF IInv
<1>2. ReturnedOK'
  BY ReturnedStays DEF IInv
<1>3. SentOK' /\ OwnOK'
  BY DEF IInv, SentOK, OwnOK, Known
<1> QED BY <1>1, <1>2, <1>3
-----------------------------------------------------------------------------
(* The actions, one by one. *)

(* AgreeOn starts a round: empty vote sets, no votes of the caller yet. *)
LEMMA StartInv ==
    ASSUME IInv, NEW n \in Correct, NEW d \in Arg[n], StartAgreeOn(n, d)
    PROVE  IInv'
<1> USE DEF IInv
<1>1. d \in Blocks \cup {NoBlock} /\ (n = Proposer => d \in Blocks)
  BY ConcordAssumption
<1>0. /\ calls[n] \in 0 .. MaxCalls /\ calls[n] + 1 \in 0 .. MaxCalls
      /\ calls[n] + 1 > 0
  BY ConcordAssumption DEF TypeOK, StartAgreeOn
<1>2. TypeOK'
  <2>1. pc' \in [Correct -> PCs]
    BY DEF TypeOK, StartAgreeOn, PCs
  <2>2. calls' \in [Correct -> 0 .. MaxCalls]
    BY <1>0 DEF TypeOK, StartAgreeOn
  <2>3. votes' \in [Correct -> [VoteTypes -> VoteSetType]]
    BY NewVotesType DEF TypeOK, StartAgreeOn
  <2> QED BY <1>1, <2>1, <2>2, <2>3 DEF TypeOK, StartAgreeOn
<1>3. SetsOK'
  <2> SUFFICES ASSUME NEW i \in Correct, NEW t \in VoteTypes
               PROVE  /\ VoteSetInv(votes'[i][t])
                      /\ votes'[i][t].type = t
                      /\ votes'[i][t].done => votes'[i][t].maj23 # NoBlock
                      /\ HoldsOnly(votes'[i][t], Known')
    BY DEF SetsOK
  <2>1. Known' = Known
    BY DEF StartAgreeOn, Known
  <2>2. CASE i = n
    <3>1. votes'[i] = NewVotes
      BY <2>2 DEF StartAgreeOn, TypeOK
    <3> QED BY <3>1, NewVotesOK
  <2>3. CASE i # n
    <3>1. votes'[i] = votes[i]
      BY <2>3 DEF StartAgreeOn, TypeOK
    <3> QED BY <3>1, <2>1 DEF SetsOK
  <2> QED BY <2>2, <2>3
<1>4. SentOK' /\ OwnOK'
  BY DEF StartAgreeOn, SentOK, OwnOK, Known
<1>5. PcOK'
  <2> SUFFICES ASSUME NEW i \in Correct
               PROVE  /\ pc'[i] \in Voting => prop'[i] \in Valid
                      /\ pc'[i] = "propose" /\ i = Proposer => prop'[i] \in Blocks
                      /\ pc'[i] \notin {"idle", "crashed"} => calls'[i] > 0
                      /\ pc'[i] = "make commit" => votes'[i]["precommit"].done
    BY DEF PcOK
  <2>1. CASE i = n
    <3>1. pc'[n] = "propose" /\ prop'[n] = d /\ calls'[n] = calls[n] + 1
      BY DEF StartAgreeOn, TypeOK
    <3> QED BY <1>0, <1>1, <2>1, <3>1 DEF Voting
  <2>2. CASE i # n
    <3>1. /\ pc'[i] = pc[i] /\ prop'[i] = prop[i] /\ calls'[i] = calls[i]
          /\ votes'[i] = votes[i]
      BY <2>2 DEF StartAgreeOn, TypeOK
    <3> QED BY <3>1 DEF PcOK
  <2> QED BY <2>1, <2>2
<1>6. ReturnedOK'
  BY ReturnedStays DEF StartAgreeOn
<1> QED BY <1>2, <1>3, <1>4, <1>5, <1>6

(* The proposer publishes its proposal. *)
LEMMA ProposeInv ==
    ASSUME IInv, NEW n \in Correct, Propose(n)
    PROVE  IInv'
<1> USE DEF IInv
<1> DEFINE m == [type |-> "proposal", data |-> prop[n], time |-> calls[n], key |-> n]
<1>1. m \in Proposal /\ m.type = "proposal" /\ prop[n] \in Blocks
  <2>1. prop[n] \in Blocks
    BY DEF Propose, PcOK
  <2>2. calls[n] \in Nat /\ n \in Vals
    BY CorrectFaulty, ConcordAssumption DEF TypeOK
  <2> QED BY <2>1, <2>2 DEF Proposal
<1>2. /\ msgs' = msgs \cup {m}
      /\ seen' = [seen EXCEPT ![n] = @ \cup {m}]
  BY DEF Propose
<1> HIDE DEF m
<1>3. TypeOK'
  <2>1. pc' \in [Correct -> PCs]
    BY DEF TypeOK, Propose, PCs
  <2>2. propCh' \in [Correct -> Blocks \cup {NoBlock}]
    BY <1>1 DEF TypeOK, Propose
  <2>3. /\ msgs' \subseteq Vote \cup Proposal
        /\ seen' \in [Correct -> SUBSET (Vote \cup Proposal)]
    BY <1>1, <1>2 DEF TypeOK
  <2> QED BY <2>1, <2>2, <2>3 DEF TypeOK, Propose
<1>4. \A i \in Correct : seen[i] \subseteq seen'[i]
  BY <1>2 DEF TypeOK
<1>5. SetsOK'
  BY <1>4, SetsStay DEF Propose
<1>6. ReturnedOK'
  BY <1>4, ReturnedStays DEF Propose
<1>7. SentOK'
  BY <1>1, <1>2, <1>4, KnownGrows DEF SentOK
<1>8. OwnOK'
  BY <1>1, <1>2 DEF OwnOK, TypeOK
<1>9. PcOK'
  BY DEF Propose, PcOK, TypeOK, Voting
<1> QED BY <1>3, <1>5, <1>6, <1>7, <1>8, <1>9

(* The others only start to wait. *)
LEMMA SkipProposeInv ==
    ASSUME IInv, NEW n \in Correct, SkipPropose(n)
    PROVE  IInv'
<1>1. SetsOK' /\ SentOK' /\ OwnOK' /\ ReturnedOK'
  BY Quiet DEF SkipPropose
<1>2. TypeOK'
  BY DEF IInv, SkipPropose, TypeOK, PCs
<1>3. PcOK'
  BY DEF IInv, SkipPropose, TypeOK, PcOK, Voting
<1> QED BY <1>1, <1>2, <1>3 DEF IInv

(* A proposal is taken up for voting only once it is validated. *)
LEMMA TakeProposalInv ==
    ASSUME IInv, NEW n \in Correct, TakeProposal(n)
    PROVE  IInv'
<1>1. SetsOK' /\ SentOK' /\ OwnOK' /\ ReturnedOK'
  BY Quiet DEF TakeProposal
<1>2. TypeOK'
  BY DEF IInv, TakeProposal, TypeOK, PCs
<1>3. PcOK'
  BY DEF IInv, TakeProposal, TypeOK, PcOK, Voting
<1> QED BY <1>1, <1>2, <1>3 DEF IInv

(* What a correct instance casts is a sound vote for validated data. *)
LEMMA OwnVoteOK ==
    ASSUME IInv, NEW n \in Correct, NEW type \in VoteTypes, prop[n] \in Valid
    PROVE  LET v == ownVote(n, type) IN
           /\ v \in Vote /\ v.type = type /\ v.index = n
           /\ v.block = prop[n] /\ v.block \in Valid
<1>1. n \in Vals /\ n \in Int /\ calls[n] \in Nat /\ prop[n] \in Keys
  BY CorrectFaulty, ConcordAssumption, PowerAssumption DEF IInv, TypeOK, Keys, Vals
<1>2. Sign(n, type, prop[n], calls[n]) \in Signatures
  BY <1>1 DEF Sign, Signatures
<1>3. ownVote(n, type) \in Vote
  BY <1>1, <1>2 DEF ownVote, Vote
<1> QED BY <1>3 DEF ownVote

(* An instance casts a vote for the proposal it has validated. *)
LEMMA CastVoteInv ==
    ASSUME IInv, NEW n \in Correct, NEW type \in VoteTypes, NEW next \in PCs,
           pc[n] \in Voting, next \in Voting \ {"make commit"},
           CastVote(n, type, next)
    PROVE  IInv'
<1> USE DEF IInv
<1> DEFINE v == ownVote(n, type)
           r == AddVote(votes[n][type], v)
<1>1. /\ v \in Vote /\ v.type = type /\ v.index = n
      /\ v.block = prop[n] /\ v.block \in Valid
  BY OwnVoteOK DEF PcOK
<1>2. /\ votes' = [votes EXCEPT ![n] = [@ EXCEPT ![v.type] = AddVote(votes[n][v.type], v).vs]]
      /\ seen' = [seen EXCEPT ![n] = @ \cup {v}]
      /\ msgs' = msgs \/ msgs' = msgs \cup {v}
      /\ pc' = [pc EXCEPT ![n] = next] \/ pc' = [pc EXCEPT ![n] = "idle"]
      /\ UNCHANGED <<calls, prop, propCh, returned>>
  BY <1>1 DEF CastVote
<1> HIDE DEF v, r
<1>3. \A i \in Correct : seen[i] \subseteq seen'[i]
  BY <1>2 DEF TypeOK
<1>4. v \in Known'
  BY <1>1, <1>2 DEF Known, TypeOK
<1>5. /\ SetsOK' /\ votes' \in [Correct -> [VoteTypes -> VoteSetType]]
      /\ \A i \in Correct : votes[i]["precommit"].done => votes'[i]["precommit"].done
  BY <1>1, <1>2, <1>3, <1>4, VoteStep
<1>6. TypeOK'
  <2>1. pc' \in [Correct -> PCs]
    BY <1>2 DEF TypeOK, PCs
  <2>2. /\ msgs' \subseteq Vote \cup Proposal
        /\ seen' \in [Correct -> SUBSET (Vote \cup Proposal)]
    BY <1>1, <1>2 DEF TypeOK
  <2> QED BY <1>2, <1>5, <2>1, <2>2 DEF TypeOK
<1>7. SentOK'
  BY <1>2, <1>3, <1>4, KnownGrows DEF SentOK
<1>8. OwnOK'
  BY <1>1, <1>2 DEF OwnOK, TypeOK
<1>9. PcOK'
  BY <1>2, <1>5 DEF PcOK, TypeOK, Voting
<1>10. ReturnedOK'
  BY <1>2, <1>3, ReturnedStays
<1> QED BY <1>5, <1>6, <1>7, <1>8, <1>9, <1>10

(* A wait in round.Vote ends with the set done. *)
LEMMA AwaitVotesInv ==
    ASSUME IInv, NEW n \in Correct, AwaitPrevotes(n) \/ AwaitPrecommits(n)
    PROVE  IInv'
<1>1. SetsOK' /\ SentOK' /\ OwnOK' /\ ReturnedOK'
  BY Quiet DEF AwaitPrevotes, AwaitPrecommits, AwaitVotes
<1>2. TypeOK'
  BY DEF IInv, AwaitPrevotes, AwaitPrecommits, AwaitVotes, TypeOK, PCs
<1>3. PcOK'
  BY DEF IInv, AwaitPrevotes, AwaitPrecommits, AwaitVotes, TypeOK, PcOK, Voting
<1> QED BY <1>1, <1>2, <1>3 DEF IInv

(* The context ends a call: nothing but pc changes. *)
LEMMA CancelInv ==
    ASSUME IInv, NEW n \in Correct, Cancel(n)
    PROVE  IInv'
<1>1. SetsOK' /\ SentOK' /\ OwnOK' /\ ReturnedOK'
  BY Quiet DEF Cancel
<1>2. TypeOK'
  BY DEF IInv, Cancel, TypeOK, PCs
<1>3. PcOK'
  BY DEF IInv, Cancel, TypeOK, PcOK, Voting
<1> QED BY <1>1, <1>2, <1>3 DEF IInv
(* The majority of a finished precommit set is a quorum, with a correct
   proposer in it. *)
LEMMA MajorityBacked ==
    ASSUME IInv, FaultyBound, NEW n \in Correct, votes[n]["precommit"].done
    PROVE  LET s == votes[n]["precommit"] IN
           /\ Backed(s.maj23)
           /\ s.maj23 \in Valid
           /\ ValidateBasic(MakeCommit(s)) = "ok"
           /\ VerifyCommit(s.maj23, MakeCommit(s)) = "ok"
           /\ MakeCommit(s).hash = s.maj23
<1> DEFINE s == votes[n]["precommit"]
           S == VotersFor(s.votes, s.maj23)
<1>1. /\ VoteSetInv(s) /\ s.type = "precommit" /\ s.maj23 # NoBlock
      /\ HoldsOnly(s, Known)
  BY DEF IInv, SetsOK, VoteTypes
<1> HIDE DEF s
<1>2. S \in SUBSET Vals /\ PowerOf(S) >= Quorum
  BY <1>1 DEF VoteSetInv, MajorityOK, VotersFor, Voters
<1>3. ASSUME NEW i \in S \cap Correct
      PROVE  \E v \in seen[i] : IsPrecommitOf(v, i) /\ v.block = s.maj23
  <2>1. i \in Voters(s.votes) /\ s.votes[i].block = s.maj23
    BY DEF VotersFor
  <2>2. s.votes[i].index = i /\ s.votes[i].type = "precommit"
    BY <1>1, <2>1 DEF VoteSetInv, VotesGenuine, IsGenuine
  <2>3. s.votes[i] \in Known
    BY <1>1, <2>1 DEF HoldsOnly
  <2>4. s.votes[i] \in seen[i]
    BY <2>2, <2>3, CorrectFaulty DEF Known
  <2> QED BY <2>1, <2>2, <2>4 DEF IsPrecommitOf
<1>4. Backed(s.maj23)
  BY <1>2, <1>3 DEF Backed
<1>5. s.maj23 \in Valid
  <2>1. Faulty \in SUBSET Vals
    BY ConcordAssumption
  <2>2. PICK i \in S \cap S : i \notin Faulty
    BY <1>2, <2>1, QuorumsShareCorrect DEF FaultyBound
  <2>3. i \in S \cap Correct
    BY <1>2, <2>2 DEF Correct
  <2>4. PICK v \in seen[i] : IsPrecommitOf(v, i) /\ v.block = s.maj23
    BY <1>3, <2>3
  <2> QED BY <2>3, <2>4 DEF IInv, OwnOK, IsPrecommitOf
<1>6. s.maj23 \in Blocks
  BY <1>5, ConcordAssumption
<1>7. MakeCommit(s).hash = s.maj23
  BY DEF MakeCommit
<1> QED BY <1>1, <1>4, <1>5, <1>6, <1>7, MakeCommitVerifies DEF s

(* A returned commit verifies and stands for a quorum of precommits. *)
LEMMA ReturnCommitInv ==
    ASSUME IInv, FaultyBound, NEW n \in Correct, ReturnCommit(n)
    PROVE  IInv'
<1> USE DEF IInv
<1> DEFINE s == votes[n]["precommit"]
           r == [node |-> n, call |-> calls[n], data |-> prop[n],
                 commit |-> MakeCommit(s)]
<1>1. /\ Backed(s.maj23) /\ s.maj23 \in Valid
      /\ ValidateBasic(MakeCommit(s)) = "ok"
      /\ VerifyCommit(s.maj23, MakeCommit(s)) = "ok"
      /\ MakeCommit(s).hash = s.maj23
  BY MajorityBacked DEF ReturnCommit, PcOK
<1>2. prop[n] \in Blocks /\ calls[n] \in Nat
  <2>1. prop[n] \in Valid
    BY DEF ReturnCommit, PcOK, Voting
  <2>2. calls[n] \in Nat
    BY ConcordAssumption DEF TypeOK
  <2> QED BY <2>1, <2>2, ConcordAssumption
<1>3. /\ returned' = returned \cup {r}
      /\ UNCHANGED <<calls, prop, propCh, votes, msgs, seen>>
      /\ r.node = n /\ r.call = calls[n] /\ r.data = prop[n] /\ r.commit = MakeCommit(s)
  BY DEF ReturnCommit
<1> HIDE DEF s, r
<1>4. TypeOK'
  <2>1. pc' \in [Correct -> PCs]
    BY DEF TypeOK, ReturnCommit, PCs
  <2> QED BY <1>2, <1>3, <2>1 DEF TypeOK
<1>5. SetsOK'
  BY <1>3, SetsStay
<1>6. SentOK' /\ OwnOK'
  BY <1>3 DEF SentOK, OwnOK, Known
<1>7. PcOK'
  BY <1>3 DEF ReturnCommit, PcOK, TypeOK, Voting
<1>8. ReturnedOK'
  <2> SUFFICES ASSUME NEW x \in returned'
               PROVE  /\ Backed(x.commit.hash)'
                      /\ ValidateBasic(x.commit) = "ok"
                      /\ VerifyCommit(x.commit.hash, x.commit) = "ok"
                      /\ x.commit.hash \in Valid
    BY DEF ReturnedOK
  <2>1. Backed(x.commit.hash) => Backed(x.commit.hash)'
    BY <1>3 DEF Backed
  <2> QED BY <1>1, <1>3, <2>1 DEF ReturnedOK
<1> QED BY <1>4, <1>5, <1>6, <1>7, <1>8

(* Delivery adds to seen what is published; n's own votes are there already. *)
LEMMA MarkSeenOK ==
    ASSUME IInv, NEW n \in Correct, NEW m, MarkSeen(n, m)
    PROVE  /\ \A i \in Correct : seen[i] \subseteq seen'[i]
           /\ seen' \in [Correct -> SUBSET (Vote \cup Proposal)]
           /\ \A i \in Correct : \A v \in seen'[i] :
                 v.type # "proposal" /\ v.index = i => v \in seen[i]
<1>1. seen' = [seen EXCEPT ![n] = seen[n] \cup ({m} \cap msgs)]
  BY DEF MarkSeen
<1>2. /\ \A i \in Correct : seen[i] \subseteq seen'[i]
      /\ seen' \in [Correct -> SUBSET (Vote \cup Proposal)]
  BY <1>1 DEF IInv, TypeOK
<1>3. ASSUME NEW i \in Correct, NEW v \in seen'[i], v.type # "proposal", v.index = i
      PROVE  v \in seen[i]
  <2>1. v \in seen[i] \/ v \in msgs
    BY <1>1 DEF IInv, TypeOK
  <2>2. v \in msgs => v \in Known
    BY <1>3 DEF IInv, SentOK
  <2> QED BY <1>3, <2>1, <2>2, CorrectFaulty DEF Known
<1> QED BY <1>2, <1>3

(* A handler adds what it is given to the round it acts on. *)
LEMMA HandleInv ==
    ASSUME IInv, NEW n \in Correct, NEW m \in Deliverable(n), Handle(n, m)
    PROVE  IInv'
<1> USE DEF IInv
<1>1. /\ \A i \in Correct : seen[i] \subseteq seen'[i]
      /\ seen' \in [Correct -> SUBSET (Vote \cup Proposal)]
      /\ \A i \in Correct : \A v \in seen'[i] :
            v.type # "proposal" /\ v.index = i => v \in seen[i]
  BY MarkSeenOK DEF Handle
<1>2. UNCHANGED <<pc, calls, prop, msgs, returned>>
  BY DEF Handle
<1>3. SentOK'
  BY <1>1, <1>2, KnownGrows DEF SentOK
<1>4. OwnOK'
  BY <1>1 DEF OwnOK
<1>5. ReturnedOK'
  BY <1>1, <1>2, ReturnedStays
<1>6. CASE m.type = "proposal"
  <2>1. m \in Proposal
    BY <1>6, DeliveredOK DEF Vote, VoteTypes
  <2>2. propCh' \in [Correct -> Blocks \cup {NoBlock}] /\ UNCHANGED votes
    BY <1>6, <2>1 DEF Handle, RcvProposal, Proposal, TypeOK
  <2>3. TypeOK'
    BY <1>1, <1>2, <2>2 DEF TypeOK
  <2>4. SetsOK'
    BY <1>1, <2>2, SetsStay
  <2>5. PcOK'
    BY <1>2, <2>2 DEF PcOK
  <2> QED BY <1>3, <1>4, <1>5, <2>3, <2>4, <2>5
<1>7. CASE m.type # "proposal"
  <2>1. m \in Vote
    BY <1>7, DeliveredOK
  <2>2. /\ votes' = [votes EXCEPT ![n] =
                        [@ EXCEPT ![m.type] = AddVote(votes[n][m.type], m).vs]]
        /\ UNCHANGED propCh
    BY <1>7 DEF Handle, RcvVote
  <2>3. refusal(votes[n][m.type], m) = "ok" => m \in Known'
    <3>1. refusal(votes[n][m.type], m) = "ok" => m.index \in Vals /\ Verify(m, m.index)
      BY DEF refusal
    <3> QED BY <1>1, <2>1, <3>1, DeliveredOK, KnownGrows
  <2>4. /\ SetsOK' /\ votes' \in [Correct -> [VoteTypes -> VoteSetType]]
        /\ \A i \in Correct : votes[i]["precommit"].done => votes'[i]["precommit"].done
    BY <1>1, <2>1, <2>2, <2>3, VoteStep
  <2>5. TypeOK'
    BY <1>1, <1>2, <2>2, <2>4 DEF TypeOK
  <2>6. PcOK'
    BY <1>2, <2>4 DEF PcOK
  <2> QED BY <1>3, <1>4, <1>5, <2>4, <2>5, <2>6
<1> QED BY <1>6, <1>7

(* A handler without a round brings down its own instance only. *)
LEMMA HandleWithoutRoundInv ==
    ASSUME IInv, NEW n \in Correct, NEW m, HandleWithoutRound(n, m)
    PROVE  IInv'
<1> USE DEF IInv
<1>1. /\ \A i \in Correct : seen[i] \subseteq seen'[i]
      /\ seen' \in [Correct -> SUBSET (Vote \cup Proposal)]
      /\ \A i \in Correct : \A v \in seen'[i] :
            v.type # "proposal" /\ v.index = i => v \in seen[i]
  BY MarkSeenOK DEF HandleWithoutRound
<1>2. UNCHANGED <<calls, prop, propCh, votes, msgs, returned>>
  BY DEF HandleWithoutRound
<1>3. SentOK'
  BY <1>1, <1>2, KnownGrows DEF SentOK
<1>4. OwnOK'
  BY <1>1 DEF OwnOK
<1>5. SetsOK' /\ ReturnedOK'
  BY <1>1, <1>2, SetsStay, ReturnedStays
<1>6. PcOK'
  BY <1>2 DEF HandleWithoutRound, PcOK, TypeOK, Voting
<1>7. TypeOK'
  <2>1. pc' \in [Correct -> PCs]
    BY DEF HandleWithoutRound, TypeOK, PCs
  <2> QED BY <1>1, <1>2, <2>1 DEF TypeOK
<1> QED BY <1>3, <1>4, <1>5, <1>6, <1>7
(* Every step keeps the invariant. *)
LEMMA NextInv ==
    ASSUME FaultyBound
    PROVE  IInv /\ [Next]_vars => IInv'
<1> SUFFICES ASSUME IInv, [Next]_vars PROVE IInv'
  OBVIOUS
<1>1. CASE UNCHANGED vars
  <2>1. SetsOK' /\ SentOK' /\ OwnOK' /\ ReturnedOK'
    BY <1>1, Quiet DEF vars
  <2>2. TypeOK' /\ PcOK'
    BY <1>1 DEF IInv, TypeOK, PcOK, vars
  <2> QED BY <2>1, <2>2 DEF IInv
<1>2. ASSUME NEW n \in Correct,
             \/ Start(n) \/ Step(n) \/ Cancel(n)
             \/ \E m \in Deliverable(n) : Handle(n, m) \/ HandleWithoutRound(n, m)
      PROVE  IInv'
  <2>1. CASE Start(n)
    BY <2>1, StartInv DEF Start
  <2>2. CASE Propose(n) \/ SkipPropose(n) \/ TakeProposal(n)
    BY <2>2, ProposeInv, SkipProposeInv, TakeProposalInv
  <2>3. CASE Prevote(n)
    <3>1. /\ "prevote" \in VoteTypes /\ pc[n] \in Voting
          /\ "await prevotes" \in PCs /\ "await prevotes" \in Voting \ {"make commit"}
      BY <2>3 DEF Prevote, VoteTypes, PCs, Voting
    <3> QED BY <2>3, <3>1, CastVoteInv DEF Prevote
  <2>4. CASE Precommit(n)
    <3>1. /\ "precommit" \in VoteTypes /\ pc[n] \in Voting
          /\ "await precommits" \in PCs /\ "await precommits" \in Voting \ {"make commit"}
      BY <2>4 DEF Precommit, VoteTypes, PCs, Voting
    <3> QED BY <2>4, <3>1, CastVoteInv DEF Precommit
  <2>5. CASE AwaitPrevotes(n) \/ AwaitPrecommits(n)
    BY <2>5, AwaitVotesInv
  <2>6. CASE ReturnCommit(n)
    BY <2>6, ReturnCommitInv
  <2>7. CASE Cancel(n)
    BY <2>7, CancelInv
  <2>8. CASE \E m \in Deliverable(n) : Handle(n, m) \/ HandleWithoutRound(n, m)
    BY <2>8, HandleInv, HandleWithoutRoundInv
  <2> QED BY <1>2, <2>1, <2>2, <2>3, <2>4, <2>5, <2>6, <2>7, <2>8 DEF Step
<1> QED BY <1>1, <1>2 DEF Next

(* The invariant holds throughout. *)
LEMMA InvHolds ==
    ASSUME FaultyBound
    PROVE  Spec => []IInv
BY InitInv, NextInv, PTL DEF Spec

(* Every step of a run of one agreement keeps precommits unique: an instance
   that has precommitted is past the last point where prop changes. *)
LEMMA NextOnce ==
    ASSUME MaxCalls = 1
    PROVE  IInv /\ OnceOK /\ [Next]_vars => OnceOK'
<1> SUFFICES ASSUME IInv, OnceOK, [Next]_vars,
                    NEW i \in Correct, NEW v \in seen'[i], IsPrecommitOf(v, i)
             PROVE  /\ calls'[i] > 0
                    /\ pc'[i] \in {"await precommits", "make commit", "idle", "crashed"}
                    /\ v.block = prop'[i]
  BY DEF OnceOK
<1> DEFINE Past == {"await precommits", "make commit", "idle", "crashed"}
<1>1. /\ pc \in [Correct -> PCs] /\ calls \in [Correct -> 0 .. 1]
      /\ prop \in [Correct -> Blocks \cup {NoBlock}]
      /\ seen \in [Correct -> SUBSET (Vote \cup Proposal)]
  BY DEF IInv, TypeOK
<1>2. v.type = "precommit" /\ v.index = i
  BY DEF IsPrecommitOf
<1>3. v \in seen[i] => calls[i] > 0 /\ pc[i] \in Past /\ v.block = prop[i]
  BY DEF OnceOK
<1>4. CASE UNCHANGED vars
  BY <1>3, <1>4 DEF vars
<1>5. ASSUME NEW n \in Correct, Start(n)
      PROVE  calls'[i] > 0 /\ pc'[i] \in Past /\ v.block = prop'[i]
  <2>1. PICK d \in Arg[n] : StartAgreeOn(n, d)
    BY <1>5 DEF Start
  <2>2. v \in seen[i] /\ ~ (calls[n] > 0)
    BY <1>1, <2>1 DEF StartAgreeOn
  <2>3. i # n
    BY <1>3, <2>2
  <2> QED BY <1>1, <1>3, <2>1, <2>2, <2>3 DEF StartAgreeOn
<1>6. ASSUME NEW n \in Correct, Propose(n)
      PROVE  calls'[i] > 0 /\ pc'[i] \in Past /\ v.block = prop'[i]
  <2> DEFINE m == [type |-> "proposal", data |-> prop[n], time |-> calls[n], key |-> n]
  <2>1. v \in seen[i]
    <3>1. seen' = [seen EXCEPT ![n] = seen[n] \cup {m}] /\ m.type # "precommit"
      BY <1>6 DEF Propose
    <3> HIDE DEF m
    <3> QED BY <1>1, <1>2, <3>1
  <2> QED BY <1>1, <1>3, <1>6, <2>1 DEF Propose
<1>7. ASSUME NEW n \in Correct, SkipPropose(n) \/ TakeProposal(n)
      PROVE  calls'[i] > 0 /\ pc'[i] \in Past /\ v.block = prop'[i]
  BY <1>1, <1>3, <1>7 DEF SkipPropose, TakeProposal
<1>8. ASSUME NEW n \in Correct, AwaitPrevotes(n) \/ AwaitPrecommits(n)
      PROVE  calls'[i] > 0 /\ pc'[i] \in Past /\ v.block = prop'[i]
  BY <1>1, <1>3, <1>8 DEF AwaitPrevotes, AwaitPrecommits, AwaitVotes
<1>9. ASSUME NEW n \in Correct, ReturnCommit(n) \/ Cancel(n)
      PROVE  calls'[i] > 0 /\ pc'[i] \in Past /\ v.block = prop'[i]
  BY <1>1, <1>3, <1>9 DEF ReturnCommit, Cancel
<1>10. ASSUME NEW n \in Correct, NEW m, Handle(n, m) \/ HandleWithoutRound(n, m)
       PROVE  calls'[i] > 0 /\ pc'[i] \in Past /\ v.block = prop'[i]
  <2>1. v \in seen[i]
    BY <1>2, <1>10, MarkSeenOK DEF Handle, HandleWithoutRound
  <2> QED BY <1>1, <1>3, <1>10, <2>1 DEF Handle, HandleWithoutRound
<1>11. ASSUME NEW n \in Correct, Prevote(n)
       PROVE  calls'[i] > 0 /\ pc'[i] \in Past /\ v.block = prop'[i]
  <2>1. seen' = [seen EXCEPT ![n] = seen[n] \cup {ownVote(n, "prevote")}]
    BY <1>11 DEF Prevote, CastVote
  <2>2. ownVote(n, "prevote").type = "prevote"
    BY DEF ownVote
  <2>3. v \in seen[i]
    BY <1>1, <1>2, <2>1, <2>2
  <2>4. i # n
    BY <1>3, <1>11, <2>3 DEF Prevote
  <2> QED BY <1>1, <1>3, <1>11, <2>3, <2>4 DEF Prevote, CastVote
<1>12. ASSUME NEW n \in Correct, Precommit(n)
       PROVE  calls'[i] > 0 /\ pc'[i] \in Past /\ v.block = prop'[i]
  <2>1. /\ seen' = [seen EXCEPT ![n] = seen[n] \cup {ownVote(n, "precommit")}]
        /\ pc[n] = "precommit" /\ prop' = prop /\ calls' = calls
        /\ \/ pc' = [pc EXCEPT ![n] = "await precommits"]
           \/ pc' = [pc EXCEPT ![n] = "idle"]
    BY <1>12 DEF Precommit, CastVote
  <2>2. CASE v \in seen[i]
    BY <1>1, <1>3, <2>1, <2>2
  <2>3. CASE v \notin seen[i]
    <3>1. i = n /\ v = ownVote(n, "precommit")
      BY <1>1, <2>1, <2>3
    <3>2. v.block = prop[i]
      BY <3>1 DEF ownVote
    <3>3. calls[i] > 0
      BY <2>1, <3>1 DEF IInv, PcOK
    <3> QED BY <1>1, <2>1, <3>1, <3>2, <3>3
  <2> QED BY <2>2, <2>3
<1> QED BY <1>4, <1>5, <1>6, <1>7, <1>8, <1>9, <1>10, <1>11, <1>12 DEF Next, Step

(* With one call each, nobody precommits two blocks. *)
LEMMA OnceHolds ==
    ASSUME FaultyBound, MaxCalls = 1
    PROVE  Spec => [](IInv /\ OnceOK)
<1>1. IInv /\ OnceOK /\ [Next]_vars => (IInv /\ OnceOK)'
  BY NextInv, NextOnce
<1> QED BY <1>1, InitInv, PTL DEF Spec

-----------------------------------------------------------------------------
(* The results. *)

(* Type correctness of the instances, their rounds and the messages, with any
   number of calls of AgreeOn. *)
THEOREM TypeCorrect ==
    ASSUME FaultyBound
    PROVE  Spec => []TypeOK
BY InvHolds, PTL DEF IInv

(* Every commit AgreeOn returns, in any call, passes ValidateBasic and
   VerifyCommit for its hash, and a correct instance validated that hash. *)
THEOREM CommitsCorrect ==
    ASSUME FaultyBound
    PROVE  Spec => []CommitsAreGood
<1>1. IInv => CommitsAreGood
  BY DEF IInv, ReturnedOK, CommitsAreGood
<1> QED BY <1>1, InvHolds, PTL

(* Two quorums of precommits of one agreement are for one hash. *)
LEMMA BackedOnce ==
    ASSUME FaultyBound, OnceOK, NEW j, NEW k, Backed(j), Backed(k)
    PROVE  j = k
<1>1. PICK S \in SUBSET Vals :
        /\ PowerOf(S) >= Quorum
        /\ \A i \in S \cap Correct : \E v \in seen[i] : IsPrecommitOf(v, i) /\ v.block = j
  BY DEF Backed
<1>2. PICK T \in SUBSET Vals :
        /\ PowerOf(T) >= Quorum
        /\ \A i \in T \cap Correct : \E v \in seen[i] : IsPrecommitOf(v, i) /\ v.block = k
  BY DEF Backed
<1>3. Faulty \in SUBSET Vals
  BY ConcordAssumption
<1>4. PICK i \in S \cap T : i \notin Faulty
  BY <1>1, <1>2, <1>3, QuorumsShareCorrect DEF FaultyBound
<1>5. i \in S \cap Correct /\ i \in T \cap Correct
  BY <1>4 DEF Correct
<1>6. PICK v \in seen[i] : IsPrecommitOf(v, i) /\ v.block = j
  BY <1>1, <1>5
<1>7. PICK w \in seen[i] : IsPrecommitOf(w, i) /\ w.block = k
  BY <1>2, <1>5
<1> QED BY <1>5, <1>6, <1>7 DEF OnceOK

(* Agreement: one agreement never ends with commits for two hashes, at however
   many instances, whatever the faulty send. *)
THEOREM AgreementHolds ==
    ASSUME FaultyBound, MaxCalls = 1
    PROVE  Spec => []Agreement
<1>1. IInv /\ OnceOK => Agreement
  BY BackedOnce DEF IInv, ReturnedOK, Agreement
<1> QED BY <1>1, OnceHolds, PTL

-----------------------------------------------------------------------------
(* With a correct proposer there is one proposal to an agreement. *)

(* What the proposer published, what is in a channel, what an instance votes
   on and what it has voted for are the proposer's argument. *)
OneProposal ==
    /\ \A m \in msgs : m.type = "proposal" =>
          calls[Proposer] > 0 /\ m.data = prop[Proposer]
    /\ \A n \in Correct :
          /\ propCh[n] # NoBlock => calls[Proposer] > 0 /\ propCh[n] = prop[Proposer]
          /\ pc[n] \in Voting => calls[Proposer] > 0 /\ prop[n] = prop[Proposer]
          /\ \A v \in seen[n] : v.type # "proposal" /\ v.index = n =>
                calls[Proposer] > 0 /\ v.block = prop[Proposer]

(* A call returns the data its commit is for. *)
ReturnedTogether == \A r \in returned : r.data = r.commit.hash

(* Once there is a proposal the proposer's argument stays. *)
LEMMA ProposalFixed ==
    ASSUME IInv, OneProposal, Proposer \in Correct, MaxCalls = 1, [Next]_vars,
           calls[Proposer] > 0
    PROVE  calls'[Proposer] > 0 /\ prop'[Proposer] = prop[Proposer]
<1>1. calls \in [Correct -> 0 .. 1] /\ prop \in [Correct -> Blocks \cup {NoBlock}]
  BY DEF IInv, TypeOK
<1>2. CASE UNCHANGED <<calls, prop>>
  BY <1>2
<1>3. ASSUME NEW n \in Correct, Start(n)
      PROVE  calls'[Proposer] > 0 /\ prop'[Proposer] = prop[Proposer]
  BY <1>1, <1>3 DEF Start, StartAgreeOn
<1>4. ASSUME NEW n \in Correct, TakeProposal(n)
      PROVE  calls'[Proposer] > 0 /\ prop'[Proposer] = prop[Proposer]
  <2>1. propCh[n] = prop[Proposer] /\ prop' = [prop EXCEPT ![n] = propCh[n]] /\ calls' = calls
    BY <1>4 DEF TakeProposal, OneProposal
  <2> QED BY <1>1, <2>1
<1> QED
  BY <1>2, <1>3, <1>4 DEF Next, vars, Step, Propose, SkipPropose, Prevote, Precommit,
     CastVote, AwaitPrevotes, AwaitPrecommits, AwaitVotes, ReturnCommit, Cancel, Handle,
     HandleWithoutRound

(* A handler's proposal is the proposer's: only the proposer signs with its
   key, and the faulty are others. *)
LEMMA DeliveredProposal ==
    ASSUME OneProposal, Proposer \in Correct, NEW n \in Correct,
           NEW m \in Deliverable(n), m.type = "proposal", m.key = Proposer
    PROVE  calls[Proposer] > 0 /\ m.data = prop[Proposer]
<1>1. m \in msgs \/ m \in FaultyMsgs
  BY DEF Deliverable
<1>2. m \notin FaultyMsgs
  BY ConcordAssumption, CorrectFaulty
<1> QED BY <1>1, <1>2 DEF OneProposal

(* Every step keeps it at one proposal. *)
LEMMA NextProposal ==
    ASSUME IInv, OneProposal, Proposer \in Correct, MaxCalls = 1, [Next]_vars
    PROVE  OneProposal'
<1> DEFINE P == Proposer
           Is(x) == calls'[P] > 0 /\ x = prop'[P]
<1>1. calls[P] > 0 => calls'[P] > 0 /\ prop'[P] = prop[P]
  BY ProposalFixed
<1>2. /\ pc \in [Correct -> PCs] /\ calls \in [Correct -> 0 .. 1]
      /\ prop \in [Correct -> Blocks \cup {NoBlock}]
      /\ propCh \in [Correct -> Blocks \cup {NoBlock}]
      /\ seen \in [Correct -> SUBSET (Vote \cup Proposal)]
  BY DEF IInv, TypeOK
<1>3. /\ \A m \in msgs : m.type = "proposal" => Is(m.data)
      /\ \A n \in Correct :
            /\ propCh[n] # NoBlock => Is(propCh[n])
            /\ pc[n] \in Voting => Is(prop[n])
            /\ \A v \in seen[n] : v.type # "proposal" /\ v.index = n => Is(v.block)
  BY <1>1 DEF OneProposal
<1> DEFINE Chan == \A n \in Correct : propCh'[n] # NoBlock => Is(propCh'[n])
           Vting == \A n \in Correct : pc'[n] \in Voting => Is(prop'[n])
           Topic == \A m \in msgs' : m.type = "proposal" => Is(m.data)
           Cast == \A n \in Correct : \A v \in seen'[n] :
                      v.type # "proposal" /\ v.index = n => Is(v.block)
<1> SUFFICES Topic /\ Chan /\ Vting /\ Cast
  BY DEF OneProposal
<1>4. CASE UNCHANGED vars
  BY <1>3, <1>4 DEF vars
<1>5. ASSUME NEW n \in Correct, Start(n) PROVE Topic /\ Chan /\ Vting /\ Cast
  <2>1. PICK d \in Arg[n] : StartAgreeOn(n, d)
    BY <1>5 DEF Start
  <2>2. /\ UNCHANGED <<msgs, seen>>
        /\ \A i \in Correct : i # n => pc'[i] = pc[i] /\ prop'[i] = prop[i] /\ propCh'[i] = propCh[i]
        /\ pc'[n] = "propose" /\ propCh'[n] = NoBlock
    BY <1>2, <2>1 DEF StartAgreeOn
  <2> QED BY <1>3, <2>2 DEF Voting
<1>6. ASSUME NEW n \in Correct, Propose(n) PROVE Topic /\ Chan /\ Vting /\ Cast
  <2> DEFINE m == [type |-> "proposal", data |-> prop[n], time |-> calls[n], key |-> n]
  <2>1. n = P /\ calls[n] > 0 /\ UNCHANGED <<calls, prop>>
    BY <1>6 DEF Propose, IInv, PcOK
  <2>2. Is(prop[n])
    BY <1>1, <2>1
  <2>3. /\ m.type = "proposal" /\ m.data = prop[n]
        /\ msgs' = msgs \cup {m} /\ seen' = [seen EXCEPT ![n] = seen[n] \cup {m}]
        /\ propCh' = [propCh EXCEPT ![n] = prop[n]]
        /\ pc' = [pc EXCEPT ![n] = "await proposal"]
    BY <1>6 DEF Propose
  <2> HIDE DEF m, Is
  <2>4. Topic
    BY <1>3, <2>2, <2>3
  <2>5. Chan
    BY <1>2, <1>3, <2>2, <2>3
  <2>6. Vting
    BY <1>2, <1>3, <2>1, <2>3 DEF Voting
  <2>7. Cast
    BY <1>2, <1>3, <2>3
  <2> QED BY <2>4, <2>5, <2>6, <2>7
<1>7. ASSUME NEW n \in Correct, SkipPropose(n) PROVE Topic /\ Chan /\ Vting /\ Cast
  BY <1>2, <1>3, <1>7 DEF SkipPropose, Voting
<1>8. ASSUME NEW n \in Correct, TakeProposal(n) PROVE Topic /\ Chan /\ Vting /\ Cast
  <2>1. /\ Is(propCh[n]) /\ UNCHANGED <<msgs, seen>>
        /\ prop' = [prop EXCEPT ![n] = propCh[n]]
        /\ propCh' = [propCh EXCEPT ![n] = NoBlock]
        /\ \A i \in Correct : i # n => pc'[i] = pc[i]
    BY <1>2, <1>3, <1>8 DEF TakeProposal
  <2> HIDE DEF Is
  <2> QED BY <1>2, <1>3, <2>1
<1>9. ASSUME NEW n \in Correct, NEW type \in VoteTypes, NEW next \in Voting,
             pc[n] \in Voting, CastVote(n, type, next)
      PROVE  Topic /\ Chan /\ Vting /\ Cast
  <2> DEFINE v == ownVote(n, type)
  <2>1. /\ v.type # "proposal" /\ v.block = prop[n]
    BY DEF ownVote, VoteTypes
  <2>2. /\ msgs' = msgs \/ msgs' = msgs \cup {v}
        /\ seen' = [seen EXCEPT ![n] = seen[n] \cup {v}]
        /\ pc' = [pc EXCEPT ![n] = next] \/ pc' = [pc EXCEPT ![n] = "idle"]
        /\ UNCHANGED <<calls, prop, propCh>>
    BY <1>9 DEF CastVote
  <2>3. Is(prop[n])
    BY <1>3, <1>9
  <2> HIDE DEF v, Is
  <2>4. Topic
    BY <1>3, <2>1, <2>2
  <2>5. Chan /\ Vting
    BY <1>2, <1>3, <2>2, <2>3
  <2>6. Cast
    BY <1>2, <1>3, <2>1, <2>2, <2>3
  <2> QED BY <2>4, <2>5, <2>6
<1>10. ASSUME NEW n \in Correct, Prevote(n) \/ Precommit(n)
       PROVE  Topic /\ Chan /\ Vting /\ Cast
  <2>1. /\ "prevote" \in VoteTypes /\ "precommit" \in VoteTypes
        /\ {"prevote", "precommit", "await prevotes", "await precommits"} \subseteq Voting
    BY DEF VoteTypes, Voting
  <2> HIDE DEF Topic, Chan, Vting, Cast
  <2> QED BY <1>9, <1>10, <2>1 DEF Prevote, Precommit
<1>11. ASSUME NEW n \in Correct, AwaitPrevotes(n) \/ AwaitPrecommits(n) \/ ReturnCommit(n)
       PROVE  Topic /\ Chan /\ Vting /\ Cast
  <2>1. /\ pc[n] \in Voting /\ UNCHANGED <<msgs, seen, prop, propCh>>
        /\ \A i \in Correct : i # n => pc'[i] = pc[i]
    BY <1>2, <1>11 DEF AwaitPrevotes, AwaitPrecommits, AwaitVotes, ReturnCommit, Voting
  <2> HIDE DEF Is
  <2> QED BY <1>3, <2>1
<1>12. ASSUME NEW n \in Correct, Cancel(n) PROVE Topic /\ Chan /\ Vting /\ Cast
  BY <1>2, <1>3, <1>12 DEF Cancel, Voting
<1>13. ASSUME NEW n \in Correct, NEW m \in Deliverable(n),
              Handle(n, m) \/ HandleWithoutRound(n, m)
       PROVE  Topic /\ Chan /\ Vting /\ Cast
  <2>1. /\ UNCHANGED <<msgs, prop>>
        /\ \A i \in Correct : pc'[i] \in Voting => pc[i] \in Voting
    BY <1>2, <1>13 DEF Handle, HandleWithoutRound, Voting
  <2>2. \A i \in Correct : \A v \in seen'[i] :
           v.type # "proposal" /\ v.index = i => v \in seen[i]
    BY <1>13, MarkSeenOK DEF Handle, HandleWithoutRound
  <2>3. \A i \in Correct : propCh'[i] = propCh[i] \/ Is(propCh'[i])
    <3>1. CASE m.type = "proposal" /\ m.key = P /\ Handle(n, m)
      <4>1. calls[P] > 0 /\ m.data = prop[P]
        BY <3>1, DeliveredProposal
      <4>2. Is(m.data)
        BY <1>1, <4>1
      <4>3. propCh' = [propCh EXCEPT ![n] = m.data]
        BY <3>1 DEF Handle, RcvProposal
      <4> HIDE DEF Is
      <4> QED BY <1>2, <4>2, <4>3
    <3>2. CASE ~ (m.type = "proposal" /\ m.key = P /\ Handle(n, m))
      BY <1>13, <3>2 DEF Handle, RcvProposal, RcvVote, HandleWithoutRound
    <3> QED BY <3>1, <3>2
  <2> HIDE DEF Is
  <2> QED BY <1>3, <2>1, <2>2, <2>3
<1> HIDE DEF Topic, Chan, Vting, Cast
<1> QED BY <1>4, <1>5, <1>6, <1>7, <1>8, <1>10, <1>11, <1>12, <1>13 DEF Next, Step

(* The majority an instance returns is for the one proposal, which is its own
   data. *)
LEMMA NextTogether ==
    ASSUME FaultyBound, IInv, OneProposal, ReturnedTogether, [Next]_vars
    PROVE  ReturnedTogether'
<1>1. CASE UNCHANGED returned
  BY <1>1 DEF ReturnedTogether
<1>2. ASSUME NEW n \in Correct, ReturnCommit(n) PROVE ReturnedTogether'
  <2> DEFINE s == votes[n]["precommit"]
             r == [node |-> n, call |-> calls[n], data |-> prop[n],
                   commit |-> MakeCommit(s)]
  <2>1. Backed(s.maj23) /\ MakeCommit(s).hash = s.maj23
    BY <1>2, MajorityBacked DEF ReturnCommit, IInv, PcOK
  <2>2. prop[n] = prop[Proposer]
    BY <1>2 DEF ReturnCommit, OneProposal, Voting
  <2>3. returned' = returned \cup {r} /\ r.data = prop[n] /\ r.commit = MakeCommit(s)
    BY <1>2 DEF ReturnCommit
  <2> HIDE DEF s, r
  <2>4. PICK S \in SUBSET Vals :
          /\ PowerOf(S) >= Quorum
          /\ \A i \in S \cap Correct :
                \E v \in seen[i] : IsPrecommitOf(v, i) /\ v.block = s.maj23
    BY <2>1 DEF Backed
  <2>5. PICK i \in S \cap S : i \notin Faulty
    BY <2>4, ConcordAssumption, QuorumsShareCorrect DEF FaultyBound
  <2>6. i \in Correct
    BY <2>5 DEF Correct
  <2>7. s.maj23 = prop[Proposer]
    BY <2>4, <2>5, <2>6 DEF OneProposal, IsPrecommitOf
  <2> QED BY <2>1, <2>2, <2>3, <2>7 DEF ReturnedTogether
<1> QED
  BY <1>1, <1>2 DEF Next, vars, Start, StartAgreeOn, Step, Propose, SkipPropose,
     TakeProposal, Prevote, Precommit, CastVote, AwaitPrevotes, AwaitPrecommits,
     AwaitVotes, Cancel, Handle, HandleWithoutRound

(* The data a call returns is what its commit is for: with a correct proposer,
   whatever the others send, AgreeOn's two results belong together. *)
THEOREM DataMatches ==
    ASSUME FaultyBound, MaxCalls = 1, Proposer \in Correct
    PROVE  Spec => []DataMatchesCommit
<1> DEFINE Inv == IInv /\ OneProposal /\ ReturnedTogether
<1>1. Init => Inv
  <2> SUFFICES ASSUME Init PROVE Inv
    OBVIOUS
  <2>1. OneProposal /\ ReturnedTogether
    BY DEF Init, OneProposal, ReturnedTogether, Voting
  <2> QED BY <2>1, InitInv
<1>2. Inv /\ [Next]_vars => Inv'
  BY NextInv, NextProposal, NextTogether
<1>3. Inv => DataMatchesCommit
  BY DEF IInv, ReturnedOK, ReturnedTogether, DataMatchesCommit
<1> QED BY <1>1, <1>2, <1>3, PTL DEF Spec

-----------------------------------------------------------------------------
(* The refinement of Consensus. *)

(* The votes that may turn up at others: what is on the topic, and whatever
   the faulty sign. *)
Sent == {v \in Vote : v.index \in Faulty \/ v \in msgs}

(* A precommit set holds nothing else, not even of its own instance: a vote
   that the own set takes is published in the same step. *)
HeldSent == \A n \in Correct : HoldsOnly(votes[n]["precommit"], Sent)

(* Who has returned does not call again. *)
ReturnedOnce ==
    \A r \in returned : calls[r.node] > 0 /\ pc[r.node] \in {"idle", "crashed"}

RInv == IInv /\ OnceOK /\ HeldSent /\ ReturnedOnce

(* Who stands behind a block, by what is on the topic. *)
Supporters(k) ==
    {i \in Vals : \/ i \in Faulty
                  \/ \E m \in msgs : m.type = "precommit" /\ m.index = i /\ m.block = k}

(* At most one block is chosen, and a correct instance has validated it. *)
OneChosen == \A j, k \in ChosenBlocks : j = k /\ k \in Valid

Decided == [n \in Correct |-> {r.commit.hash : r \in {x \in returned : x.node = n}}]

-----------------------------------------------------------------------------
(* The invariant. *)

(* The first state has no votes and nothing returned. *)
LEMMA InitRefines == Init => RInv
<1> SUFFICES ASSUME Init PROVE RInv
  OBVIOUS
<1>1. HeldSent
  BY NewVotesOK DEF Init, HeldSent, VoteTypes
<1>2. ReturnedOnce
  BY DEF Init, ReturnedOnce
<1> QED BY <1>1, <1>2, InitInv DEF RInv

(* Nothing is taken back from the topic. *)
LEMMA TopicGrows ==
    ASSUME [Next]_vars
    PROVE  msgs \subseteq msgs'
<1>1. CASE UNCHANGED vars
  BY <1>1 DEF vars
<1>2. ASSUME NEW n \in Correct, Start(n) PROVE msgs \subseteq msgs'
  BY <1>2 DEF Start, StartAgreeOn
<1>3. ASSUME NEW n \in Correct, Step(n) PROVE msgs \subseteq msgs'
  <2>1. CASE Propose(n) \/ SkipPropose(n) \/ TakeProposal(n)
    BY <2>1 DEF Propose, SkipPropose, TakeProposal
  <2>2. CASE Prevote(n) \/ Precommit(n)
    BY <2>2 DEF Prevote, Precommit, CastVote
  <2>3. CASE AwaitPrevotes(n) \/ AwaitPrecommits(n) \/ ReturnCommit(n)
    BY <2>3 DEF AwaitPrevotes, AwaitPrecommits, AwaitVotes, ReturnCommit
  <2> QED BY <1>3, <2>1, <2>2, <2>3 DEF Step
<1>4. ASSUME NEW n \in Correct, Cancel(n) PROVE msgs \subseteq msgs'
  BY <1>4 DEF Cancel
<1>5. ASSUME NEW n \in Correct, NEW m, Handle(n, m) \/ HandleWithoutRound(n, m)
      PROVE  msgs \subseteq msgs'
  BY <1>5 DEF Handle, HandleWithoutRound
<1> QED BY <1>1, <1>2, <1>3, <1>4, <1>5 DEF Next

(* A step that adds at most one vote to one precommit set, and that vote from
   the topic or a faulty proposer. *)
LEMMA HeldStep ==
    ASSUME IInv, HeldSent, msgs \subseteq msgs', NEW n \in Correct, NEW v \in Vote,
           refusal(votes[n][v.type], v) = "ok" /\ v.type = "precommit" => v \in Sent',
           votes' = [votes EXCEPT ![n] =
                        [@ EXCEPT ![v.type] = AddVote(votes[n][v.type], v).vs]]
    PROVE  HeldSent'
<1>1. /\ v.type \in VoteTypes /\ "precommit" \in VoteTypes
      /\ votes \in [Correct -> [VoteTypes -> VoteSetType]]
  BY DEF Vote, VoteTypes, IInv, TypeOK
<1>2. Sent \subseteq Sent'
  BY DEF Sent
<1> SUFFICES ASSUME NEW i \in Correct PROVE HoldsOnly(votes'[i]["precommit"], Sent')
  BY DEF HeldSent
<1>3. HoldsOnly(votes[i]["precommit"], Sent')
  BY <1>2, HoldsOnlyMore DEF HeldSent
<1>4. CASE i = n /\ v.type = "precommit"
  <2> DEFINE s == votes[n]["precommit"]
  <2>1. votes'[i]["precommit"] = AddVote(s, v).vs
    BY <1>1, <1>4
  <2>2. VoteSetInv(s) /\ (s.done => s.maj23 # NoBlock)
    BY <1>1 DEF IInv, SetsOK
  <2>3. HoldsOnly(s, Sent') /\ (refusal(s, v) = "ok" => v \in Sent')
    BY <1>3, <1>4
  <2> HIDE DEF s
  <2>4. HoldsOnly(AddVote(s, v).vs, Sent')
    BY <2>2, <2>3, AddVoteKeeps
  <2> QED BY <2>1, <2>4
<1>5. CASE ~ (i = n /\ v.type = "precommit")
  <2>1. votes'[i]["precommit"] = votes[i]["precommit"]
    BY <1>1, <1>5
  <2> QED BY <1>3, <2>1
<1> QED BY <1>4, <1>5

(* A step that leaves the vote sets alone. *)
LEMMA HeldStays ==
    ASSUME HeldSent, UNCHANGED votes, msgs \subseteq msgs'
    PROVE  HeldSent'
<1>1. Sent \subseteq Sent'
  BY DEF Sent
<1>2. \A n \in Correct : HoldsOnly(votes[n]["precommit"], Sent')
  BY <1>1, HoldsOnlyMore DEF HeldSent
<1> QED BY <1>2 DEF HeldSent

(* The own precommit: its set has no vote of the instance yet, so the vote is
   refused, and not held, or taken without an error, and published. *)
LEMMA PrecommitHeld ==
    ASSUME RInv, NEW n \in Correct, Precommit(n), msgs \subseteq msgs'
    PROVE  HeldSent'
<1> DEFINE v == ownVote(n, "precommit")
           s == votes[n]["precommit"]
<1>1. "precommit" \in VoteTypes /\ pc[n] = "precommit" /\ prop[n] \in Valid
  BY DEF VoteTypes, Precommit, RInv, IInv, PcOK, Voting
<1>2. v \in Vote /\ v.type = "precommit" /\ v.index = n
  BY <1>1, OwnVoteOK DEF RInv
<1>3. VoteSetInv(s) /\ s.type = "precommit" /\ HoldsOnly(s, Known)
  BY <1>1 DEF RInv, IInv, SetsOK
<1>4. /\ votes' = [votes EXCEPT ![n] =
                      [@ EXCEPT !["precommit"] = AddVote(s, v).vs]]
      /\ AddVote(s, v).err = "ok" => v \in msgs'
  BY DEF Precommit, CastVote
<1> HIDE DEF s, v
<1>5. s.votes[n] = NoVote
  <2> SUFFICES ASSUME s.votes[n] # NoVote PROVE FALSE
    OBVIOUS
  <2>1. n \in Voters(s.votes)
    BY CorrectFaulty DEF Voters
  <2>2. IsPrecommitOf(s.votes[n], n)
    BY <1>3, <2>1 DEF VoteSetInv, VotesGenuine, IsGenuine, IsPrecommitOf
  <2>3. s.votes[n] \in seen[n]
    BY <1>3, <2>1, <2>2, CorrectFaulty DEF HoldsOnly, Known, IsPrecommitOf
  <2> QED BY <1>1, <2>2, <2>3 DEF RInv, OnceOK
<1>6. refusal(s, v) = "ok" => AddVote(s, v).err = "ok"
  <2>1. ~ forgetsVote(s, v)
    BY <1>2, <1>5 DEF forgetsVote
  <2> QED BY <1>2, <1>5, <2>1 DEF AddVote
<1>7. refusal(s, v) = "ok" => v \in Sent'
  BY <1>2, <1>4, <1>6 DEF Sent
<1> QED BY <1>2, <1>4, <1>7, HeldStep DEF s, RInv

(* A vote handed to a handler is on the topic, or a faulty proposer's. *)
LEMMA DeliveredSent ==
    ASSUME IInv, NEW n \in Correct, NEW m \in Deliverable(n), m \in Vote,
           m.index \in Vals, Verify(m, m.index)
    PROVE  m \in Sent
<1>1. CASE m \in msgs
  BY <1>1 DEF Sent
<1>2. CASE m \in FaultyMsgs
  <2>1. m.type # "proposal"
    BY DEF Vote, VoteTypes
  <2>2. m.sig = NoSig \/ m.sig.key \in Faulty
    BY <1>2, <2>1, ConcordAssumption
  <2>3. m.sig = Sign(m.index, m.type, m.block, m.time)
    BY DEF Verify
  <2>4. m.sig # NoSig /\ m.sig.key = m.index
    BY <2>3, VoteAssumption DEF Sign, Vote
  <2> QED BY <2>2, <2>4 DEF Sent
<1> QED BY <1>1, <1>2, DeliveredOK

(* A handler adds what it is given. *)
LEMMA HandleHeld ==
    ASSUME RInv, NEW n \in Correct, NEW m \in Deliverable(n), Handle(n, m)
    PROVE  HeldSent'
<1>1. UNCHANGED msgs
  BY DEF Handle
<1>2. CASE m.type = "proposal"
  BY <1>1, <1>2, HeldStays DEF Handle, RcvProposal, RInv
<1>3. CASE m.type # "proposal"
  <2>1. m \in Vote
    BY <1>3, DeliveredOK DEF RInv
  <2>2. refusal(votes[n][m.type], m) = "ok" => m.index \in Vals /\ Verify(m, m.index)
    BY DEF refusal
  <2>3. refusal(votes[n][m.type], m) = "ok" => m \in Sent'
    BY <1>1, <2>1, <2>2, DeliveredSent DEF RInv, Sent
  <2>4. votes' = [votes EXCEPT ![n] =
                    [@ EXCEPT ![m.type] = AddVote(votes[n][m.type], m).vs]]
    BY <1>3 DEF Handle, RcvVote
  <2> QED BY <1>1, <2>1, <2>3, <2>4, HeldStep DEF RInv
<1> QED BY <1>2, <1>3

(* Every step keeps precommit sets to what is on the topic. *)
LEMMA NextHeld ==
    ASSUME RInv, [Next]_vars
    PROVE  HeldSent'
<1>0. msgs \subseteq msgs' /\ HeldSent /\ IInv
  BY TopicGrows DEF RInv
<1>1. CASE UNCHANGED vars
  BY <1>0, <1>1, HeldStays DEF vars
<1>2. ASSUME NEW n \in Correct, Start(n) PROVE HeldSent'
  <2>1. votes' = [votes EXCEPT ![n] = NewVotes] /\ msgs' = msgs
    BY <1>2 DEF Start, StartAgreeOn
  <2>2. \A i \in Correct : votes'[i] = IF i = n THEN NewVotes ELSE votes[i]
    BY <1>0, <2>1 DEF IInv, TypeOK
  <2>3. HoldsOnly(NewVotes["precommit"], Sent)
    BY NewVotesOK DEF VoteTypes
  <2>4. Sent' = Sent
    BY <2>1 DEF Sent
  <2>5. \A i \in Correct : HoldsOnly(votes'[i]["precommit"], Sent)
    BY <1>0, <2>2, <2>3 DEF HeldSent
  <2> QED BY <2>4, <2>5 DEF HeldSent
<1>3. ASSUME NEW n \in Correct, Step(n) PROVE HeldSent'
  <2>1. CASE Propose(n) \/ SkipPropose(n) \/ TakeProposal(n)
    BY <1>0, <2>1, HeldStays DEF Propose, SkipPropose, TakeProposal
  <2>2. CASE Prevote(n)
    <3> DEFINE v == ownVote(n, "prevote")
    <3>1. v \in Vote /\ v.type = "prevote"
      BY <1>0, <2>2, OwnVoteOK DEF Prevote, IInv, PcOK, Voting, VoteTypes
    <3>2. votes' = [votes EXCEPT ![n] =
                      [@ EXCEPT ![v.type] = AddVote(votes[n][v.type], v).vs]]
      BY <2>2, <3>1 DEF Prevote, CastVote
    <3> HIDE DEF v
    <3> QED BY <1>0, <3>1, <3>2, HeldStep
  <2>3. CASE Precommit(n)
    BY <1>0, <2>3, PrecommitHeld
  <2>4. CASE AwaitPrevotes(n) \/ AwaitPrecommits(n) \/ ReturnCommit(n)
    BY <1>0, <2>4, HeldStays DEF AwaitPrevotes, AwaitPrecommits, AwaitVotes, ReturnCommit
  <2> QED BY <1>3, <2>1, <2>2, <2>3, <2>4 DEF Step
<1>4. ASSUME NEW n \in Correct, Cancel(n) PROVE HeldSent'
  BY <1>0, <1>4, HeldStays DEF Cancel
<1>5. ASSUME NEW n \in Correct, NEW m \in Deliverable(n),
             Handle(n, m) \/ HandleWithoutRound(n, m)
      PROVE  HeldSent'
  BY <1>0, <1>5, HandleHeld, HeldStays DEF HandleWithoutRound
<1> QED BY <1>1, <1>2, <1>3, <1>4, <1>5 DEF Next

(* Every step keeps those who returned from calling again. *)
LEMMA NextReturned ==
    ASSUME IInv, ReturnedOnce, [Next]_vars, MaxCalls = 1
    PROVE  ReturnedOnce'
<1> DEFINE Over == {"idle", "crashed"}
<1> SUFFICES ASSUME NEW r \in returned'
             PROVE  calls'[r.node] > 0 /\ pc'[r.node] \in Over
  BY DEF ReturnedOnce
<1>1. /\ pc \in [Correct -> PCs] /\ calls \in [Correct -> 0 .. 1]
      /\ \A x \in returned : x.node \in Correct
      /\ \A x \in returned : calls[x.node] > 0 /\ pc[x.node] \in Over
  BY DEF IInv, TypeOK, ReturnedOnce
<1>2. CASE UNCHANGED vars
  BY <1>1, <1>2 DEF vars
<1>3. ASSUME NEW n \in Correct, Start(n)
      PROVE  calls'[r.node] > 0 /\ pc'[r.node] \in Over
  <2>1. /\ r \in returned /\ ~ (calls[n] > 0)
        /\ pc' = [pc EXCEPT ![n] = "propose"] /\ calls' = [calls EXCEPT ![n] = @ + 1]
    BY <1>1, <1>3 DEF Start, StartAgreeOn
  <2>2. r.node # n
    BY <1>1, <2>1
  <2> QED BY <1>1, <2>1, <2>2
<1>4. ASSUME NEW n \in Correct, ReturnCommit(n)
      PROVE  calls'[r.node] > 0 /\ pc'[r.node] \in Over
  <2> DEFINE x == [node |-> n, call |-> calls[n], data |-> prop[n],
                   commit |-> MakeCommit(votes[n]["precommit"])]
  <2>0. /\ pc' = [pc EXCEPT ![n] = "idle"] /\ calls' = calls
        /\ returned' = returned \cup {x} /\ x.node = n
    BY <1>4 DEF ReturnCommit
  <2> HIDE DEF x
  <2>1. /\ pc' = [pc EXCEPT ![n] = "idle"] /\ calls' = calls
        /\ r \in returned \/ r.node = n
    BY <2>0
  <2>2. calls[n] > 0
    BY <1>4 DEF ReturnCommit, IInv, PcOK
  <2> QED BY <1>1, <2>1, <2>2
<1>5. ASSUME NEW n \in Correct, Step(n), ~ ReturnCommit(n)
      PROVE  calls'[r.node] > 0 /\ pc'[r.node] \in Over
  <2>1. pc[n] \notin Over /\ r \in returned /\ calls' = calls
    BY <1>5 DEF Step, Propose, SkipPropose, TakeProposal, Prevote, Precommit, CastVote,
       AwaitPrevotes, AwaitPrecommits, AwaitVotes
  <2>2. \A i \in Correct : i # n => pc'[i] = pc[i]
    BY <1>1, <1>5 DEF Step, Propose, SkipPropose, TakeProposal, Prevote, Precommit,
       CastVote, AwaitPrevotes, AwaitPrecommits, AwaitVotes
  <2> QED BY <1>1, <2>1, <2>2
<1>6. ASSUME NEW n \in Correct, Cancel(n)
      PROVE  calls'[r.node] > 0 /\ pc'[r.node] \in Over
  BY <1>1, <1>6 DEF Cancel
<1>7. ASSUME NEW n \in Correct, NEW m, Handle(n, m) \/ HandleWithoutRound(n, m)
      PROVE  calls'[r.node] > 0 /\ pc'[r.node] \in Over
  BY <1>1, <1>7 DEF Handle, HandleWithoutRound
<1> QED BY <1>2, <1>3, <1>4, <1>5, <1>6, <1>7 DEF Next

(* Every step keeps the invariant. *)
LEMMA NextRefines ==
    ASSUME FaultyBound, MaxCalls = 1
    PROVE  RInv /\ [Next]_vars => RInv'
BY NextInv, NextOnce, NextHeld, NextReturned DEF RInv

-----------------------------------------------------------------------------
(* The mapping. *)

(* A chosen block has a quorum of supporters. *)
LEMMA ChosenSupport ==
    /\ ChosenBlocks = {k \in Keys : PowerOf(Supporters(k)) >= Quorum}
    /\ \A k : Supporters(k) \in SUBSET Vals
BY DEF ChosenBlocks, Supporters

(* Votes of the faulty alone choose nothing. *)
LEMMA NothingChosen ==
    ASSUME FaultyBound, msgs = {}
    PROVE  ChosenBlocks = {}
<1>1. \A k : Supporters(k) = Faulty
  BY ConcordAssumption DEF Supporters
<1>2. PowerOf(Faulty) \in Nat /\ TotalVotingPower \in Nat
  BY UnitsFinite, TotalType, ConcordAssumption
<1>3. ~ (PowerOf(Faulty) >= Quorum)
  BY <1>2, QuorumIsTwoThirds DEF FaultyBound
<1> QED BY <1>1, <1>3, ChosenSupport

(* A chosen block has been validated by a correct instance, and is the only
   one: two quorums share a correct proposer, which precommits once. *)
LEMMA ChosenOnce ==
    ASSUME FaultyBound
    PROVE  RInv => OneChosen
<1> SUFFICES ASSUME IInv, OnceOK, NEW k \in ChosenBlocks
             PROVE  k \in Valid /\ \A j \in ChosenBlocks : j = k
  BY DEF OneChosen, RInv
<1>1. \A j \in ChosenBlocks : \A i \in Supporters(j) \cap Correct :
         \E v \in seen[i] : IsPrecommitOf(v, i) /\ v.block = j
  BY CorrectFaulty DEF Supporters, IInv, SentOK, Known, IsPrecommitOf
<1>2. \A j \in ChosenBlocks : Backed(j)
  BY <1>1, ChosenSupport DEF Backed
<1>3. Faulty \in SUBSET Vals
  BY ConcordAssumption
<1>4. PICK i \in Supporters(k) \cap Supporters(k) : i \notin Faulty
  BY <1>3, ChosenSupport, QuorumsShareCorrect DEF FaultyBound
<1>5. PICK v \in seen[i] : i \in Correct /\ IsPrecommitOf(v, i) /\ v.block = k
  BY <1>1, <1>4 DEF Correct, Supporters
<1>6. k \in Valid
  BY <1>5 DEF IInv, OwnOK, IsPrecommitOf
<1> QED BY <1>2, <1>6, BackedOnce

(* A chosen block stays chosen. *)
LEMMA ChosenStays ==
    ASSUME msgs \subseteq msgs'
    PROVE  ChosenBlocks \subseteq ChosenBlocks'
<1> SUFFICES ASSUME NEW k \in ChosenBlocks PROVE k \in ChosenBlocks'
  OBVIOUS
<1>1. /\ Supporters(k) \subseteq Supporters(k)'
      /\ Supporters(k) \in SUBSET Vals /\ Supporters(k)' \in SUBSET Vals
  BY DEF Supporters
<1>2. PowerOf(Supporters(k)) <= PowerOf(Supporters(k)')
  BY <1>1, PowerOfMonotone
<1>3. /\ PowerOf(Supporters(k)) \in Nat /\ PowerOf(Supporters(k)') \in Nat
      /\ Quorum \in Nat
  BY <1>1, UnitsFinite, TotalType
<1>4. PowerOf(Supporters(k)') >= Quorum /\ k \in Keys
  BY <1>2, <1>3, ChosenSupport
<1> QED BY <1>4 DEF ChosenBlocks, Supporters

(* A majority in a precommit set is for a chosen block. *)
LEMMA MajorityChosen ==
    ASSUME RInv, NEW n \in Correct, votes[n]["precommit"].done
    PROVE  votes[n]["precommit"].maj23 \in ChosenBlocks
<1> DEFINE s == votes[n]["precommit"]
           S == VotersFor(s.votes, s.maj23)
<1>1. /\ VoteSetInv(s) /\ s.type = "precommit" /\ s.maj23 # NoBlock
      /\ HoldsOnly(s, Sent)
  BY DEF RInv, IInv, SetsOK, HeldSent, VoteTypes
<1> HIDE DEF s
<1>2. S \in SUBSET Vals /\ PowerOf(S) >= Quorum /\ s.maj23 \in Keys
  BY <1>1 DEF VoteSetInv, MajorityOK, VotersFor, Voters, VoteSetType
<1>3. S \subseteq Supporters(s.maj23)
  <2> SUFFICES ASSUME NEW i \in S PROVE i \in Supporters(s.maj23)
    OBVIOUS
  <2>1. i \in Vals /\ i \in Voters(s.votes) /\ s.votes[i].block = s.maj23
    BY <1>2 DEF VotersFor
  <2>2. s.votes[i].index = i /\ s.votes[i].type = "precommit" /\ s.votes[i] \in Sent
    BY <1>1, <2>1 DEF VoteSetInv, VotesGenuine, IsGenuine, HoldsOnly
  <2> QED BY <2>1, <2>2 DEF Supporters, Sent
<1>4. /\ PowerOf(S) <= PowerOf(Supporters(s.maj23))
      /\ PowerOf(S) \in Nat /\ PowerOf(Supporters(s.maj23)) \in Nat /\ Quorum \in Nat
  <2> HIDE DEF S
  <2> QED BY <1>2, <1>3, ChosenSupport, PowerOfMonotone, UnitsFinite, TotalType
<1> QED BY <1>2, <1>4, ChosenSupport DEF s

-----------------------------------------------------------------------------
(* The steps. *)

(* A step in which nobody returns chooses a first block, or is a stutter. *)
LEMMA ChoosesOrStutters ==
    ASSUME OneChosen', msgs \subseteq msgs', UNCHANGED returned
    PROVE  [Abstract!Next]_<<ChosenBlocks, Decided>>
<1>1. ChosenBlocks \subseteq ChosenBlocks'
  BY ChosenStays
<1>2. Decided' = Decided
  BY DEF Decided
<1>3. \A j, k \in ChosenBlocks' : j = k /\ k \in Valid
  BY DEF OneChosen
<1>4. CASE ChosenBlocks' = ChosenBlocks
  BY <1>2, <1>4
<1>5. CASE ChosenBlocks' # ChosenBlocks
  <2>1. PICK k \in ChosenBlocks' : k \notin ChosenBlocks
    BY <1>1, <1>5
  <2>2. ChosenBlocks' = {k} /\ ChosenBlocks = {} /\ k \in Valid
    BY <1>1, <1>3, <2>1
  <2>3. Abstract!Choose(k)
    BY <1>2, <2>2 DEF Abstract!Choose, Decided
  <2> QED BY <2>2, <2>3 DEF Abstract!Next
<1> QED BY <1>4, <1>5

(* The step that returns decides the chosen block. *)
LEMMA ReturnDecides ==
    ASSUME FaultyBound, RInv, NEW n \in Correct, ReturnCommit(n)
    PROVE  Abstract!Decide(n)
<1> DEFINE s == votes[n]["precommit"]
           r == [node |-> n, call |-> calls[n], data |-> prop[n],
                 commit |-> MakeCommit(s)]
<1>1. s.maj23 \in ChosenBlocks
  BY MajorityChosen DEF ReturnCommit, RInv, IInv, PcOK
<1>2. ChosenBlocks = {s.maj23}
  BY <1>1, ChosenOnce DEF OneChosen
<1>3. /\ returned' = returned \cup {r} /\ r.node = n /\ r.commit.hash = s.maj23
      /\ UNCHANGED msgs /\ pc[n] = "make commit"
  BY DEF ReturnCommit, MakeCommit
<1> HIDE DEF r, s
<1>4. \A x \in returned : x.node # n
  BY <1>3 DEF RInv, ReturnedOnce
<1>5. Decided[n] = {}
  BY <1>4 DEF Decided
<1>6. Decided' = [Decided EXCEPT ![n] = {s.maj23}]
  <2>1. Decided'[n] = {s.maj23}
    BY <1>3, <1>4 DEF Decided
  <2>2. \A i \in Correct : i # n => Decided'[i] = Decided[i]
    BY <1>3 DEF Decided
  <2>3. Decided' = [i \in Correct |-> Decided'[i]] /\ Decided = [i \in Correct |-> Decided[i]]
    BY DEF Decided
  <2> HIDE DEF Decided
  <2> QED BY <2>1, <2>2, <2>3
<1>7. ChosenBlocks' = ChosenBlocks
  BY <1>3 DEF ChosenBlocks
<1> QED BY <1>2, <1>5, <1>6, <1>7 DEF Abstract!Decide, Decided

(* Every step of the instances is a step of Consensus, or a stutter. *)
LEMMA StepRefines ==
    ASSUME FaultyBound
    PROVE  RInv /\ OneChosen' /\ [Next]_vars => [Abstract!Next]_<<ChosenBlocks, Decided>>
<1> SUFFICES ASSUME RInv, OneChosen', [Next]_vars
             PROVE  [Abstract!Next]_<<ChosenBlocks, Decided>>
  OBVIOUS
<1>1. msgs \subseteq msgs'
  BY TopicGrows
<1>2. CASE \E n \in Correct : ReturnCommit(n)
  BY <1>2, ReturnDecides DEF Abstract!Next
<1>3. CASE ~ \E n \in Correct : ReturnCommit(n)
  <2>1. UNCHANGED returned
    BY <1>3 DEF Next, vars, Start, StartAgreeOn, Step, Propose, SkipPropose, TakeProposal,
       Prevote, Precommit, CastVote, AwaitPrevotes, AwaitPrecommits, AwaitVotes, Cancel,
       Handle, HandleWithoutRound
  <2> QED BY <1>1, <2>1, ChoosesOrStutters
<1> QED BY <1>2, <1>3

-----------------------------------------------------------------------------
(* The result. *)

(* One agreement of the instances implements Consensus: what AgreeOn returns
   was chosen, once and for all, by the precommits on the topic, before the
   first instance knew; for every proposer set and all messages that faulty
   proposers with less than a third of the power may send. *)
THEOREM ConcordImplementsConsensus ==
    ASSUME FaultyBound, MaxCalls = 1
    PROVE  Spec => ImplementsConsensus
<1>1. Init => Abstract!Init
  <2> SUFFICES ASSUME Init PROVE Abstract!Init
    OBVIOUS
  <2>1. ChosenBlocks = {}
    BY NothingChosen DEF Init
  <2>2. Decided = [n \in Correct |-> {}]
    BY DEF Init, Decided
  <2> QED BY <2>1, <2>2 DEF Abstract!Init, Decided
<1>2. RInv /\ OneChosen' /\ [Next]_vars => [Abstract!Next]_<<ChosenBlocks, Decided>>
  BY StepRefines
<1>3. RInv => OneChosen
  BY ChosenOnce
<1> QED BY <1>1, <1>2, <1>3, InitRefines, NextRefines, PTL
        DEF Spec, ImplementsConsensus, Abstract!Spec, Decided
=============================================================================
