---------------------------- MODULE CommitProofs ----------------------------
(***************************************************************************)
(* The laws of voting power, for every proposer set: what the tallies of a *)
(* vote set add up to, and why two quorums share more power than the       *)
(* faulty proposers hold.                                                  *)
(*                                                                         *)
(* The operations of a vote set keep it consistent, for every proposer     *)
(* set, every set of blocks and peers and every vote: VoteSetInv holds of  *)
(* a new set and is kept by AddVote and SetPeerMaj23.  The proof follows   *)
(* addVerifiedVote: the canonical vote is recorded, the vote is filed      *)
(* under its block, and a first quorum copies the block's votes.           *)
(*                                                                         *)
(* What the loops of commit verification compute, for every proposer set   *)
(* and every commit: VerifyCommitLight, VerifyCommitLightTrusting and      *)
(* CommitToVoteSet read the signatures one after the other, so each has a  *)
(* loop invariant, proved by induction on the number of signatures read.   *)
(***************************************************************************)
EXTENDS Commit, FiniteSetTheorems, FunctionTheorems, WellFoundedInduction, TLAPS

(* A set of proposers holds finitely many units, so its power is a natural
   number. *)
LEMMA UnitsFinite ==
    ASSUME NEW S \in SUBSET Vals
    PROVE  IsFiniteSet(Units(S)) /\ PowerOf(S) \in Nat
<1> DEFINE U(i) == {i} \X (1 .. Power[i])
           T    == {U(i) : i \in S}
           f    == [i \in S |-> U(i)]
<1>1. IsFiniteSet(S)
  <2>1. IsFiniteSet(Vals)
    BY PowerAssumption, FS_Interval DEF Vals
  <2> QED BY <2>1, FS_Subset
<1>2. IsFiniteSet(T)
  <2>1. f \in Surjection(S, T)
    BY DEF Surjection
  <2> QED BY <1>1, <2>1, FS_Surjection
<1>3. \A t \in T : IsFiniteSet(t)
  <2> SUFFICES ASSUME NEW i \in S PROVE IsFiniteSet(U(i))
    OBVIOUS
  <2>1. Power[i] \in Int
    BY PowerAssumption
  <2>2. IsFiniteSet(1 .. Power[i])
    BY <2>1, FS_Interval
  <2>3. IsFiniteSet({i})
    BY FS_Singleton
  <2> QED BY <2>2, <2>3, FS_Product
<1>4. IsFiniteSet(Units(S))
  BY <1>2, <1>3, FS_UNION DEF Units
<1> QED BY <1>4, FS_CardinalityType DEF PowerOf

(* Nobody holds no power. *)
LEMMA PowerOfEmpty == PowerOf({}) = 0
<1>1. Units({}) = {}
  BY DEF Units
<1> QED BY <1>1, FS_EmptySet DEF PowerOf

(* A tally grows by exactly the power of a new voter. *)
LEMMA PowerOfAdd ==
    ASSUME NEW S \in SUBSET Vals, NEW i \in Vals, i \notin S
    PROVE  PowerOf(S \cup {i}) = PowerOf(S) + Power[i]
<1> DEFINE U == {i} \X (1 .. Power[i])
<1>1. Units(S \cup {i}) = Units(S) \cup U
  BY DEF Units
<1>2. Units(S) \cap U = {}
  BY DEF Units
<1>3. IsFiniteSet(U) /\ Cardinality(U) = Power[i]
  <2>1. Power[i] \in Nat
    BY PowerAssumption
  <2>2. IsFiniteSet(1 .. Power[i]) /\ Cardinality(1 .. Power[i]) = Power[i]
    BY <2>1, FS_Interval
  <2>3. IsFiniteSet({i}) /\ Cardinality({i}) = 1
    BY FS_Singleton
  <2>4. IsFiniteSet(U) /\ Cardinality(U) = 1 * Power[i]
    BY <2>2, <2>3, FS_Product
  <2> QED BY <2>1, <2>4
<1>4. IsFiniteSet(Units(S)) /\ PowerOf(S) \in Nat
  BY UnitsFinite
<1>5. Cardinality(Units(S) \cup U) = Cardinality(Units(S)) + Cardinality(U) - Cardinality(Units(S) \cap U)
  BY <1>3, <1>4, FS_Union
<1>6. Cardinality(Units(S) \cap U) = 0
  BY <1>2, FS_EmptySet
<1>7. Power[i] \in Nat
  BY PowerAssumption
<1>8. /\ PowerOf(S \cup {i}) = Cardinality(Units(S) \cup U)
      /\ PowerOf(S) = Cardinality(Units(S))
  BY <1>1 DEF PowerOf
<1> HIDE DEF U
<1> QED BY <1>3, <1>4, <1>5, <1>6, <1>7, <1>8

(* A larger set of proposers has no less power. *)
LEMMA PowerOfMonotone ==
    ASSUME NEW S \in SUBSET Vals, NEW T \in SUBSET S
    PROVE  PowerOf(T) <= PowerOf(S)
<1>1. Units(T) \in SUBSET Units(S)
  BY DEF Units
<1>2. IsFiniteSet(Units(S))
  BY UnitsFinite
<1> QED BY <1>1, <1>2, FS_Subset DEF PowerOf

(* Inclusion and exclusion. *)
LEMMA PowerOfUnion ==
    ASSUME NEW S \in SUBSET Vals, NEW T \in SUBSET Vals
    PROVE  PowerOf(S \cup T) = PowerOf(S) + PowerOf(T) - PowerOf(S \cap T)
<1>1. Units(S \cup T) = Units(S) \cup Units(T)
  BY DEF Units
<1>2. Units(S \cap T) = Units(S) \cap Units(T)
  BY DEF Units
<1>3. IsFiniteSet(Units(S)) /\ IsFiniteSet(Units(T))
  BY UnitsFinite
<1>4. Cardinality(Units(S) \cup Units(T))
        = Cardinality(Units(S)) + Cardinality(Units(T)) - Cardinality(Units(S) \cap Units(T))
  BY <1>3, FS_Union
<1> QED BY <1>1, <1>2, <1>4, Zenon DEF PowerOf

(* The total and the quorum are natural numbers. *)
LEMMA TotalType == TotalVotingPower \in Nat /\ Quorum \in Nat
<1>1. TotalVotingPower \in Nat
  BY UnitsFinite DEF TotalVotingPower
<1> QED BY <1>1 DEF Quorum

(* Reaching the quorum and passing VerifyCommit's threshold are one thing:
   the least power that is more than two thirds of the total. *)
LEMMA QuorumIsTwoThirds ==
    ASSUME NEW n \in Nat
    PROVE  /\ n >= Quorum <=> n > (TotalVotingPower * 2) \div 3
           /\ n >= Quorum <=> 3 * n > 2 * TotalVotingPower
<1>1. TotalVotingPower \in Nat
  BY TotalType
<1> QED BY <1>1 DEF Quorum

(* Two sets of proposers that each hold a quorum share more than a third of
   the total power. *)
THEOREM QuorumsIntersect ==
    ASSUME NEW S \in SUBSET Vals, NEW T \in SUBSET Vals,
           PowerOf(S) >= Quorum, PowerOf(T) >= Quorum
    PROVE  3 * PowerOf(S \cap T) > TotalVotingPower
<1>1. /\ PowerOf(S) \in Nat /\ PowerOf(T) \in Nat
      /\ PowerOf(S \cap T) \in Nat /\ PowerOf(S \cup T) \in Nat
      /\ TotalVotingPower \in Nat
  BY UnitsFinite, TotalType
<1>2. PowerOf(S \cup T) = PowerOf(S) + PowerOf(T) - PowerOf(S \cap T)
  BY PowerOfUnion
<1>3. PowerOf(S \cup T) <= TotalVotingPower
  BY PowerOfMonotone DEF TotalVotingPower
<1>4. 3 * PowerOf(S) > 2 * TotalVotingPower /\ 3 * PowerOf(T) > 2 * TotalVotingPower
  BY <1>1, QuorumIsTwoThirds
<1> QED BY <1>1, <1>2, <1>3, <1>4

(* In particular, two quorums share a proposer outside any set that holds less
   than a third of the power. *)
THEOREM QuorumsShareCorrect ==
    ASSUME NEW S \in SUBSET Vals, NEW T \in SUBSET Vals, NEW F \in SUBSET Vals,
           PowerOf(S) >= Quorum, PowerOf(T) >= Quorum,
           3 * PowerOf(F) < TotalVotingPower
    PROVE  \E i \in S \cap T : i \notin F
<1> SUFFICES ASSUME S \cap T \subseteq F PROVE FALSE
  OBVIOUS
<1>1. PowerOf(S \cap T) <= PowerOf(F)
  BY PowerOfMonotone
<1>2. 3 * PowerOf(S \cap T) > TotalVotingPower
  BY QuorumsIntersect
<1>3. PowerOf(S \cap T) \in Nat /\ PowerOf(F) \in Nat /\ TotalVotingPower \in Nat
  BY UnitsFinite, TotalType
<1> QED BY <1>1, <1>2, <1>3

-----------------------------------------------------------------------------

(* A new set is consistent: nobody voted, nothing is counted. *)
LEMMA NewVoteSetOK ==
    ASSUME NEW t \in VoteTypes
    PROVE  VoteSetInv(NewVoteSet(t))
<1> DEFINE s == NewVoteSet(t)
<1>1. s \in VoteSetType
  BY DEF NewVoteSet, newBlockVotes, VoteSetType, BlockVotes
<1>2. /\ Voters(s.votes) = {}
      /\ \A k \in Keys : Voters(s.votesByBlock[k].votes) = {}
  BY DEF NewVoteSet, newBlockVotes, Voters
<1>3. TalliesOK(s)
  BY <1>2, PowerOfEmpty DEF NewVoteSet, newBlockVotes, TalliesOK
<1>4. VotesGenuine(s)
  BY <1>2 DEF VotesGenuine
<1>5. MajorityOK(s)
  <2>1. Quorum \in Nat /\ Quorum > 0
    BY TotalType DEF Quorum
  <2> QED BY <2>1 DEF NewVoteSet, newBlockVotes, MajorityOK
<1> QED BY <1>1, <1>3, <1>4, <1>5 DEF VoteSetInv

(* What the early returns of addVote leave: a genuine vote of a proposer of
   which the set holds no vote for that block. *)
Fresh(s, v) ==
    /\ v \in Vote
    /\ v.index \in Vals
    /\ v.type = s.type
    /\ Verify(v, v.index)
    /\ s.votesByBlock[v.block].votes[v.index] = NoVote

(* A vote that addVote does not refuse is sound and not yet in the set. *)
LEMMA AcceptedIsFresh ==
    ASSUME NEW s, NEW v \in Vote, VoteSetInv(s), refusal(s, v) = "ok"
    PROVE  /\ Fresh(s, v)
           /\ s.votes[v.index] # NoVote => s.votes[v.index].block # v.block
<1>1. /\ v.index \in Vals
      /\ v.type = s.type
      /\ Verify(v, v.index)
      /\ getVote(s, v.index, v.block) = NoVote
  BY DEF refusal
<1>2. s.votes[v.index] # NoVote => s.votes[v.index].block # v.block
  BY <1>1 DEF getVote
<1>3. s.votesByBlock[v.block].votes[v.index] = NoVote
  BY <1>1, <1>2 DEF getVote
<1> QED BY <1>1, <1>2, <1>3 DEF Fresh

(* Recording the canonical vote keeps the set consistent, and leaves the
   proposer with a canonical vote. *)
LEMMA RecordVoteOK ==
    ASSUME NEW s, NEW v, VoteSetInv(s), Fresh(s, v)
    PROVE  /\ VoteSetInv(recordVote(s, v))
           /\ Fresh(recordVote(s, v), v)
           /\ v.index \in Voters(recordVote(s, v).votes)
           /\ recordVote(s, v).votesByBlock = s.votesByBlock
           /\ recordVote(s, v).maj23 = s.maj23
<1> DEFINE r == recordVote(s, v)
           i == v.index
<1>1. /\ s \in VoteSetType /\ v \in Vote /\ i \in Vals /\ v.type = s.type /\ Verify(v, i)
      /\ TalliesOK(s) /\ VotesGenuine(s) /\ MajorityOK(s)
      /\ Power[i] \in Nat /\ NoVote \notin Vote
      /\ s.votesByBlock[v.block].votes[v.index] = NoVote
  BY PowerAssumption, VoteAssumption DEF VoteSetInv, Fresh
<1>2. CASE s.votes[i] # NoVote /\ s.maj23 # v.block
  <2>1. r = s
    BY <1>2 DEF recordVote
  <2> QED BY <1>1, <1>2, <2>1 DEF Voters
<1>3. CASE s.votes[i] = NoVote \/ s.maj23 = v.block
  <2>1. /\ r.type = s.type /\ r.maj23 = s.maj23 /\ r.votesByBlock = s.votesByBlock
        /\ r.peerMaj23s = s.peerMaj23s /\ r.done = s.done
        /\ r.votes = [s.votes EXCEPT ![i] = v]
        /\ r.votesBitArray = s.votesBitArray \cup {i}
        /\ r.sum = IF s.votes[i] = NoVote THEN s.sum + Power[i] ELSE s.sum
    BY <1>1, <1>3 DEF recordVote, VoteSetType
  <2>2. s.votes \in [Vals -> Vote \cup {NoVote}]
    BY <1>1 DEF VoteSetType
  <2>3. r \in VoteSetType
    <3>1. /\ [s.votes EXCEPT ![i] = v] \in [Vals -> Vote \cup {NoVote}]
          /\ s.votesBitArray \cup {i} \in SUBSET Vals
          /\ s.sum + Power[i] \in Nat
      BY <1>1, <2>2 DEF VoteSetType
    <3>2. CASE s.votes[i] = NoVote
      <4>1. r = [s EXCEPT !.votes = [s.votes EXCEPT ![i] = v],
                          !.votesBitArray = s.votesBitArray \cup {i},
                          !.sum = s.sum + Power[i]]
        BY <3>2 DEF recordVote
      <4> HIDE DEF r, i
      <4> QED BY <1>1, <3>1, <4>1 DEF VoteSetType
    <3>3. CASE s.votes[i] # NoVote
      <4>1. r = [s EXCEPT !.votes = [s.votes EXCEPT ![i] = v],
                          !.votesBitArray = s.votesBitArray \cup {i}]
        BY <1>3, <3>3 DEF recordVote
      <4> HIDE DEF r, i
      <4> QED BY <1>1, <3>1, <4>1 DEF VoteSetType
    <3> QED BY <3>2, <3>3
  <2>4. Voters(r.votes) = Voters(s.votes) \cup {i}
    BY <1>1, <2>1, <2>2 DEF Voters
  <2>5. TalliesOK(r)
    <3>1. r.sum = PowerOf(Voters(r.votes))
      <4>1. CASE s.votes[i] = NoVote
        <5>1. i \notin Voters(s.votes) /\ Voters(s.votes) \in SUBSET Vals
          BY <4>1 DEF Voters
        <5>2. PowerOf(Voters(r.votes)) = PowerOf(Voters(s.votes)) + Power[i]
          BY <1>1, <2>4, <5>1, PowerOfAdd
        <5> QED BY <1>1, <2>1, <4>1, <5>2 DEF TalliesOK
      <4>2. CASE s.votes[i] # NoVote
        <5>1. Voters(r.votes) = Voters(s.votes)
          BY <1>1, <2>4, <4>2 DEF Voters
        <5> QED BY <1>1, <2>1, <4>2, <5>1 DEF TalliesOK
      <4> QED BY <4>1, <4>2
    <3> QED BY <1>1, <2>1, <2>4, <3>1 DEF TalliesOK
  <2>6. VotesGenuine(r)
    <3>1. ASSUME NEW j \in Voters(r.votes) PROVE IsGenuine(r, j, r.votes[j])
      <4>1. CASE j = i
        BY <1>1, <2>1, <2>2, <4>1 DEF IsGenuine
      <4>2. CASE j # i
        BY <1>1, <2>1, <2>2, <2>4, <4>2 DEF IsGenuine, VotesGenuine
      <4> QED BY <4>1, <4>2
    <3>2. \A k \in Keys : \A j \in Voters(r.votesByBlock[k].votes) :
             /\ r.votesByBlock[k].votes[j].block = k
             /\ IsGenuine(r, j, r.votesByBlock[k].votes[j])
      BY <1>1, <2>1 DEF VotesGenuine, IsGenuine
    <3> QED BY <3>1, <3>2 DEF VotesGenuine
  <2>7. MajorityOK(r)
    <3>1. ASSUME s.maj23 # NoBlock
          PROVE  PowerOf(VotersFor(r.votes, s.maj23)) >= Quorum
      <4>1. VotersFor(s.votes, s.maj23) \subseteq VotersFor(r.votes, s.maj23)
        BY <1>1, <1>3, <2>1, <2>2, <2>4 DEF VotersFor, Voters
      <4>2. VotersFor(r.votes, s.maj23) \in SUBSET Vals
        BY DEF VotersFor, Voters
      <4>3. PowerOf(VotersFor(s.votes, s.maj23)) <= PowerOf(VotersFor(r.votes, s.maj23))
        BY <4>1, <4>2, PowerOfMonotone
      <4>4. PowerOf(VotersFor(s.votes, s.maj23)) >= Quorum
        BY <1>1, <3>1 DEF MajorityOK
      <4>5. /\ PowerOf(VotersFor(s.votes, s.maj23)) \in Nat
            /\ PowerOf(VotersFor(r.votes, s.maj23)) \in Nat
            /\ Quorum \in Nat
        BY <4>1, <4>2, UnitsFinite, TotalType
      <4> QED BY <4>3, <4>4, <4>5
    <3> QED BY <1>1, <2>1, <3>1 DEF MajorityOK
  <2>8. Fresh(r, v)
    BY <1>1, <2>1 DEF Fresh
  <2> QED BY <2>1, <2>3, <2>4, <2>5, <2>6, <2>7, <2>8 DEF VoteSetInv
<1> QED BY <1>2, <1>3

(* Filing a fresh vote under its block keeps everything but the link between
   a block's quorum and maj23, which only the vote's own block can break. *)
LEMMA FileVoteOK ==
    ASSUME NEW s, NEW v, VoteSetInv(s), Fresh(s, v), v.index \in Voters(s.votes)
    PROVE  /\ fileVote(s, v) \in VoteSetType
           /\ TalliesOK(fileVote(s, v))
           /\ VotesGenuine(fileVote(s, v))
           /\ fileVote(s, v).maj23 = s.maj23
           /\ fileVote(s, v).votes = s.votes
           /\ fileVote(s, v).votesByBlock[v.block] = withVote(s, v)
           /\ \A k \in Keys \ {v.block} :
                 fileVote(s, v).votesByBlock[k] = s.votesByBlock[k]
<1> DEFINE f  == fileVote(s, v)
           i  == v.index
           b  == v.block
           bv == s.votesByBlock[b]
           w  == withVote(s, v)
<1>1. /\ s \in VoteSetType /\ v \in Vote /\ i \in Vals /\ v.type = s.type /\ Verify(v, i)
      /\ TalliesOK(s) /\ VotesGenuine(s)
      /\ Power[i] \in Nat /\ NoVote \notin Vote /\ b \in Keys
      /\ bv.votes[i] = NoVote
  BY PowerAssumption, VoteAssumption DEF VoteSetInv, Fresh, Vote
<1>2. bv \in BlockVotes /\ s.votesByBlock \in [Keys -> BlockVotes]
  BY <1>1 DEF VoteSetType
<1>3. /\ w.bitArray = bv.bitArray \cup {i}
      /\ w.votes = [bv.votes EXCEPT ![i] = v]
      /\ w.sum = bv.sum + Power[i]
      /\ w.tracked = TRUE
      /\ w.peerMaj23 = bv.peerMaj23
  BY <1>1, <1>2 DEF withVote, addBlockVote, BlockVotes
<1>4. w \in BlockVotes
  <2>1. /\ bv.bitArray \cup {i} \in SUBSET Vals
        /\ [bv.votes EXCEPT ![i] = v] \in [Vals -> Vote \cup {NoVote}]
        /\ bv.sum + Power[i] \in Nat
    BY <1>1, <1>2 DEF BlockVotes
  <2>2. w = [[bv EXCEPT !.tracked = TRUE] EXCEPT
                !.bitArray = bv.bitArray \cup {i},
                !.votes    = [bv.votes EXCEPT ![i] = v],
                !.sum      = bv.sum + Power[i]]
    BY <1>1, <1>2 DEF withVote, addBlockVote, BlockVotes
  <2> HIDE DEF w, bv, i
  <2> QED BY <1>2, <2>1, <2>2 DEF BlockVotes
<1>5. /\ f.type = s.type /\ f.maj23 = s.maj23 /\ f.votes = s.votes
      /\ f.votesBitArray = s.votesBitArray /\ f.sum = s.sum
      /\ f.votesByBlock = [s.votesByBlock EXCEPT ![b] = w]
  BY <1>1 DEF fileVote, VoteSetType
<1>6. f \in VoteSetType
  <2>1. [s.votesByBlock EXCEPT ![b] = w] \in [Keys -> BlockVotes]
    BY <1>2, <1>4
  <2>2. f = [s EXCEPT !.votesByBlock = [s.votesByBlock EXCEPT ![b] = w]]
    BY DEF fileVote
  <2> HIDE DEF f, w, b
  <2> QED BY <1>1, <2>1, <2>2 DEF VoteSetType
<1>7. /\ f.votesByBlock[b] = w
      /\ \A k \in Keys \ {b} : f.votesByBlock[k] = s.votesByBlock[k]
  BY <1>1, <1>2, <1>5
<1>8. Voters(w.votes) = Voters(bv.votes) \cup {i} /\ i \notin Voters(bv.votes)
  BY <1>1, <1>2, <1>3 DEF Voters, BlockVotes
<1>9. TalliesOK(f)
  <2>1. PowerOf(Voters(w.votes)) = PowerOf(Voters(bv.votes)) + Power[i]
    <3>1. Voters(bv.votes) \in SUBSET Vals
      BY DEF Voters
    <3> QED BY <1>1, <1>8, <3>1, PowerOfAdd
  <2>2. w.bitArray = Voters(w.votes) /\ w.sum = PowerOf(Voters(w.votes))
    BY <1>1, <1>3, <1>8, <2>1 DEF TalliesOK
  <2>3. Voters(w.votes) \subseteq Voters(f.votes)
    BY <1>1, <1>5, <1>8 DEF TalliesOK
  <2> HIDE DEF f, w, b, bv
  <2>4. ASSUME NEW k \in Keys
        PROVE  /\ f.votesByBlock[k].bitArray = Voters(f.votesByBlock[k].votes)
               /\ f.votesByBlock[k].sum = PowerOf(Voters(f.votesByBlock[k].votes))
               /\ Voters(f.votesByBlock[k].votes) \subseteq Voters(f.votes)
    <3>1. CASE k = b
      BY <1>7, <2>2, <2>3, <3>1
    <3>2. CASE k # b
      BY <1>1, <1>5, <1>7, <3>2 DEF TalliesOK
    <3> QED BY <3>1, <3>2
  <2> QED BY <1>1, <1>5, <2>4 DEF TalliesOK
<1>10. VotesGenuine(f)
  <2>1. \A j \in Voters(f.votes) : IsGenuine(f, j, f.votes[j])
    BY <1>1, <1>5 DEF VotesGenuine, IsGenuine
  <2>2. ASSUME NEW k \in Keys, NEW j \in Voters(f.votesByBlock[k].votes)
        PROVE  /\ f.votesByBlock[k].votes[j].block = k
               /\ IsGenuine(f, j, f.votesByBlock[k].votes[j])
    <3>1. CASE k = b /\ j = i
      <4>1. f.votesByBlock[k].votes[j] = v
        BY <1>1, <1>2, <1>3, <1>7, <3>1 DEF BlockVotes
      <4> QED BY <1>1, <1>5, <3>1, <4>1 DEF IsGenuine
    <3>2. CASE k = b /\ j # i
      <4>1. f.votesByBlock[k].votes[j] = bv.votes[j] /\ j \in Voters(bv.votes)
        BY <1>1, <1>2, <1>3, <1>7, <1>8, <3>2 DEF BlockVotes, Voters
      <4> QED BY <1>1, <1>5, <3>2, <4>1 DEF VotesGenuine, IsGenuine
    <3>3. CASE k # b
      BY <1>1, <1>5, <1>7, <3>3 DEF VotesGenuine, IsGenuine
    <3> QED BY <3>1, <3>2, <3>3
  <2> QED BY <2>1, <2>2 DEF VotesGenuine
<1> QED BY <1>5, <1>6, <1>7, <1>9, <1>10

(* Copying the votes of a block with a quorum leaves a set whose canonical
   votes hold that quorum: nobody is added to the voters, so sum is right. *)
LEMMA SetMaj23OK ==
    ASSUME NEW s \in VoteSetType, NEW k \in Keys,
           TalliesOK(s), VotesGenuine(s), s.votesByBlock[k].sum >= Quorum
    PROVE  VoteSetInv(setMaj23(s, k))
<1> DEFINE m  == setMaj23(s, k)
           bv == s.votesByBlock[k]
           copied == [i \in Vals |-> IF bv.votes[i] # NoVote THEN bv.votes[i] ELSE s.votes[i]]
<1>1. /\ bv \in BlockVotes /\ s.votes \in [Vals -> Vote \cup {NoVote}]
      /\ k # NoBlock
  BY VoteAssumption DEF VoteSetType
<1>2. /\ m.type = s.type /\ m.maj23 = k /\ m.votes = copied
      /\ m.votesBitArray = s.votesBitArray /\ m.sum = s.sum
      /\ m.votesByBlock = s.votesByBlock
  BY DEF setMaj23, VoteSetType
<1>3. copied \in [Vals -> Vote \cup {NoVote}]
  BY <1>1 DEF BlockVotes
<1>4. m \in VoteSetType
  <2>1. m = [s EXCEPT !.maj23 = k, !.votes = copied]
    BY DEF setMaj23
  <2> HIDE DEF m, copied
  <2> QED BY <1>3, <2>1 DEF VoteSetType
<1>5. Voters(m.votes) = Voters(s.votes)
  <2>1. Voters(bv.votes) \subseteq Voters(s.votes)
    BY DEF TalliesOK
  <2> QED BY <1>1, <1>2, <2>1 DEF Voters
<1>6. TalliesOK(m)
  BY <1>2, <1>5 DEF TalliesOK
<1>7. VotesGenuine(m)
  <2> HIDE DEF m
  <2>1. ASSUME NEW j \in Voters(m.votes) PROVE IsGenuine(m, j, m.votes[j])
    <3>0. j \in Vals /\ j \in Voters(s.votes)
      BY <1>5 DEF Voters
    <3>1. CASE bv.votes[j] # NoVote
      <4>1. m.votes[j] = bv.votes[j] /\ j \in Voters(bv.votes)
        BY <1>2, <3>0, <3>1 DEF Voters
      <4>2. IsGenuine(s, j, bv.votes[j])
        BY <4>1, Zenon DEF VotesGenuine
      <4> QED BY <1>2, <4>1, <4>2 DEF IsGenuine
    <3>2. CASE bv.votes[j] = NoVote
      <4>1. m.votes[j] = s.votes[j]
        BY <1>2, <3>0, <3>2
      <4>2. IsGenuine(s, j, s.votes[j])
        BY <3>0, Zenon DEF VotesGenuine
      <4> QED BY <1>2, <4>1, <4>2 DEF IsGenuine
    <3> QED BY <3>1, <3>2
  <2>2. ASSUME NEW l \in Keys, NEW j \in Voters(s.votesByBlock[l].votes)
        PROVE  /\ IsGenuine(m, j, m.votesByBlock[l].votes[j])
               /\ m.votesByBlock[l].votes[j].block = l
    <3>1. /\ IsGenuine(s, j, s.votesByBlock[l].votes[j])
          /\ s.votesByBlock[l].votes[j].block = l
      BY Zenon DEF VotesGenuine
    <3> QED BY <1>2, <3>1 DEF IsGenuine
  <2> QED BY <1>2, <2>1, <2>2 DEF VotesGenuine
<1>8. MajorityOK(m)
  <2>1. Voters(bv.votes) \subseteq VotersFor(m.votes, k)
    BY <1>1, <1>2 DEF VotersFor, Voters, VotesGenuine
  <2>2. VotersFor(m.votes, k) \in SUBSET Vals
    BY DEF VotersFor, Voters
  <2>3. PowerOf(Voters(bv.votes)) <= PowerOf(VotersFor(m.votes, k))
    BY <2>1, <2>2, PowerOfMonotone
  <2>4. PowerOf(Voters(bv.votes)) >= Quorum
    BY DEF TalliesOK
  <2>5. /\ PowerOf(Voters(bv.votes)) \in Nat /\ PowerOf(VotersFor(m.votes, k)) \in Nat
        /\ Quorum \in Nat
    BY <2>1, <2>2, UnitsFinite, TotalType
  <2>6. PowerOf(VotersFor(m.votes, k)) >= Quorum
    BY <2>3, <2>4, <2>5
  <2> QED BY <1>1, <1>2, <2>6 DEF MajorityOK
<1> QED BY <1>4, <1>6, <1>7, <1>8 DEF VoteSetInv

(* addVerifiedVote keeps a set consistent. *)
LEMMA AddVerifiedVoteOK ==
    ASSUME NEW s, NEW v, VoteSetInv(s), Fresh(s, v)
    PROVE  VoteSetInv(addVerifiedVote(s, v))
<1> DEFINE r == recordVote(s, v)
           f == fileVote(r, v)
<1>1. /\ VoteSetInv(r) /\ Fresh(r, v) /\ v.index \in Voters(r.votes)
      /\ r.votesByBlock = s.votesByBlock /\ r.maj23 = s.maj23
  BY RecordVoteOK
<1>2. /\ f \in VoteSetType /\ TalliesOK(f) /\ VotesGenuine(f)
      /\ f.maj23 = r.maj23 /\ f.votes = r.votes
      /\ f.votesByBlock[v.block] = withVote(r, v)
      /\ \A k \in Keys \ {v.block} : f.votesByBlock[k] = r.votesByBlock[k]
  BY <1>1, FileVoteOK
<1>3. v.block \in Keys
  BY DEF Fresh, Vote
<1>4. withVote(r, v) = withVote(s, v)
  BY <1>1 DEF withVote
<1>5. CASE forgetsVote(s, v)
  BY <1>1, <1>5 DEF addVerifiedVote
<1>6. CASE ~ forgetsVote(s, v) /\ reachesQuorum(s, v)
  <2>1. f.votesByBlock[v.block].sum >= Quorum
    <3>1. Quorum <= f.votesByBlock[v.block].sum
      BY <1>2, <1>4, <1>6 DEF reachesQuorum
    <3> QED BY <3>1
  <2>2. VoteSetInv(setMaj23(f, v.block))
    BY <1>2, <1>3, <2>1, SetMaj23OK
  <2> QED BY <1>6, <2>2 DEF addVerifiedVote
<1>7. CASE ~ forgetsVote(s, v) /\ ~ reachesQuorum(s, v)
  <2> HIDE DEF f, r
  <2>1. f.maj23 # NoBlock => PowerOf(VotersFor(f.votes, f.maj23)) >= Quorum
    BY <1>1, <1>2 DEF VoteSetInv, MajorityOK
  <2>2. ASSUME NEW k \in Keys, f.votesByBlock[k].sum >= Quorum
        PROVE  f.maj23 # NoBlock
    <3>1. CASE k # v.block
      BY <1>1, <1>2, <2>2, <3>1 DEF VoteSetInv, MajorityOK
    <3>2. CASE k = v.block
      <4>1. Quorum <= withVote(s, v).sum
        BY <1>2, <1>4, <2>2, <3>2
      <4>2. s.maj23 # NoBlock \/ ~ (s.votesByBlock[k].sum < Quorum)
        BY <1>7, <3>2, <4>1 DEF reachesQuorum
      <4>3. s.votesByBlock[k].sum \in Nat /\ Quorum \in Nat
        BY TotalType DEF VoteSetInv, VoteSetType, BlockVotes
      <4>4. s.votesByBlock[k].sum >= Quorum => s.maj23 # NoBlock
        BY DEF VoteSetInv, MajorityOK
      <4> QED BY <1>1, <1>2, <4>2, <4>3, <4>4
    <3> QED BY <3>1, <3>2
  <2>3. VoteSetInv(f)
    BY <1>2, <2>1, <2>2 DEF VoteSetInv, MajorityOK
  <2> QED BY <1>7, <2>3 DEF addVerifiedVote, f, r
<1> QED BY <1>5, <1>6, <1>7

(* AddVote, whatever it returns, leaves a consistent set. *)
THEOREM AddVoteOK ==
    ASSUME NEW s, NEW v \in Vote, VoteSetInv(s)
    PROVE  VoteSetInv(AddVote(s, v).vs)
<1> DEFINE n == addVerifiedVote(s, v)
           d == [n EXCEPT !.done = @ \/ HasTwoThirdsMajority(n)]
<1>1. CASE refusal(s, v) # "ok"
  BY <1>1 DEF AddVote
<1>2. CASE refusal(s, v) = "ok"
  <2>1. VoteSetInv(n)
    BY <1>2, AcceptedIsFresh, AddVerifiedVoteOK
  <2>2. VoteSetInv(d)
    <3> HIDE DEF n
    <3>1. n \in VoteSetType /\ (n.done \/ HasTwoThirdsMajority(n)) \in BOOLEAN
      BY <2>1 DEF VoteSetInv, VoteSetType, HasTwoThirdsMajority
    <3>2. d \in VoteSetType
      BY <3>1 DEF VoteSetType
    <3>3. /\ d.type = n.type /\ d.votes = n.votes /\ d.votesBitArray = n.votesBitArray
          /\ d.sum = n.sum /\ d.maj23 = n.maj23 /\ d.votesByBlock = n.votesByBlock
      BY <3>1 DEF VoteSetType
    <3> HIDE DEF d
    <3>4. TalliesOK(d)
      BY <2>1, <3>3 DEF VoteSetInv, TalliesOK
    <3>5. VotesGenuine(d)
      BY <2>1, <3>3 DEF VoteSetInv, VotesGenuine, IsGenuine
    <3>6. MajorityOK(d)
      BY <2>1, <3>3 DEF VoteSetInv, MajorityOK
    <3> QED BY <3>2, <3>4, <3>5, <3>6 DEF VoteSetInv
  <2>3. AddVote(s, v).vs \in {s, n, d}
    BY <1>2 DEF AddVote
  <2> QED BY <2>1, <2>2, <2>3
<1> QED BY <1>1, <1>2

(* SetPeerMaj23 keeps a set consistent. *)
THEOREM SetPeerMaj23OK ==
    ASSUME NEW s, NEW p \in Peers, NEW k \in Keys, VoteSetInv(s)
    PROVE  VoteSetInv(SetPeerMaj23(s, p, k).vs)
<1> DEFINE e == [s.votesByBlock[k] EXCEPT !.tracked = TRUE, !.peerMaj23 = TRUE]
           n == noteClaim(s, p, k)
<1>1. s \in VoteSetType /\ s.votesByBlock \in [Keys -> BlockVotes]
  BY DEF VoteSetInv, VoteSetType
<1>2. /\ e \in BlockVotes
      /\ e.bitArray = s.votesByBlock[k].bitArray
      /\ e.votes = s.votesByBlock[k].votes
      /\ e.sum = s.votesByBlock[k].sum
  BY <1>1 DEF BlockVotes
<1> HIDE DEF e
<1>3. n \in VoteSetType
  <2>1. [s.votesByBlock EXCEPT ![k] = e] \in [Keys -> BlockVotes]
    BY <1>1, <1>2
  <2>2. [s.peerMaj23s EXCEPT ![p] = k] \in [Peers -> Keys \cup {NoBlock}]
    BY <1>1 DEF VoteSetType
  <2>3. n = [s EXCEPT !.peerMaj23s   = [s.peerMaj23s EXCEPT ![p] = k],
                      !.votesByBlock = [s.votesByBlock EXCEPT ![k] = e]]
    BY DEF noteClaim, e
  <2> HIDE DEF n
  <2> QED BY <1>1, <2>1, <2>2, <2>3 DEF VoteSetType
<1>4. /\ n.type = s.type /\ n.votes = s.votes /\ n.votesBitArray = s.votesBitArray
      /\ n.sum = s.sum /\ n.maj23 = s.maj23
      /\ n.votesByBlock = [s.votesByBlock EXCEPT ![k] = e]
  BY <1>1 DEF VoteSetType, noteClaim, e
<1> HIDE DEF n
<1>5. \A j \in Keys :
         /\ n.votesByBlock[j].bitArray = s.votesByBlock[j].bitArray
         /\ n.votesByBlock[j].votes = s.votesByBlock[j].votes
         /\ n.votesByBlock[j].sum = s.votesByBlock[j].sum
  BY <1>1, <1>2, <1>4
<1>6. TalliesOK(n)
  BY <1>4, <1>5 DEF VoteSetInv, TalliesOK
<1>7. VotesGenuine(n)
  BY <1>4, <1>5 DEF VoteSetInv, VotesGenuine, IsGenuine
<1>8. MajorityOK(n)
  BY <1>4, <1>5 DEF VoteSetInv, MajorityOK
<1>9. VoteSetInv(n)
  BY <1>3, <1>6, <1>7, <1>8 DEF VoteSetInv
<1>10. SetPeerMaj23(s, p, k).vs \in {s, n}
  BY DEF SetPeerMaj23, n
<1> QED BY <1>9, <1>10

(* The commit a consistent precommit set makes for its majority block passes
   ValidateBasic and VerifyCommit. *)
THEOREM MakeCommitVerifies ==
    ASSUME NEW s, VoteSetInv(s), s.type = "precommit", s.maj23 \in Blocks
    PROVE  /\ ValidateBasic(MakeCommit(s)) = "ok"
           /\ VerifyCommit(s.maj23, MakeCommit(s)) = "ok"
<1> DEFINE c == MakeCommit(s)
           S == VotersFor(s.votes, s.maj23)
<1>1. /\ s \in VoteSetType /\ VotesGenuine(s) /\ MajorityOK(s)
      /\ s.votes \in [Vals -> Vote \cup {NoVote}]
      /\ NilBlock \notin Blocks /\ NoBlock \notin Blocks
  BY VoteAssumption DEF VoteSetInv, VoteSetType, Keys
<1>2. c.hash = s.maj23 /\ DOMAIN c.sigs = Vals
  BY DEF MakeCommit
<1>3. ASSUME NEW i \in Vals
      PROVE  /\ sigValid(c.sigs[i])
             /\ Absent(c.sigs[i]) \/ sigVerifies(c, i, i)
             /\ ~ UnknownFlag(c.sigs[i])
             /\ i \in S <=> ForBlock(c.sigs[i])
  <2>1. CASE s.votes[i] = NoVote
    <3>1. c.sigs[i] = NewCommitSigAbsent
      BY <2>1 DEF MakeCommit, voteCommitSig, ForBlock, NewCommitSigAbsent
    <3> QED BY <2>1, <3>1 DEF sigValid, UnknownFlag, Flags, Absent, ForBlock,
         NewCommitSigAbsent, VotersFor, Voters
  <2>2. CASE s.votes[i] # NoVote /\ s.votes[i].block \in Blocks /\ s.votes[i].block # s.maj23
    <3>1. c.sigs[i] = NewCommitSigAbsent
      BY <2>2 DEF MakeCommit, voteCommitSig, ForBlock, NewCommitSigAbsent
    <3> QED BY <2>2, <3>1 DEF sigValid, UnknownFlag, Flags, Absent, ForBlock,
         NewCommitSigAbsent, VotersFor, Voters
  <2>3. CASE s.votes[i] # NoVote /\ ~ (s.votes[i].block \in Blocks /\ s.votes[i].block # s.maj23)
    <3> DEFINE v == s.votes[i]
    <3>1. /\ v \in Vote /\ v.type = "precommit" /\ v.addr = i
          /\ v.sig = Sign(i, "precommit", v.block, v.time)
      BY <1>1, <2>3 DEF VotesGenuine, IsGenuine, Verify, Voters
    <3>2. c.sigs[i] = [flag |-> IF v.block \in Blocks THEN "commit" ELSE "nil",
                       addr |-> v.addr, time |-> v.time, sig |-> v.sig]
      BY <2>3 DEF MakeCommit, voteCommitSig, ForBlock
    <3>3. signedHash(c.sigs[i], c.hash) = v.block
      BY <1>1, <1>2, <2>3, <3>1, <3>2 DEF signedHash, UnknownFlag, Flags, ForBlock, Vote, Keys
    <3>4. sigVerifies(c, i, i)
      BY <3>1, <3>2, <3>3 DEF sigVerifies
    <3>5. sigValid(c.sigs[i])
      <4>1. i # NoAddr
        BY PowerAssumption DEF Vals, NoAddr
      <4>2. v.sig # NoSig
        BY <3>1, VoteAssumption DEF Sign, Vote, VoteTypes
      <4> QED BY <3>1, <3>2, <4>1, <4>2 DEF sigValid, UnknownFlag, Flags, Absent
    <3>6. i \in S <=> ForBlock(c.sigs[i])
      BY <2>3, <3>2, <1>1 DEF ForBlock, VotersFor, Voters
    <3>7. ~ UnknownFlag(c.sigs[i])
      BY <3>2 DEF UnknownFlag, Flags
    <3> QED BY <3>4, <3>5, <3>6, <3>7
  <2> QED BY <2>1, <2>2, <2>3
<1>4. {i \in Vals : ForBlock(c.sigs[i])} = S
  BY <1>3 DEF VotersFor, Voters
<1>5. PowerOf(S) >= Quorum /\ PowerOf(S) \in Nat /\ S \in SUBSET Vals
  <2>1. S \in SUBSET Vals
    BY DEF VotersFor, Voters
  <2>2. s.maj23 # NoBlock
    BY <1>1
  <2> QED BY <1>1, <2>1, <2>2, UnitsFinite DEF MajorityOK
<1>6. PowerOf(S) > votingPowerNeeded
  BY <1>5, QuorumIsTwoThirds DEF votingPowerNeeded
<1>7. ~ (PowerOf({i \in Vals : ForBlock(c.sigs[i])}) <= votingPowerNeeded)
  <2>1. votingPowerNeeded \in Int
    BY TotalType DEF votingPowerNeeded
  <2> QED BY <1>4, <1>5, <1>6, <2>1
<1>8. Vals # {}
  <2>1. CASE Vals = {}
    <3>1. PowerOf(S) = 0
      BY <1>5, <2>1, PowerOfEmpty
    <3> QED BY <1>5, <3>1, TotalType DEF Quorum
  <2> QED BY <2>1
<1> HIDE DEF c, S
<1>9. VerifyCommit(s.maj23, c) = "ok"
  BY <1>2, <1>3, <1>7 DEF VerifyCommit, badSlots
<1>10. ValidateBasic(c) = "ok"
  BY <1>1, <1>2, <1>3, <1>8 DEF ValidateBasic
<1> QED BY <1>9, <1>10 DEF c

-----------------------------------------------------------------------------
(* What a step of a vote set may never do. *)

(* addVerifiedVote takes back nothing. *)
LEMMA AddVerifiedVoteExtends ==
    ASSUME NEW s, NEW v, VoteSetInv(s), Fresh(s, v),
           s.votes[v.index] # NoVote => s.votes[v.index].block # v.block
    PROVE  /\ Extends(s, addVerifiedVote(s, v))
           /\ addVerifiedVote(s, v).done = s.done
<1> DEFINE r == recordVote(s, v)
           f == fileVote(r, v)
           m == setMaj23(f, v.block)
           b == v.block
<1>1. /\ VoteSetInv(r) /\ Fresh(r, v) /\ v.index \in Voters(r.votes)
      /\ r.votesByBlock = s.votesByBlock /\ r.maj23 = s.maj23
  BY RecordVoteOK
<1>2. /\ f \in VoteSetType /\ VotesGenuine(f)
      /\ f.maj23 = s.maj23 /\ f.votes = r.votes
      /\ f.votesByBlock[b] = withVote(s, v)
      /\ \A k \in Keys \ {b} : f.votesByBlock[k] = s.votesByBlock[k]
  BY <1>1, FileVoteOK DEF withVote
<1>3. /\ s \in VoteSetType /\ v \in Vote /\ v.index \in Vals /\ b \in Keys
      /\ NoVote \notin Vote /\ s.votes \in [Vals -> Vote \cup {NoVote}]
  BY VoteAssumption DEF Fresh, Vote, VoteSetInv, VoteSetType
<1>4. r.done = s.done /\ f.done = s.done /\ m.done = s.done
  <2>1. r.done = s.done
    BY <1>3 DEF recordVote, VoteSetType
  <2>2. f.done = r.done
    BY <1>1 DEF fileVote, VoteSetInv, VoteSetType
  <2>3. m.done = f.done
    BY <1>2 DEF setMaj23, VoteSetType
  <2> QED BY <2>1, <2>2, <2>3
<1>5. \A i \in Voters(s.votes) :
         r.votes[i] = s.votes[i] \/ (r.votes[i] # NoVote /\ r.votes[i].block = s.maj23)
  BY <1>3 DEF recordVote, VoteSetType, Voters
<1>6. \A i \in Voters(s.votesByBlock[b].votes) :
         withVote(s, v).votes[i] = s.votesByBlock[b].votes[i]
  <2>1. s.votesByBlock[b] \in BlockVotes /\ s.votesByBlock[b].votes[v.index] = NoVote
    BY <1>3 DEF VoteSetType, Fresh
  <2> QED BY <1>3, <2>1 DEF withVote, addBlockVote, BlockVotes, Voters
<1>7. Extends(s, r)
  BY <1>1, <1>4, <1>5 DEF Extends
<1>8. Extends(s, f)
  BY <1>2, <1>4, <1>5, <1>6 DEF Extends
<1>9. ASSUME s.maj23 = NoBlock PROVE Extends(s, m)
  <2>1. m.maj23 = b /\ m.votesByBlock = f.votesByBlock
    BY <1>2 DEF setMaj23, VoteSetType
  <2>2. ASSUME NEW i \in Voters(s.votes)
        PROVE  m.votes[i] = s.votes[i] \/ (m.votes[i] # NoVote /\ m.votes[i].block = b)
    <3>1. i \in Vals /\ s.votes[i] # NoVote /\ s.maj23 # s.votes[i].block
      BY <1>3, <1>9, VoteAssumption DEF Voters, Vote
    <3>2. r.votes[i] = s.votes[i]
      <4>1. s.maj23 # v.block
        BY <1>3, <1>9, VoteAssumption
      <4> QED BY <1>3, <3>1, <4>1 DEF recordVote, VoteSetType
    <3>3. m.votes[i] = IF f.votesByBlock[b].votes[i] # NoVote
                       THEN f.votesByBlock[b].votes[i] ELSE f.votes[i]
      BY <1>2, <3>1 DEF setMaj23, VoteSetType
    <3>4. f.votesByBlock[b].votes[i] # NoVote => f.votesByBlock[b].votes[i].block = b
      BY <1>2, <1>3, <3>1 DEF VotesGenuine, Voters
    <3> QED BY <1>2, <3>2, <3>3, <3>4
  <2> HIDE DEF m, f
  <2> QED BY <1>2, <1>4, <1>6, <1>9, <2>1, <2>2 DEF Extends
<1> HIDE DEF r, f, m
<1>10. addVerifiedVote(s, v) \in {r, f} \/ (s.maj23 = NoBlock /\ addVerifiedVote(s, v) = m)
  BY DEF addVerifiedVote, reachesQuorum, r, f, m
<1> QED BY <1>4, <1>7, <1>8, <1>9, <1>10

(* A call that changes nothing takes back nothing. *)
LEMMA ExtendsItself == ASSUME NEW s PROVE Extends(s, s)
BY DEF Extends

(* A vote, whatever becomes of it, never takes back what the set has found. *)
THEOREM AddVoteExtends ==
    ASSUME NEW s, NEW v \in Vote, VoteSetInv(s)
    PROVE  /\ Extends(s, AddVote(s, v).vs)
           /\ AddVote(s, v).err # "panic"
<1>1. CASE refusal(s, v) # "ok"
  <2>1. refusal(s, v) # "panic"
    BY DEF refusal
  <2> QED BY <1>1, <2>1, ExtendsItself DEF AddVote
<1>2. CASE refusal(s, v) = "ok"
  <2> DEFINE n == addVerifiedVote(s, v)
             d == [n EXCEPT !.done = @ \/ HasTwoThirdsMajority(n)]
  <2>1. /\ Fresh(s, v)
        /\ s.votes[v.index] # NoVote => s.votes[v.index].block # v.block
    BY <1>2, AcceptedIsFresh
  <2>2. Extends(s, n) /\ VoteSetInv(n)
    BY <2>1, AddVerifiedVoteExtends, AddVerifiedVoteOK
  <2>3. Extends(s, d)
    <3> HIDE DEF n
    <3>1. /\ d.maj23 = n.maj23 /\ d.votes = n.votes /\ d.votesByBlock = n.votesByBlock
          /\ n.done => d.done
      BY <2>2 DEF VoteSetInv, VoteSetType
    <3> HIDE DEF d
    <3> QED BY <2>2, <3>1 DEF Extends
  <2>4. s.votes[v.index] = NoVote => ~ forgetsVote(s, v)
    BY DEF forgetsVote
  <2>5. AddVote(s, v).vs \in {n, d} /\ AddVote(s, v).err # "panic"
    <3> HIDE DEF n, d
    <3>1. CASE s.votes[v.index] = NoVote
      <4>1. AddVote(s, v) = [vs |-> d, added |-> TRUE, err |-> "ok"]
        BY <1>2, <2>4, <3>1 DEF AddVote, n, d
      <4> QED BY <4>1
    <3>2. CASE s.votes[v.index] # NoVote
      <4>1. /\ AddVote(s, v).vs = n
            /\ AddVote(s, v).err = "ErrVoteConflictingVotes"
        BY <1>2, <2>1, <3>2 DEF AddVote, n
      <4> QED BY <4>1
    <3> QED BY <3>1, <3>2
  <2> QED BY <2>2, <2>3, <2>5
<1> QED BY <1>1, <1>2

(* Nor does a claim. *)
THEOREM SetPeerMaj23Extends ==
    ASSUME NEW s, NEW p \in Peers, NEW k \in Keys, VoteSetInv(s)
    PROVE  Extends(s, SetPeerMaj23(s, p, k).vs)
<1> DEFINE n == noteClaim(s, p, k)
<1>1. s \in VoteSetType /\ s.votesByBlock \in [Keys -> BlockVotes]
  BY DEF VoteSetInv, VoteSetType
<1>2. /\ n.maj23 = s.maj23 /\ n.votes = s.votes /\ n.done = s.done
      /\ \A j \in Keys : n.votesByBlock[j].votes = s.votesByBlock[j].votes
  BY <1>1 DEF noteClaim, VoteSetType, BlockVotes
<1> HIDE DEF n
<1>3. Extends(s, n)
  BY <1>2 DEF Extends
<1>4. SetPeerMaj23(s, p, k).vs \in {s, n}
  BY DEF SetPeerMaj23, n
<1> QED BY <1>3, <1>4, ExtendsItself

(* Without claims, a conflicting vote never completes a quorum, so the call
   that finds the majority is one that closes done. *)
THEOREM AddVoteSignals ==
    ASSUME NEW s, NEW v \in Vote, VoteSetInv(s), SignalOK(s)
    PROVE  SignalOK(AddVote(s, v).vs)
<1>1. CASE refusal(s, v) # "ok"
  BY <1>1 DEF AddVote
<1>2. CASE refusal(s, v) = "ok"
  <2> DEFINE n == addVerifiedVote(s, v)
             d == [n EXCEPT !.done = @ \/ HasTwoThirdsMajority(n)]
  <2>1. /\ Fresh(s, v)
        /\ s.votes[v.index] # NoVote => s.votes[v.index].block # v.block
    BY <1>2, AcceptedIsFresh
  <2>2. VoteSetInv(n) /\ n \in VoteSetType /\ Extends(s, n) /\ n.done = s.done
    BY <2>1, AddVerifiedVoteExtends, AddVerifiedVoteOK DEF VoteSetInv
  <2>3. v.block \in Keys /\ s \in VoteSetType
    BY DEF Vote, VoteSetInv
  <2>4. CASE s.votes[v.index] # NoVote
    <3>1. n = recordVote(s, v)
      BY <2>3, <2>4 DEF addVerifiedVote, forgetsVote, SignalOK
    <3>2. n.votesByBlock = s.votesByBlock /\ n.maj23 = s.maj23
      BY <2>1, <3>1, RecordVoteOK
    <3>3. AddVote(s, v).vs = n
      BY <1>2, <2>1, <2>4 DEF AddVote
    <3> HIDE DEF n
    <3> QED BY <2>2, <3>2, <3>3 DEF SignalOK
  <2>5. CASE s.votes[v.index] = NoVote
    <3>1. AddVote(s, v).vs = d
      <4>1. ~ forgetsVote(s, v)
        BY <2>5 DEF forgetsVote
      <4> QED BY <1>2, <2>5, <4>1 DEF AddVote
    <3>2. \A k \in Keys : ~ n.votesByBlock[k].peerMaj23
      <4> DEFINE r == recordVote(s, v)
                 f == fileVote(r, v)
      <4>1. /\ VoteSetInv(r) /\ Fresh(r, v) /\ v.index \in Voters(r.votes)
            /\ r.votesByBlock = s.votesByBlock
        BY <2>1, RecordVoteOK
      <4>2. /\ f.votesByBlock[v.block] = withVote(r, v)
            /\ \A k \in Keys \ {v.block} : f.votesByBlock[k] = s.votesByBlock[k]
            /\ f \in VoteSetType
        BY <4>1, FileVoteOK
      <4>3. ~ withVote(r, v).peerMaj23
        <5>1. s.votesByBlock[v.block] \in BlockVotes /\ ~ s.votesByBlock[v.block].peerMaj23
          BY <2>3 DEF VoteSetType, SignalOK
        <5> QED BY <4>1, <5>1 DEF withVote, addBlockVote, BlockVotes
      <4>4. n.votesByBlock \in {r.votesByBlock, f.votesByBlock}
        <5>1. setMaj23(f, v.block).votesByBlock = f.votesByBlock
          BY <4>2 DEF setMaj23, VoteSetType
        <5> HIDE DEF f, r
        <5> QED BY <5>1 DEF addVerifiedVote, f, r
      <4> HIDE DEF n, r, f
      <4> QED BY <4>1, <4>2, <4>3, <4>4 DEF SignalOK
    <3> HIDE DEF n
    <3>3. /\ d.votesByBlock = n.votesByBlock /\ d.maj23 = n.maj23
          /\ d.done = (n.done \/ n.maj23 # NoBlock)
      BY <2>2 DEF VoteSetType, HasTwoThirdsMajority
    <3>4. s.maj23 # NoBlock => n.maj23 # NoBlock
      BY <2>2 DEF Extends
    <3> HIDE DEF d
    <3> QED BY <2>2, <3>1, <3>2, <3>3, <3>4 DEF SignalOK
  <2> QED BY <2>4, <2>5
<1> QED BY <1>1, <1>2

-----------------------------------------------------------------------------
(* What a round relies on. *)

(* Every vote the set holds, in either storage area, is in V. *)
HoldsOnly(s, V) ==
    /\ \A i \in Voters(s.votes) : s.votes[i] \in V
    /\ \A k \in Keys : \A i \in Voters(s.votesByBlock[k].votes) :
          s.votesByBlock[k].votes[i] \in V

(* addVerifiedVote adds no vote but the one it is given. *)
LEMMA AddVerifiedVoteHolds ==
    ASSUME NEW s, NEW v, VoteSetInv(s), Fresh(s, v),
           NEW V, HoldsOnly(s, V), v \in V
    PROVE  /\ HoldsOnly(addVerifiedVote(s, v), V)
           /\ addVerifiedVote(s, v).type = s.type
<1> DEFINE r == recordVote(s, v)
           f == fileVote(r, v)
           m == setMaj23(f, v.block)
           b == v.block
<1>1. /\ VoteSetInv(r) /\ Fresh(r, v) /\ v.index \in Voters(r.votes)
      /\ r.votesByBlock = s.votesByBlock /\ r \in VoteSetType
  BY RecordVoteOK DEF VoteSetInv
<1>2. /\ f \in VoteSetType /\ f.votes = r.votes
      /\ f.votesByBlock[b] = withVote(s, v)
      /\ \A k \in Keys \ {b} : f.votesByBlock[k] = s.votesByBlock[k]
  BY <1>1, FileVoteOK DEF withVote
<1>3. /\ s \in VoteSetType /\ v.index \in Vals /\ b \in Keys
      /\ s.votes \in [Vals -> Vote \cup {NoVote}]
  BY DEF Fresh, Vote, VoteSetInv, VoteSetType
<1>4. r.type = s.type /\ f.type = s.type /\ m.type = s.type
  <2>1. r.type = s.type
    BY <1>3 DEF recordVote, VoteSetType
  <2>2. f.type = r.type
    BY <1>1 DEF fileVote, VoteSetType
  <2>3. m.type = f.type
    BY <1>2 DEF setMaj23, VoteSetType
  <2> QED BY <2>1, <2>2, <2>3
<1>5. \A i \in Voters(r.votes) : r.votes[i] \in V
  BY <1>3 DEF recordVote, VoteSetType, Voters, HoldsOnly
<1>6. \A i \in Voters(withVote(s, v).votes) : withVote(s, v).votes[i] \in V
  <2>1. s.votesByBlock[b] \in BlockVotes
    BY <1>3 DEF VoteSetType
  <2> QED BY <1>3, <2>1 DEF withVote, addBlockVote, BlockVotes, Voters, HoldsOnly
<1>7. HoldsOnly(r, V)
  BY <1>1, <1>5 DEF HoldsOnly
<1>8. HoldsOnly(f, V)
  BY <1>2, <1>3, <1>5, <1>6 DEF HoldsOnly
<1>9. HoldsOnly(m, V)
  <2>1. m.votesByBlock = f.votesByBlock
    BY <1>2 DEF setMaj23, VoteSetType
  <2>2. \A i \in Vals : m.votes[i] = IF f.votesByBlock[b].votes[i] # NoVote
                                     THEN f.votesByBlock[b].votes[i] ELSE f.votes[i]
    BY <1>2 DEF setMaj23, VoteSetType
  <2> HIDE DEF m, f
  <2> QED BY <1>3, <1>8, <2>1, <2>2 DEF HoldsOnly, Voters
<1> HIDE DEF r, f, m
<1>10. addVerifiedVote(s, v) \in {r, f, m}
  BY DEF addVerifiedVote, r, f, m
<1> QED BY <1>4, <1>7, <1>8, <1>9, <1>10

(* A vote set holds only votes it was given and accepted, collects one type of
   vote, and closes done only if there is a majority. *)
THEOREM AddVoteKeeps ==
    ASSUME NEW s, NEW v \in Vote, VoteSetInv(s), s.done => s.maj23 # NoBlock,
           NEW V, HoldsOnly(s, V), refusal(s, v) = "ok" => v \in V
    PROVE  /\ HoldsOnly(AddVote(s, v).vs, V)
           /\ AddVote(s, v).vs.type = s.type
           /\ AddVote(s, v).vs.done => AddVote(s, v).vs.maj23 # NoBlock
<1>1. CASE refusal(s, v) # "ok"
  BY <1>1 DEF AddVote
<1>2. CASE refusal(s, v) = "ok"
  <2> DEFINE n == addVerifiedVote(s, v)
             d == [n EXCEPT !.done = @ \/ HasTwoThirdsMajority(n)]
  <2>1. /\ Fresh(s, v)
        /\ s.votes[v.index] # NoVote => s.votes[v.index].block # v.block
    BY <1>2, AcceptedIsFresh
  <2>2. /\ n \in VoteSetType /\ n.done = s.done
        /\ s.maj23 # NoBlock => n.maj23 = s.maj23
    BY <2>1, AddVerifiedVoteExtends, AddVerifiedVoteOK DEF VoteSetInv, Extends
  <2>3. HoldsOnly(n, V) /\ n.type = s.type
    BY <1>2, <2>1, AddVerifiedVoteHolds
  <2>4. AddVote(s, v).vs \in {s, n, d}
    BY <1>2 DEF AddVote
  <2> HIDE DEF n
  <2>5. /\ d.type = n.type /\ d.votes = n.votes /\ d.votesByBlock = n.votesByBlock
        /\ d.maj23 = n.maj23 /\ d.done = (n.done \/ n.maj23 # NoBlock)
    BY <2>2 DEF VoteSetType, HasTwoThirdsMajority
  <2> HIDE DEF d
  <2>6. HoldsOnly(d, V)
    BY <2>3, <2>5 DEF HoldsOnly
  <2> QED BY <2>2, <2>3, <2>4, <2>5, <2>6
<1> QED BY <1>1, <1>2

(* A larger set of votes will do. *)
LEMMA HoldsOnlyMore ==
    ASSUME NEW s, NEW V, NEW W, V \subseteq W, HoldsOnly(s, V)
    PROVE  HoldsOnly(s, W)
BY DEF HoldsOnly

-----------------------------------------------------------------------------
(* The loops of commit verification. *)

(* Induction: a set of numbers with 0 and the successor of each of its members
   holds every number.  The least number outside the set would be 0 or the
   successor of a member. *)
LEMMA Induction ==
    ASSUME NEW T \in SUBSET Nat, 0 \in T, \A n \in T : n + 1 \in T
    PROVE  T = Nat
<1> DEFINE R == OpToRel(<, Nat)
           B == Nat \ T
<1> SUFFICES ASSUME B # {} PROVE FALSE
  OBVIOUS
<1>1. IsWellFoundedOn(R, Nat)
  BY NatLessThanWellFounded
<1>2. B \subseteq Nat
  OBVIOUS
<1> HIDE DEF R, B
<1>3. PICK x \in B : \A y \in B : ~ (<<y, x>> \in R)
  BY <1>1, <1>2, WFMin
<1>4. \A y \in B : ~ (y < x)
  BY <1>2, <1>3 DEF R, OpToRel
<1>5. x \in Nat /\ x # 0 /\ x - 1 \in Nat /\ x - 1 < x
  BY <1>3 DEF B
<1>6. x - 1 \in T
  BY <1>4, <1>5 DEF B
<1> QED BY <1>3, <1>5, <1>6 DEF B

-----------------------------------------------------------------------------
(* VerifyCommitLight. *)

(* The threshold is a natural number. *)
LEMMA NeededType == votingPowerNeeded \in Nat
BY TotalType DEF votingPowerNeeded

(* A larger set of proposers passes it too. *)
LEMMA MoreThanNeeded ==
    ASSUME NEW S \in SUBSET Vals, NEW T \in SUBSET S, PowerOf(T) > votingPowerNeeded
    PROVE  ~ (PowerOf(S) <= votingPowerNeeded)
<1>1. /\ PowerOf(T) <= PowerOf(S) /\ PowerOf(T) \in Nat /\ PowerOf(S) \in Nat
      /\ votingPowerNeeded \in Nat
  BY PowerOfMonotone, UnitsFinite, NeededType
<1> QED BY <1>1

(* The loop starts with nothing tallied, and signature n takes it from n
   signatures read to n + 1.  That there is a function with these values, of
   which the recursive definition names one, is proved by induction. *)
LEMMA LightScanSteps ==
    ASSUME NEW c
    PROVE  /\ lightScan(c)[0] = [tally |-> 0, ret |-> ""]
           /\ \A n \in 0 .. Size - 1 : lightScan(c)[n + 1] = lightStep(c, lightScan(c)[n], n)
<1> DEFINE start == [tally |-> 0, ret |-> ""]
           Runs(f, m) == f = [n \in 0 .. m |-> IF n = 0 THEN start
                                             ELSE lightStep(c, f[n - 1], n - 1)]
           T == {m \in Nat : \E f : Runs(f, m)}
<1> HIDE DEF start
<1>1. 0 \in T
  <2>1. Runs([n \in 0 .. 0 |-> start], 0)
    OBVIOUS
  <2> QED BY <2>1
<1>2. ASSUME NEW m \in T PROVE m + 1 \in T
  <2>1. m \in Nat
    OBVIOUS
  <2>2. PICK f : Runs(f, m)
    OBVIOUS
  <2> HIDE DEF T
  <2> DEFINE g == [n \in 0 .. m + 1 |-> IF n <= m THEN f[n] ELSE lightStep(c, f[m], m)]
  <2>3. /\ \A n \in 0 .. m : g[n] = f[n]
        /\ g[m + 1] = lightStep(c, f[m], m)
        /\ g = [n \in 0 .. m + 1 |-> g[n]]
    BY <2>1
  <2>4. \A n \in 0 .. m : f[n] = IF n = 0 THEN start
                                ELSE lightStep(c, f[n - 1], n - 1)
    BY <2>2
  <2> HIDE DEF g
  <2>5. ASSUME NEW n \in 0 .. m + 1
        PROVE  g[n] = IF n = 0 THEN start
                      ELSE lightStep(c, g[n - 1], n - 1)
    <3>1. CASE n = 0
      <4>1. 0 \in 0 .. m
        BY <2>1
      <4> QED BY <2>3, <2>4, <3>1, <4>1
    <3>2. CASE n \in 1 .. m
      <4>1. n \in 0 .. m /\ n - 1 \in 0 .. m /\ n # 0
        BY <2>1, <3>2
      <4>2. g[n] = f[n] /\ g[n - 1] = f[n - 1]
        BY <2>3, <4>1
      <4> QED BY <2>4, <4>1, <4>2
    <3>3. CASE n = m + 1
      <4>1. n # 0 /\ n - 1 = m /\ m \in 0 .. m
        BY <2>1, <3>3
      <4>2. g[n - 1] = f[m]
        BY <2>3, <4>1
      <4> QED BY <2>3, <3>3, <4>1, <4>2
    <3> QED BY <2>1, <3>1, <3>2, <3>3
  <2>6. Runs(g, m + 1)
    BY <2>3, <2>5
  <2> HIDE DEF Runs
  <2> QED BY <2>1, <2>6 DEF T
<1>3. T = Nat
  <2> HIDE DEF T
  <2>1. T \in SUBSET Nat
    BY DEF T
  <2> QED BY <1>1, <1>2, <2>1, Induction
<1>4. PICK f : Runs(f, Size)
  BY <1>3, PowerAssumption
<1> DEFINE scan == lightScan(c)
<1>5. scan = [n \in 0 .. Size |-> IF n = 0 THEN start ELSE lightStep(c, scan[n - 1], n - 1)]
  BY <1>4 DEF lightScan, start
<1> HIDE DEF scan
<1>6. scan[0] = start
  BY <1>5, PowerAssumption
<1>7. ASSUME NEW n \in 0 .. Size - 1
      PROVE  scan[n + 1] = lightStep(c, scan[n], n)
  <2>1. n + 1 \in 0 .. Size /\ n + 1 # 0 /\ (n + 1) - 1 = n
    BY PowerAssumption
  <2> QED BY <1>5, <2>1
<1> QED BY <1>6, <1>7 DEF scan, start

(* The signatures for the commit's hash among the first n. *)
ForBlockIn(c, n) == {i \in 0 .. n - 1 : ForBlock(c.sigs[i])}

(* The loop invariant: what is tallied is the power of the signatures for the
   hash read so far, all of which verify; the loop goes on while that is no
   more than two thirds, and returns "ok" for that reason alone. *)
LightOK(c, n, s) ==
    /\ s \in [tally : Nat, ret : {"", "ok", "wrong signature"}]
    /\ s.ret = "" => /\ s.tally = PowerOf(ForBlockIn(c, n))
                     /\ s.tally <= votingPowerNeeded
                     /\ \A i \in ForBlockIn(c, n) : sigVerifies(c, i, i)
    /\ s.ret = "ok" => \E m \in 0 .. n :
                          /\ PowerOf(ForBlockIn(c, m)) > votingPowerNeeded
                          /\ \A i \in ForBlockIn(c, m) : sigVerifies(c, i, i)
    /\ s.ret = "wrong signature" => \E i \in ForBlockIn(c, n) : ~ sigVerifies(c, i, i)

(* Reading one more signature adds it to those read, if it is for the hash. *)
LEMMA ForBlockInNext ==
    ASSUME NEW c, NEW n \in Nat, n < Size
    PROVE  /\ ForBlockIn(c, n) \in SUBSET Vals
           /\ n \notin ForBlockIn(c, n)
           /\ ForBlockIn(c, n) \subseteq ForBlockIn(c, n + 1)
           /\ ForBlockIn(c, n + 1) = IF ForBlock(c.sigs[n]) THEN ForBlockIn(c, n) \cup {n}
                                     ELSE ForBlockIn(c, n)
BY PowerAssumption DEF ForBlockIn, Vals

(* The loop body keeps the invariant. *)
LEMMA LightStepOK ==
    ASSUME NEW c, NEW n \in Nat, n < Size, NEW s, LightOK(c, n, s)
    PROVE  LightOK(c, n + 1, lightStep(c, s, n))
<1> DEFINE F == ForBlockIn(c, n)
           G == ForBlockIn(c, n + 1)
           t == lightStep(c, s, n)
<1> SUFFICES LightOK(c, n + 1, t)
  OBVIOUS
<1>1. /\ F \in SUBSET Vals /\ n \notin F /\ F \subseteq G
      /\ G = IF ForBlock(c.sigs[n]) THEN F \cup {n} ELSE F
  BY ForBlockInNext
<1>2. n \in Vals /\ Power[n] \in Nat
  BY PowerAssumption DEF Vals
<1>3. PowerOf(F \cup {n}) = PowerOf(F) + Power[n]
  BY <1>1, <1>2, PowerOfAdd
<1>4. votingPowerNeeded \in Nat /\ s.tally \in Nat
  BY NeededType DEF LightOK
<1> HIDE DEF F, G
<1>5. CASE s.ret = "ok"
  <2>1. t = s
    BY <1>5 DEF lightStep
  <2>2. PICK m \in 0 .. n : /\ PowerOf(ForBlockIn(c, m)) > votingPowerNeeded
                            /\ \A i \in ForBlockIn(c, m) : sigVerifies(c, i, i)
    BY <1>5 DEF LightOK
  <2>3. m \in 0 .. n + 1
    OBVIOUS
  <2> HIDE DEF t
  <2> QED BY <1>5, <2>1, <2>2, <2>3 DEF LightOK
<1>6. CASE s.ret = "wrong signature"
  <2>1. t = s
    BY <1>6 DEF lightStep
  <2> HIDE DEF t
  <2> QED BY <1>1, <1>6, <2>1 DEF LightOK, F, G
<1>7. CASE s.ret = "" /\ ~ ForBlock(c.sigs[n])
  <2>1. t = s /\ G = F
    BY <1>1, <1>7 DEF lightStep
  <2> HIDE DEF t
  <2> QED BY <1>7, <2>1 DEF LightOK, F, G
<1>8. CASE s.ret = "" /\ ForBlock(c.sigs[n]) /\ ~ sigVerifies(c, n, n)
  <2>1. t = [s EXCEPT !.ret = "wrong signature"] /\ G = F \cup {n}
    BY <1>1, <1>8 DEF lightStep
  <2>2. t \in [tally : Nat, ret : {"", "ok", "wrong signature"}] /\ t.ret = "wrong signature"
    BY <2>1 DEF LightOK
  <2> HIDE DEF t
  <2> QED BY <1>8, <2>1, <2>2 DEF LightOK, G
<1>9. CASE s.ret = "" /\ ForBlock(c.sigs[n]) /\ sigVerifies(c, n, n)
  <2>1. /\ t = [tally |-> s.tally + Power[n],
                ret   |-> IF s.tally + Power[n] > votingPowerNeeded THEN "ok" ELSE ""]
        /\ G = F \cup {n}
    BY <1>1, <1>9 DEF lightStep
  <2>2. s.tally + Power[n] = PowerOf(G) /\ \A i \in G : sigVerifies(c, i, i)
    BY <1>3, <1>9, <2>1 DEF LightOK, F
  <2>3. CASE s.tally + Power[n] > votingPowerNeeded
    <3>1. t = [tally |-> s.tally + Power[n], ret |-> "ok"] /\ s.tally + Power[n] \in Nat
      BY <1>2, <1>4, <2>1, <2>3
    <3>2. n + 1 \in 0 .. n + 1
      OBVIOUS
    <3> HIDE DEF t
    <3> QED BY <2>2, <2>3, <3>1, <3>2 DEF LightOK, G
  <2>4. CASE ~ (s.tally + Power[n] > votingPowerNeeded)
    <3>1. t = [tally |-> s.tally + Power[n], ret |-> ""]
      BY <2>1, <2>4
    <3>2. s.tally + Power[n] \in Nat /\ s.tally + Power[n] <= votingPowerNeeded
      BY <1>2, <1>4, <2>4
    <3> HIDE DEF t
    <3> QED BY <2>2, <3>1, <3>2 DEF LightOK, G
  <2> QED BY <2>3, <2>4
<1>10. s.ret \in {"", "ok", "wrong signature"}
  BY DEF LightOK
<1> QED BY <1>5, <1>6, <1>7, <1>8, <1>9, <1>10

(* The invariant holds after any number of signatures. *)
LEMMA LightScanOK ==
    ASSUME NEW c
    PROVE  \A n \in 0 .. Size : LightOK(c, n, lightScan(c)[n])
<1> DEFINE P(n) == n <= Size => LightOK(c, n, lightScan(c)[n])
           T    == {n \in Nat : P(n)}
<1>1. 0 \in T
  <2>1. lightScan(c)[0] = [tally |-> 0, ret |-> ""]
    BY LightScanSteps
  <2>2. ForBlockIn(c, 0) = {}
    BY DEF ForBlockIn
  <2>3. votingPowerNeeded \in Nat
    BY NeededType
  <2>4. LightOK(c, 0, [tally |-> 0, ret |-> ""])
    BY <2>2, <2>3, PowerOfEmpty DEF LightOK
  <2> QED BY <2>1, <2>4
<1>2. ASSUME NEW n \in T PROVE n + 1 \in T
  <2>1. n \in Nat /\ P(n)
    OBVIOUS
  <2>2. CASE n < Size
    <3>1. lightScan(c)[n + 1] = lightStep(c, lightScan(c)[n], n)
      <4>1. n \in 0 .. Size - 1
        BY <2>1, <2>2, PowerAssumption
      <4> HIDE DEF T
      <4> QED BY <4>1, LightScanSteps
    <3>2. LightOK(c, n, lightScan(c)[n])
      BY <2>1, <2>2, PowerAssumption
    <3>3. LightOK(c, n + 1, lightScan(c)[n + 1])
      BY <2>1, <2>2, <3>1, <3>2, LightStepOK
    <3> QED BY <2>1, <3>3
  <2>3. CASE ~ (n < Size)
    BY <2>1, <2>3, PowerAssumption
  <2> QED BY <2>2, <2>3
<1>3. T = Nat
  <2> HIDE DEF T
  <2>1. T \in SUBSET Nat
    BY DEF T
  <2> QED BY <1>1, <1>2, <2>1, Induction
<1> QED BY <1>3, PowerAssumption

(* What VerifyCommitLight accepts has valid signatures for the wanted hash, at
   their own places, with a quorum of the power. *)
THEOREM LightAccepted ==
    ASSUME NEW c, NEW hash, VerifyCommitLight(hash, c) = "ok"
    PROVE  /\ c.hash = hash
           /\ DOMAIN c.sigs = Vals
           /\ \E S \in SUBSET Vals :
                 /\ PowerOf(S) >= Quorum
                 /\ \A i \in S : ForBlock(c.sigs[i]) /\ sigVerifies(c, i, i)
<1>1. c.hash = hash /\ DOMAIN c.sigs = Vals /\ lightScan(c)[Size].ret = "ok"
  BY DEF VerifyCommitLight
<1>2. Size \in 0 .. Size
  BY PowerAssumption
<1>3. PICK m \in 0 .. Size : /\ PowerOf(ForBlockIn(c, m)) > votingPowerNeeded
                             /\ \A i \in ForBlockIn(c, m) : sigVerifies(c, i, i)
  <2>1. LightOK(c, Size, lightScan(c)[Size])
    BY <1>2, LightScanOK
  <2> QED BY <1>1, <2>1 DEF LightOK
<1>4. /\ ForBlockIn(c, m) \in SUBSET Vals
      /\ \A i \in ForBlockIn(c, m) : ForBlock(c.sigs[i])
  BY PowerAssumption DEF ForBlockIn, Vals
<1>5. PowerOf(ForBlockIn(c, m)) >= Quorum
  <2>1. PowerOf(ForBlockIn(c, m)) \in Nat
    BY <1>4, UnitsFinite
  <2> QED BY <1>3, <2>1, QuorumIsTwoThirds DEF votingPowerNeeded
<1> QED BY <1>1, <1>3, <1>4, <1>5

(* Likewise VerifyCommit. *)
THEOREM FullAccepted ==
    ASSUME NEW c, NEW hash, VerifyCommit(hash, c) = "ok"
    PROVE  /\ c.hash = hash
           /\ DOMAIN c.sigs = Vals
           /\ \A i \in Vals : ~ Absent(c.sigs[i]) =>
                 sigVerifies(c, i, i) /\ ~ UnknownFlag(c.sigs[i])
           /\ \A i \in Vals : ForBlock(c.sigs[i]) => ~ Absent(c.sigs[i])
           /\ PowerOf({i \in Vals : ForBlock(c.sigs[i])}) > votingPowerNeeded
           /\ PowerOf({i \in Vals : ForBlock(c.sigs[i])}) >= Quorum
<1> DEFINE S == {i \in Vals : ForBlock(c.sigs[i])}
<1>1. /\ c.hash = hash /\ DOMAIN c.sigs = Vals
      /\ \A i \in Vals : ~ Absent(c.sigs[i]) =>
            sigVerifies(c, i, i) /\ ~ UnknownFlag(c.sigs[i])
      /\ ~ (PowerOf(S) <= votingPowerNeeded)
  BY DEF VerifyCommit, badSlots
<1>2. \A i \in Vals : ForBlock(c.sigs[i]) => ~ Absent(c.sigs[i])
  BY DEF ForBlock, Absent
<1>3. S \in SUBSET Vals
  OBVIOUS
<1> HIDE DEF S
<1>4. PowerOf(S) \in Nat /\ votingPowerNeeded \in Nat
  BY <1>3, UnitsFinite, NeededType
<1>5. PowerOf(S) > votingPowerNeeded
  BY <1>1, <1>4
<1>6. PowerOf(S) >= Quorum
  BY <1>4, <1>5, QuorumIsTwoThirds DEF votingPowerNeeded
<1> QED BY <1>1, <1>2, <1>5, <1>6 DEF S

(* All signatures are read in the end. *)
LEMMA AllRead ==
    ASSUME NEW c
    PROVE  ForBlockIn(c, Size) = {i \in Vals : ForBlock(c.sigs[i])}
BY PowerAssumption DEF ForBlockIn, Vals

(* What the full verifier accepts, the light one accepts: no signature it reads
   is wrong, and the last one at the latest takes it over the threshold. *)
THEOREM LightFollowsFull ==
    ASSUME NEW c, NEW hash, VerifyCommit(hash, c) = "ok"
    PROVE  VerifyCommitLight(hash, c) = "ok"
<1> DEFINE last == lightScan(c)[Size]
<1>1. Size \in 0 .. Size
  BY PowerAssumption
<1>2. LightOK(c, Size, last)
  BY <1>1, LightScanOK
<1>3. /\ c.hash = hash /\ DOMAIN c.sigs = Vals
      /\ \A i \in ForBlockIn(c, Size) : sigVerifies(c, i, i)
      /\ PowerOf(ForBlockIn(c, Size)) > votingPowerNeeded
      /\ ForBlockIn(c, Size) \in SUBSET Vals
  BY AllRead, FullAccepted
<1>4. PowerOf(ForBlockIn(c, Size)) \in Nat /\ votingPowerNeeded \in Nat
  BY <1>3, UnitsFinite, NeededType
<1> HIDE DEF last
<1>5. last.ret = "ok"
  <2>1. last.ret \in {"", "ok", "wrong signature"}
    BY <1>2 DEF LightOK
  <2>2. last.ret # "wrong signature"
    BY <1>2, <1>3 DEF LightOK
  <2>3. last.ret = "" => PowerOf(ForBlockIn(c, Size)) <= votingPowerNeeded
    BY <1>2 DEF LightOK
  <2>4. ~ (PowerOf(ForBlockIn(c, Size)) <= votingPowerNeeded)
    BY <1>3, <1>4
  <2> QED BY <2>1, <2>2, <2>3, <2>4
<1> QED BY <1>3, <1>5 DEF VerifyCommitLight, last

(* A set of natural numbers that is not empty has a least one. *)
LEMMA LeastExists ==
    ASSUME NEW n \in Nat, NEW S \in SUBSET (0 .. n - 1), S # {}
    PROVE  \E i \in S : \A j \in S : i <= j
<1> DEFINE T == {m \in Nat : (\E i \in S : i <= m) => \E i \in S : \A j \in S : i <= j}
<1>1. 0 \in T
  <2>1. ASSUME NEW i \in S, i <= 0 PROVE \A j \in S : i <= j
    BY <2>1
  <2> QED BY <2>1
<1>2. ASSUME NEW m \in T PROVE m + 1 \in T
  <2>0. m \in Nat /\ ((\E i \in S : i <= m) => \E i \in S : \A j \in S : i <= j)
    OBVIOUS
  <2>1. ASSUME NEW i \in S, i <= m + 1, ~ \E k \in S : k <= m
        PROVE  \A j \in S : i <= j
    BY <2>0, <2>1
  <2> QED BY <2>0, <2>1
<1>3. T = Nat
  <2> HIDE DEF T
  <2>1. T \in SUBSET Nat
    BY DEF T
  <2> QED BY <1>1, <1>2, <2>1, Induction
<1>4. n \in T
  BY <1>3
<1>5. \E i \in S : i <= n
  <2>1. PICK i \in S : TRUE
    OBVIOUS
  <2>2. i \in 0 .. n - 1
    BY <2>1
  <2> QED BY <2>1, <2>2
<1> QED BY <1>4, <1>5

(* What the light verifier accepts, the full one never finds too little power
   for: reading on, it can only count more, or meet a wrong signature or an
   unknown flag. *)
THEOREM FullFollowsLight ==
    ASSUME NEW c, NEW hash, VerifyCommitLight(hash, c) = "ok"
    PROVE  VerifyCommit(hash, c) \in {"ok", "wrong signature", "panic"}
<1> DEFINE A == {i \in Vals : ForBlock(c.sigs[i])}
<1>1. PICK S \in SUBSET Vals :
         /\ PowerOf(S) >= Quorum
         /\ \A i \in S : ForBlock(c.sigs[i]) /\ sigVerifies(c, i, i)
  BY LightAccepted
<1>2. c.hash = hash /\ DOMAIN c.sigs = Vals
  BY LightAccepted
<1>3. A \in SUBSET Vals /\ S \in SUBSET A
  BY <1>1
<1> HIDE DEF A
<1>4. /\ PowerOf(S) <= PowerOf(A) /\ PowerOf(S) \in Nat /\ PowerOf(A) \in Nat
      /\ Quorum \in Nat /\ votingPowerNeeded \in Nat
  BY <1>3, PowerOfMonotone, UnitsFinite, TotalType, NeededType
<1>5. PowerOf(A) >= Quorum
  BY <1>1, <1>4
<1>6. PowerOf(A) > votingPowerNeeded
  BY <1>4, <1>5, QuorumIsTwoThirds DEF votingPowerNeeded
<1>7. ~ (PowerOf(A) <= votingPowerNeeded)
  BY <1>4, <1>6
<1> QED BY <1>2, <1>7 DEF VerifyCommit, A

(* The full verifier panics on an unknown flag only, and so on no commit that has
   passed ValidateBasic. *)
THEOREM ValidatedIsReadable ==
    ASSUME NEW c, NEW hash, ValidateBasic(c) = "ok"
    PROVE  VerifyCommit(hash, c) # "panic"
<1>1. \A i \in DOMAIN c.sigs : ~ UnknownFlag(c.sigs[i])
  BY DEF ValidateBasic, sigValid
<1>2. CASE DOMAIN c.sigs # Vals \/ hash # c.hash \/ badSlots(c) = {}
  BY <1>2 DEF VerifyCommit
<1>3. CASE DOMAIN c.sigs = Vals /\ hash = c.hash /\ badSlots(c) # {}
  <2>1. badSlots(c) \in SUBSET (0 .. Size - 1) /\ Size \in Nat
    BY PowerAssumption DEF badSlots, Vals
  <2>2. \E i \in badSlots(c) : \A j \in badSlots(c) : i <= j
    BY <1>3, <2>1, LeastExists
  <2>3. firstBadSlot(c) \in badSlots(c)
    BY <2>2 DEF firstBadSlot
  <2>4. ~ UnknownFlag(c.sigs[firstBadSlot(c)])
    BY <1>1, <1>3, <2>3 DEF badSlots
  <2> QED BY <1>3, <2>4 DEF VerifyCommit
<1> QED BY <1>2, <1>3

-----------------------------------------------------------------------------
(* VerifyCommitLightTrusting. *)

(* Its first state and its steps. *)
LEMMA TrustingScanSteps ==
    ASSUME NEW c, NEW needed, numSigs(c) \in Nat
    PROVE  /\ trustingScan(c, needed)[0] = [tally |-> 0, seen |-> {}, ret |-> ""]
           /\ \A n \in 0 .. numSigs(c) - 1 :
                 trustingScan(c, needed)[n + 1]
                    = trustingStep(c, needed, trustingScan(c, needed)[n], n)
<1> DEFINE start == [tally |-> 0, seen |-> {}, ret |-> ""]
           Runs(f, m) == f = [n \in 0 .. m |-> IF n = 0 THEN start
                                             ELSE trustingStep(c, needed, f[n - 1], n - 1)]
           T == {m \in Nat : \E f : Runs(f, m)}
<1> HIDE DEF start
<1>1. 0 \in T
  <2>1. Runs([n \in 0 .. 0 |-> start], 0)
    OBVIOUS
  <2> QED BY <2>1
<1>2. ASSUME NEW m \in T PROVE m + 1 \in T
  <2>1. m \in Nat
    OBVIOUS
  <2>2. PICK f : Runs(f, m)
    OBVIOUS
  <2> HIDE DEF T
  <2> DEFINE g == [n \in 0 .. m + 1 |-> IF n <= m THEN f[n]
                                        ELSE trustingStep(c, needed, f[m], m)]
  <2>3. /\ \A n \in 0 .. m : g[n] = f[n]
        /\ g[m + 1] = trustingStep(c, needed, f[m], m)
        /\ g = [n \in 0 .. m + 1 |-> g[n]]
    BY <2>1
  <2>4. \A n \in 0 .. m : f[n] = IF n = 0 THEN start
                                ELSE trustingStep(c, needed, f[n - 1], n - 1)
    BY <2>2
  <2> HIDE DEF g
  <2>5. ASSUME NEW n \in 0 .. m + 1
        PROVE  g[n] = IF n = 0 THEN start
                      ELSE trustingStep(c, needed, g[n - 1], n - 1)
    <3>1. CASE n = 0
      <4>1. 0 \in 0 .. m
        BY <2>1
      <4> QED BY <2>3, <2>4, <3>1, <4>1
    <3>2. CASE n \in 1 .. m
      <4>1. n \in 0 .. m /\ n - 1 \in 0 .. m /\ n # 0
        BY <2>1, <3>2
      <4>2. g[n] = f[n] /\ g[n - 1] = f[n - 1]
        BY <2>3, <4>1
      <4> QED BY <2>4, <4>1, <4>2
    <3>3. CASE n = m + 1
      <4>1. n # 0 /\ n - 1 = m /\ m \in 0 .. m
        BY <2>1, <3>3
      <4>2. g[n - 1] = f[m]
        BY <2>3, <4>1
      <4> QED BY <2>3, <3>3, <4>1, <4>2
    <3> QED BY <2>1, <3>1, <3>2, <3>3
  <2>6. Runs(g, m + 1)
    BY <2>3, <2>5
  <2> HIDE DEF Runs
  <2> QED BY <2>1, <2>6 DEF T
<1>3. T = Nat
  <2> HIDE DEF T
  <2>1. T \in SUBSET Nat
    BY DEF T
  <2> QED BY <1>1, <1>2, <2>1, Induction
<1>4. PICK f : Runs(f, numSigs(c))
  BY <1>3
<1> DEFINE scan == trustingScan(c, needed)
<1>5. scan = [n \in 0 .. numSigs(c) |-> IF n = 0 THEN start
                                      ELSE trustingStep(c, needed, scan[n - 1], n - 1)]
  BY <1>4 DEF trustingScan, start
<1> HIDE DEF scan
<1>6. scan[0] = start
  BY <1>5
<1>7. ASSUME NEW n \in 0 .. numSigs(c) - 1
      PROVE  scan[n + 1] = trustingStep(c, needed, scan[n], n)
  <2>1. n + 1 \in 0 .. numSigs(c) /\ n + 1 # 0 /\ (n + 1) - 1 = n
    OBVIOUS
  <2> QED BY <1>5, <2>1
<1> QED BY <1>6, <1>7 DEF scan, start

(* Signature i is for the hash, under the address of proposer p. *)
Claims(c, i, p) == ForBlock(c.sigs[i]) /\ c.sigs[i].addr = p

TrustingState ==
    [tally : Nat, seen : SUBSET Vals, ret : {"", "ok", "double vote", "wrong signature"}]

(* The loop invariant.  What is tallied is the power of the proposers seen,
   each of which has a valid signature among those read; while the loop goes on
   nobody who claims to have signed has been passed over. *)
TrustingOK(c, needed, n, s) ==
    /\ s \in TrustingState
    /\ s.tally = PowerOf(s.seen)
    /\ \A p \in s.seen : \E i \in 0 .. n - 1 : Claims(c, i, p) /\ sigVerifies(c, i, p)
    /\ s.ret = "ok" => s.tally > needed
    /\ s.ret = "" => /\ s.tally <= needed
                     /\ \A p \in Vals : \A i \in 0 .. n - 1 : Claims(c, i, p) => p \in s.seen
    /\ s.ret = "double vote" =>
          \E p \in Vals : \E i, j \in 0 .. n - 1 : i # j /\ Claims(c, i, p) /\ Claims(c, j, p)
    /\ s.ret = "wrong signature" =>
          \E p \in Vals : \E i \in 0 .. n - 1 : Claims(c, i, p) /\ ~ sigVerifies(c, i, p)

(* The loop body keeps the invariant. *)
LEMMA TrustingStepOK ==
    ASSUME NEW c, NEW needed \in Nat, NEW n \in Nat, NEW s, TrustingOK(c, needed, n, s)
    PROVE  TrustingOK(c, needed, n + 1, trustingStep(c, needed, s, n))
<1> DEFINE t == trustingStep(c, needed, s, n)
           q == c.sigs[n].addr
<1> SUFFICES TrustingOK(c, needed, n + 1, t)
  OBVIOUS
<1>1. n \in 0 .. (n + 1) - 1 /\ \A i \in 0 .. n - 1 : i \in 0 .. (n + 1) - 1 /\ i # n
  OBVIOUS
<1>2. \A i \in 0 .. (n + 1) - 1 : i \in 0 .. n - 1 \/ i = n
  OBVIOUS
<1>3. s \in TrustingState
  BY DEF TrustingOK
<1>4. CASE s.ret # "" \/ ~ ForBlock(c.sigs[n]) \/ q \notin Vals
  <2>1. t = s
    BY <1>4 DEF trustingStep
  <2>2. s.ret = "" => \A p \in Vals : ~ Claims(c, n, p)
    BY <1>4 DEF Claims
  <2>3. \A p \in s.seen : \E i \in 0 .. (n + 1) - 1 : Claims(c, i, p) /\ sigVerifies(c, i, p)
    BY <1>1 DEF TrustingOK
  <2>4. s.ret = "" => \A p \in Vals : \A i \in 0 .. (n + 1) - 1 : Claims(c, i, p) => p \in s.seen
    BY <1>2, <2>2 DEF TrustingOK
  <2>5. s.ret = "double vote" =>
           \E p \in Vals : \E i, j \in 0 .. (n + 1) - 1 :
              i # j /\ Claims(c, i, p) /\ Claims(c, j, p)
    BY <1>1 DEF TrustingOK
  <2>6. s.ret = "wrong signature" =>
           \E p \in Vals : \E i \in 0 .. (n + 1) - 1 : Claims(c, i, p) /\ ~ sigVerifies(c, i, p)
    BY <1>1 DEF TrustingOK
  <2>7. /\ s.tally = PowerOf(s.seen)
        /\ s.ret = "ok" => s.tally > needed
        /\ s.ret = "" => s.tally <= needed
    BY DEF TrustingOK
  <2> HIDE DEF t
  <2> QED BY <1>3, <2>1, <2>3, <2>4, <2>5, <2>6, <2>7 DEF TrustingOK
<1>5. CASE s.ret = "" /\ ForBlock(c.sigs[n]) /\ q \in Vals /\ q \in s.seen
  <2>1. t = [s EXCEPT !.ret = "double vote"]
    BY <1>5 DEF trustingStep
  <2>2. PICK i \in 0 .. n - 1 : Claims(c, i, q)
    BY <1>5 DEF TrustingOK
  <2>3. Claims(c, n, q)
    BY <1>5 DEF Claims
  <2>4. \E p \in Vals : \E k, j \in 0 .. (n + 1) - 1 : k # j /\ Claims(c, k, p) /\ Claims(c, j, p)
    BY <1>1, <1>5, <2>2, <2>3
  <2>5. /\ t \in TrustingState /\ t.ret = "double vote" /\ t.seen = s.seen /\ t.tally = s.tally
    BY <1>3, <2>1 DEF TrustingState
  <2>6. /\ s.tally = PowerOf(s.seen)
        /\ \A p \in s.seen : \E k \in 0 .. (n + 1) - 1 : Claims(c, k, p) /\ sigVerifies(c, k, p)
    BY <1>1 DEF TrustingOK
  <2> HIDE DEF t
  <2> QED BY <2>4, <2>5, <2>6 DEF TrustingOK
<1>6. CASE /\ s.ret = "" /\ ForBlock(c.sigs[n]) /\ q \in Vals /\ q \notin s.seen
           /\ ~ sigVerifies(c, n, q)
  <2>1. t = [s EXCEPT !.ret = "wrong signature"]
    BY <1>6 DEF trustingStep
  <2>2. \E p \in Vals : \E i \in 0 .. (n + 1) - 1 : Claims(c, i, p) /\ ~ sigVerifies(c, i, p)
    BY <1>1, <1>6 DEF Claims
  <2>3. /\ t \in TrustingState /\ t.ret = "wrong signature" /\ t.seen = s.seen /\ t.tally = s.tally
    BY <1>3, <2>1 DEF TrustingState
  <2>4. /\ s.tally = PowerOf(s.seen)
        /\ \A p \in s.seen : \E i \in 0 .. (n + 1) - 1 : Claims(c, i, p) /\ sigVerifies(c, i, p)
    BY <1>1 DEF TrustingOK
  <2> HIDE DEF t
  <2> QED BY <2>2, <2>3, <2>4 DEF TrustingOK
<1>7. CASE /\ s.ret = "" /\ ForBlock(c.sigs[n]) /\ q \in Vals /\ q \notin s.seen
           /\ sigVerifies(c, n, q)
  <2> DEFINE x == s.tally + Power[q]
             S == s.seen \cup {q}
  <2>1. t = [tally |-> x, seen |-> S, ret |-> IF x > needed THEN "ok" ELSE ""]
    BY <1>7 DEF trustingStep
  <2>2. Power[q] \in Nat /\ s.tally \in Nat /\ s.seen \in SUBSET Vals /\ s.tally = PowerOf(s.seen)
    BY <1>3, <1>7, PowerAssumption DEF TrustingState, TrustingOK
  <2>3. x \in Nat /\ x = PowerOf(S) /\ S \in SUBSET Vals
    <3>1. PowerOf(S) = PowerOf(s.seen) + Power[q]
      BY <1>7, <2>2, PowerOfAdd
    <3>2. S \in SUBSET Vals
      BY <1>7, <2>2
    <3> HIDE DEF S
    <3> QED BY <2>2, <3>1, <3>2
  <2>4. Claims(c, n, q)
    BY <1>7 DEF Claims
  <2>5. \A p \in S : \E i \in 0 .. (n + 1) - 1 : Claims(c, i, p) /\ sigVerifies(c, i, p)
    BY <1>1, <1>7, <2>4 DEF TrustingOK
  <2>6. \A p \in Vals : \A i \in 0 .. (n + 1) - 1 : Claims(c, i, p) => p \in S
    <3> SUFFICES ASSUME NEW p \in Vals, NEW i \in 0 .. (n + 1) - 1, Claims(c, i, p)
                 PROVE  p \in S
      OBVIOUS
    <3>1. CASE i \in 0 .. n - 1
      BY <1>7, <3>1 DEF TrustingOK
    <3>2. CASE i = n
      BY <3>2 DEF Claims
    <3> QED BY <1>2, <3>1, <3>2
  <2> HIDE DEF x, S
  <2>7. CASE x > needed
    <3>1. t = [tally |-> x, seen |-> S, ret |-> "ok"]
      BY <2>1, <2>7
    <3>2. t \in TrustingState
      <4> HIDE DEF t
      <4> QED BY <2>3, <3>1 DEF TrustingState
    <3> HIDE DEF t
    <3> QED BY <2>3, <2>5, <2>7, <3>1, <3>2 DEF TrustingOK
  <2>8. CASE ~ (x > needed)
    <3>1. t = [tally |-> x, seen |-> S, ret |-> ""]
      BY <2>1, <2>8
    <3>2. t \in TrustingState
      <4> HIDE DEF t
      <4> QED BY <2>3, <3>1 DEF TrustingState
    <3>3. x <= needed
      BY <2>3, <2>8
    <3> HIDE DEF t
    <3> QED BY <2>3, <2>5, <2>6, <3>1, <3>2, <3>3 DEF TrustingOK
  <2> QED BY <2>7, <2>8
<1> QED BY <1>4, <1>5, <1>6, <1>7

(* The invariant holds after any number of signatures. *)
LEMMA TrustingScanOK ==
    ASSUME NEW c, NEW needed \in Nat, numSigs(c) \in Nat
    PROVE  \A n \in 0 .. numSigs(c) : TrustingOK(c, needed, n, trustingScan(c, needed)[n])
<1> DEFINE P(n) == n <= numSigs(c) => TrustingOK(c, needed, n, trustingScan(c, needed)[n])
           T    == {n \in Nat : P(n)}
<1>1. 0 \in T
  <2>1. trustingScan(c, needed)[0] = [tally |-> 0, seen |-> {}, ret |-> ""]
    BY TrustingScanSteps
  <2>2. 0 .. 0 - 1 = {}
    OBVIOUS
  <2>3. TrustingOK(c, needed, 0, [tally |-> 0, seen |-> {}, ret |-> ""])
    BY <2>2, PowerOfEmpty DEF TrustingOK, TrustingState
  <2> QED BY <2>1, <2>3
<1>2. ASSUME NEW n \in T PROVE n + 1 \in T
  <2>1. n \in Nat /\ P(n)
    OBVIOUS
  <2>2. CASE n < numSigs(c)
    <3>1. trustingScan(c, needed)[n + 1] = trustingStep(c, needed, trustingScan(c, needed)[n], n)
      <4>1. n \in 0 .. numSigs(c) - 1
        BY <2>1, <2>2
      <4> HIDE DEF T
      <4> QED BY <4>1, TrustingScanSteps
    <3>2. TrustingOK(c, needed, n, trustingScan(c, needed)[n])
      BY <2>1, <2>2
    <3>3. TrustingOK(c, needed, n + 1, trustingScan(c, needed)[n + 1])
      BY <2>1, <3>1, <3>2, TrustingStepOK
    <3> QED BY <2>1, <3>3
  <2>3. CASE ~ (n < numSigs(c))
    BY <2>1, <2>3
  <2> QED BY <2>2, <2>3
<1>3. T = Nat
  <2> HIDE DEF T
  <2>1. T \in SUBSET Nat
    BY DEF T
  <2> QED BY <1>1, <1>2, <2>1, Induction
<1> QED BY <1>3

(* A number above a share of the total, rounded down, is above the share. *)
LEMMA AboveShare ==
    ASSUME NEW x \in Nat, NEW a \in Nat, NEW d \in Nat, d # 0, x > a \div d
    PROVE  x * d > a
<1> DEFINE q == a \div d
<1>1. q \in Nat /\ a < d * (q + 1)
  OBVIOUS
<1> HIDE DEF q
<1>2. x >= q + 1
  BY <1>1 DEF q
<1>3. d * x >= d * (q + 1)
  BY <1>1, <1>2
<1> QED BY <1>1, <1>3

(* What is accepted at a trust level carries valid signatures for its hash of
   proposers of this set with more than that share of the power. *)
THEOREM TrustingAccepted ==
    ASSUME NEW c, NEW num \in Nat, NEW den \in Nat, numSigs(c) \in Nat,
           VerifyCommitLightTrusting(c, num, den) = "ok"
    PROVE  \E S \in SUBSET Vals :
              /\ PowerOf(S) * den > TotalVotingPower * num
              /\ \A p \in S : \E i \in 0 .. numSigs(c) - 1 :
                    ForBlock(c.sigs[i]) /\ sigVerifies(c, i, p)
<1> DEFINE needed == (TotalVotingPower * num) \div den
           last   == trustingScan(c, needed)[numSigs(c)]
<1>1. den # 0 /\ last.ret = "ok"
  BY DEF VerifyCommitLightTrusting
<1>2. TotalVotingPower * num \in Nat
  BY TotalType
<1>3. needed \in Nat
  BY <1>1, <1>2
<1> HIDE DEF needed
<1>4. TrustingOK(c, needed, numSigs(c), last)
  BY <1>3, TrustingScanOK
<1> HIDE DEF last
<1>5. last.seen \in SUBSET Vals /\ PowerOf(last.seen) > needed
  BY <1>1, <1>4 DEF TrustingOK, TrustingState
<1>6. PowerOf(last.seen) * den > TotalVotingPower * num
  <2>1. PowerOf(last.seen) \in Nat
    BY <1>5, UnitsFinite
  <2> QED BY <1>1, <1>2, <1>5, <2>1, AboveShare DEF needed
<1>7. \A p \in last.seen : \E i \in 0 .. numSigs(c) - 1 :
         ForBlock(c.sigs[i]) /\ sigVerifies(c, i, p)
  BY <1>4 DEF TrustingOK, Claims
<1> QED BY <1>5, <1>6, <1>7

(* A fully verified commit whose signatures carry the addresses of their places
   is accepted at a trust level of two thirds: nobody is met twice. *)
THEOREM TrustingFollowsFull ==
    ASSUME NEW c, NEW hash, VerifyCommit(hash, c) = "ok",
           \A i \in Vals : ~ Absent(c.sigs[i]) => c.sigs[i].addr = i
    PROVE  VerifyCommitLightTrusting(c, 2, 3) = "ok"
<1> DEFINE last == trustingScan(c, votingPowerNeeded)[numSigs(c)]
           A    == {i \in Vals : ForBlock(c.sigs[i])}
<1>1. /\ DOMAIN c.sigs = Vals
      /\ \A i \in Vals : ForBlock(c.sigs[i]) => c.sigs[i].addr = i /\ sigVerifies(c, i, i)
      /\ PowerOf(A) > votingPowerNeeded
  BY FullAccepted
<1>2. numSigs(c) = Size /\ Size \in Nat /\ Vals = 0 .. numSigs(c) - 1
  <2>1. Cardinality(0 .. Size - 1) = Size
    BY PowerAssumption, FS_Interval
  <2> QED BY <1>1, <2>1, PowerAssumption DEF numSigs, Vals
<1>3. TrustingOK(c, votingPowerNeeded, numSigs(c), last)
  BY <1>2, NeededType, TrustingScanOK
<1> HIDE DEF last
<1>4. last.ret # "double vote" /\ last.ret # "wrong signature"
  <2>1. \A i \in 0 .. numSigs(c) - 1 : \A p : Claims(c, i, p) => p = i /\ sigVerifies(c, i, p)
    BY <1>1, <1>2 DEF Claims
  <2>2. last.ret = "double vote" =>
           \E p \in Vals : \E i, j \in 0 .. numSigs(c) - 1 :
               i # j /\ Claims(c, i, p) /\ Claims(c, j, p)
    BY <1>3, Zenon DEF TrustingOK
  <2>3. last.ret = "wrong signature" =>
           \E p \in Vals : \E i \in 0 .. numSigs(c) - 1 :
               Claims(c, i, p) /\ ~ sigVerifies(c, i, p)
    BY <1>3, Zenon DEF TrustingOK
  <2>4. ASSUME NEW p \in Vals, NEW i \in 0 .. numSigs(c) - 1, NEW j \in 0 .. numSigs(c) - 1,
               i # j, Claims(c, i, p), Claims(c, j, p)
        PROVE  FALSE
    BY <2>1, <2>4, Zenon
  <2>5. ASSUME NEW p \in Vals, NEW i \in 0 .. numSigs(c) - 1,
               Claims(c, i, p), ~ sigVerifies(c, i, p)
        PROVE  FALSE
    BY <2>1, <2>5, Zenon
  <2> QED BY <2>2, <2>3, <2>4, <2>5, Zenon
<1>5. last.ret # ""
  <2> SUFFICES ASSUME last.ret = "" PROVE FALSE
    OBVIOUS
  <2>1. A \in SUBSET last.seen /\ last.seen \in SUBSET Vals
    BY <1>1, <1>2, <1>3 DEF TrustingOK, TrustingState, Claims
  <2>2. PowerOf(last.seen) <= votingPowerNeeded
    BY <1>3 DEF TrustingOK
  <2> QED BY <1>1, <2>1, <2>2, MoreThanNeeded
<1>6. last.ret = "ok"
  BY <1>3, <1>4, <1>5 DEF TrustingOK, TrustingState
<1>7. /\ 3 # 0
      /\ last = trustingScan(c, (TotalVotingPower * 2) \div 3)[numSigs(c)]
  BY DEF last, votingPowerNeeded
<1> QED BY <1>6, <1>7, Zenon DEF VerifyCommitLightTrusting

-----------------------------------------------------------------------------
(* CommitToVoteSet. *)

(* The loop starts with an empty vote set; its steps. *)
LEMMA RebuildScanSteps ==
    ASSUME NEW c, numSigs(c) \in Nat
    PROVE  /\ rebuildScan(c)[0] = [vs |-> NewVoteSet("precommit"), panics |-> FALSE]
           /\ \A n \in 0 .. numSigs(c) - 1 :
                 rebuildScan(c)[n + 1] = rebuildStep(c, rebuildScan(c)[n], n)
<1> DEFINE start == [vs |-> NewVoteSet("precommit"), panics |-> FALSE]
           Runs(f, m) == f = [n \in 0 .. m |-> IF n = 0 THEN start
                                             ELSE rebuildStep(c, f[n - 1], n - 1)]
           T == {m \in Nat : \E f : Runs(f, m)}
<1> HIDE DEF start
<1>1. 0 \in T
  <2>1. Runs([n \in 0 .. 0 |-> start], 0)
    OBVIOUS
  <2> QED BY <2>1
<1>2. ASSUME NEW m \in T PROVE m + 1 \in T
  <2>1. m \in Nat
    OBVIOUS
  <2>2. PICK f : Runs(f, m)
    OBVIOUS
  <2> HIDE DEF T
  <2> DEFINE g == [n \in 0 .. m + 1 |-> IF n <= m THEN f[n]
                                        ELSE rebuildStep(c, f[m], m)]
  <2>3. /\ \A n \in 0 .. m : g[n] = f[n]
        /\ g[m + 1] = rebuildStep(c, f[m], m)
        /\ g = [n \in 0 .. m + 1 |-> g[n]]
    BY <2>1
  <2>4. \A n \in 0 .. m : f[n] = IF n = 0 THEN start
                                ELSE rebuildStep(c, f[n - 1], n - 1)
    BY <2>2
  <2> HIDE DEF g
  <2>5. ASSUME NEW n \in 0 .. m + 1
        PROVE  g[n] = IF n = 0 THEN start
                      ELSE rebuildStep(c, g[n - 1], n - 1)
    <3>1. CASE n = 0
      <4>1. 0 \in 0 .. m
        BY <2>1
      <4> QED BY <2>3, <2>4, <3>1, <4>1
    <3>2. CASE n \in 1 .. m
      <4>1. n \in 0 .. m /\ n - 1 \in 0 .. m /\ n # 0
        BY <2>1, <3>2
      <4>2. g[n] = f[n] /\ g[n - 1] = f[n - 1]
        BY <2>3, <4>1
      <4> QED BY <2>4, <4>1, <4>2
    <3>3. CASE n = m + 1
      <4>1. n # 0 /\ n - 1 = m /\ m \in 0 .. m
        BY <2>1, <3>3
      <4>2. g[n - 1] = f[m]
        BY <2>3, <4>1
      <4> QED BY <2>3, <3>3, <4>1, <4>2
    <3> QED BY <2>1, <3>1, <3>2, <3>3
  <2>6. Runs(g, m + 1)
    BY <2>3, <2>5
  <2> HIDE DEF Runs
  <2> QED BY <2>1, <2>6 DEF T
<1>3. T = Nat
  <2> HIDE DEF T
  <2>1. T \in SUBSET Nat
    BY DEF T
  <2> QED BY <1>1, <1>2, <2>1, Induction
<1>4. PICK f : Runs(f, numSigs(c))
  BY <1>3
<1> DEFINE scan == rebuildScan(c)
<1>5. scan = [n \in 0 .. numSigs(c) |-> IF n = 0 THEN start
                                      ELSE rebuildStep(c, scan[n - 1], n - 1)]
  BY <1>4 DEF rebuildScan, start
<1> HIDE DEF scan
<1>6. scan[0] = start
  BY <1>5
<1>7. ASSUME NEW n \in 0 .. numSigs(c) - 1
      PROVE  scan[n + 1] = rebuildStep(c, scan[n], n)
  <2>1. n + 1 \in 0 .. numSigs(c) /\ n + 1 # 0 /\ (n + 1) - 1 = n
    OBVIOUS
  <2> QED BY <1>5, <2>1
<1> QED BY <1>6, <1>7 DEF scan, start

(* Every proposer has voted at most once, and its vote is filed under its
   block. *)
OneVoteEach(s) ==
    \A k \in Keys : \A i \in Vals :
        s.votesByBlock[k].votes[i] =
            IF s.votes[i] # NoVote /\ s.votes[i].block = k THEN s.votes[i] ELSE NoVote

(* A proposer's first vote is recorded and filed, and a majority that it
   completes finds every canonical vote in place. *)
LEMMA FirstVoteFiled ==
    ASSUME NEW s, NEW v, VoteSetInv(s), Fresh(s, v), OneVoteEach(s),
           s.votes[v.index] = NoVote
    PROVE  /\ addVerifiedVote(s, v).votes = [s.votes EXCEPT ![v.index] = v]
           /\ OneVoteEach(addVerifiedVote(s, v))
           /\ addVerifiedVote(s, v).type = s.type
<1> DEFINE r == recordVote(s, v)
           f == fileVote(r, v)
           m == setMaj23(f, v.block)
           b == v.block
           j == v.index
<1>1. /\ VoteSetInv(r) /\ Fresh(r, v) /\ j \in Voters(r.votes)
      /\ r.votesByBlock = s.votesByBlock /\ r \in VoteSetType
  BY RecordVoteOK DEF VoteSetInv
<1>2. /\ f \in VoteSetType /\ f.votes = r.votes
      /\ f.votesByBlock[b] = withVote(s, v)
      /\ \A k \in Keys \ {b} : f.votesByBlock[k] = s.votesByBlock[k]
  <2>1. withVote(r, v) = withVote(s, v)
    BY <1>1 DEF withVote
  <2> HIDE DEF r
  <2> QED BY <1>1, <2>1, FileVoteOK
<1>3. /\ s \in VoteSetType /\ v \in Vote /\ j \in Vals /\ b \in Keys
      /\ s.votes \in [Vals -> Vote \cup {NoVote}] /\ NoVote # v
  BY VoteAssumption DEF Fresh, Vote, VoteSetInv, VoteSetType
<1>4. r.type = s.type /\ f.type = s.type /\ m.type = s.type
  <2>1. r.type = s.type
    BY <1>3 DEF recordVote, VoteSetType
  <2>2. f.type = r.type
    BY <1>1 DEF fileVote, VoteSetType
  <2>3. m.type = f.type
    BY <1>2 DEF setMaj23, VoteSetType
  <2> QED BY <2>1, <2>2, <2>3
<1>5. r.votes = [s.votes EXCEPT ![j] = v]
  BY <1>3 DEF recordVote, VoteSetType
<1>6. withVote(s, v).votes = [s.votesByBlock[b].votes EXCEPT ![j] = v]
      /\ s.votesByBlock[b].votes \in [Vals -> Vote \cup {NoVote}]
  <2>1. s.votesByBlock[b] \in BlockVotes /\ s.votesByBlock[b].votes[j] = NoVote
    BY <1>3 DEF VoteSetType, Fresh
  <2> QED BY <1>3, <2>1 DEF withVote, addBlockVote, BlockVotes
<1> HIDE DEF r, f
<1>7. OneVoteEach(f)
  <2> SUFFICES ASSUME NEW k \in Keys, NEW i \in Vals
               PROVE  f.votesByBlock[k].votes[i] =
                         IF f.votes[i] # NoVote /\ f.votes[i].block = k
                         THEN f.votes[i] ELSE NoVote
    BY DEF OneVoteEach
  <2>1. f.votes[i] = IF i = j THEN v ELSE s.votes[i]
    BY <1>2, <1>3, <1>5
  <2>2. s.votesByBlock[k].votes[i] =
           IF s.votes[i] # NoVote /\ s.votes[i].block = k THEN s.votes[i] ELSE NoVote
    BY DEF OneVoteEach
  <2>3. CASE k = b
    <3>1. f.votesByBlock[k].votes[i] = IF i = j THEN v ELSE s.votesByBlock[b].votes[i]
      BY <1>2, <1>3, <1>6, <2>3
    <3> QED BY <1>3, <2>1, <2>2, <2>3, <3>1
  <2>4. CASE k # b
    <3>1. f.votesByBlock[k].votes[i] = s.votesByBlock[k].votes[i]
      BY <1>2, <2>4
    <3> QED BY <1>3, <2>1, <2>2, <2>4, <3>1
  <2> QED BY <2>3, <2>4
<1>8. m.votes = f.votes /\ m.votesByBlock = f.votesByBlock
  <2>1. /\ m.votesByBlock = f.votesByBlock
        /\ m.votes = [i \in Vals |-> IF f.votesByBlock[b].votes[i] # NoVote
                                     THEN f.votesByBlock[b].votes[i] ELSE f.votes[i]]
    BY <1>2 DEF setMaj23, VoteSetType
  <2>2. \A i \in Vals : (IF f.votesByBlock[b].votes[i] # NoVote
                         THEN f.votesByBlock[b].votes[i] ELSE f.votes[i]) = f.votes[i]
    BY <1>3, <1>7 DEF OneVoteEach
  <2>3. f.votes = [i \in Vals |-> f.votes[i]]
    BY <1>2 DEF VoteSetType
  <2> QED BY <2>1, <2>2, <2>3
<1> HIDE DEF m
<1>9. OneVoteEach(m)
  BY <1>7, <1>8 DEF OneVoteEach
<1>10. addVerifiedVote(s, v) \in {f, m}
  BY DEF addVerifiedVote, forgetsVote, r, f, m
<1> QED BY <1>2, <1>4, <1>5, <1>7, <1>8, <1>9, <1>10

(* AddVote of a proposer's first vote, if sound, adds it. *)
LEMMA FirstVoteAdded ==
    ASSUME NEW s, NEW v \in Vote, VoteSetInv(s), OneVoteEach(s),
           v.index \in Vals, v.type = s.type, Verify(v, v.index), s.votes[v.index] = NoVote
    PROVE  /\ AddVote(s, v).added
           /\ AddVote(s, v).err = "ok"
           /\ AddVote(s, v).vs.votes = [s.votes EXCEPT ![v.index] = v]
           /\ AddVote(s, v).vs.type = s.type
           /\ OneVoteEach(AddVote(s, v).vs)
<1> DEFINE n == addVerifiedVote(s, v)
           d == [n EXCEPT !.done = @ \/ HasTwoThirdsMajority(n)]
<1>1. v.block \in Keys /\ ~ (v.index < 0) /\ v.addr # NoAddr /\ v.addr = v.index
  BY PowerAssumption DEF Vote, Vals, Verify, NoAddr
<1>2. s.votesByBlock[v.block].votes[v.index] = NoVote
  BY <1>1 DEF OneVoteEach
<1>3. refusal(s, v) = "ok"
  BY <1>1, <1>2 DEF refusal, getVote
<1>4. Fresh(s, v)
  BY <1>2 DEF Fresh
<1>5. n.votes = [s.votes EXCEPT ![v.index] = v] /\ OneVoteEach(n) /\ n.type = s.type
  BY <1>4, FirstVoteFiled
<1>6. n \in VoteSetType
  BY <1>4, AddVerifiedVoteOK DEF VoteSetInv
<1>7. ~ forgetsVote(s, v)
  BY DEF forgetsVote
<1>8. AddVote(s, v) = [vs |-> d, added |-> TRUE, err |-> "ok"]
  BY <1>3, <1>7 DEF AddVote
<1> HIDE DEF n
<1>9. d.votes = n.votes /\ d.votesByBlock = n.votesByBlock /\ d.type = n.type
  BY <1>6 DEF VoteSetType
<1> HIDE DEF d
<1>10. OneVoteEach(d)
  BY <1>5, <1>9 DEF OneVoteEach
<1>11. AddVote(s, v).vs = d /\ AddVote(s, v).added /\ AddVote(s, v).err = "ok"
  BY <1>8
<1> QED BY <1>5, <1>9, <1>10, <1>11

(* A commit of this proposer set with valid signatures under the addresses of
   their places; it may be for nil. *)
WellSigned(c) ==
    /\ c.hash \in Keys
    /\ DOMAIN c.sigs = Vals
    /\ \A i \in Vals :
          /\ c.sigs[i] \in CommitSig
          /\ ~ Absent(c.sigs[i]) =>
                /\ c.sigs[i].addr = i /\ sigVerifies(c, i, i)
                /\ ~ UnknownFlag(c.sigs[i])

(* The votes among the first n signatures of a commit. *)
VotesIn(c, n) ==
    [i \in Vals |-> IF i < n /\ ~ Absent(c.sigs[i]) THEN GetVote(c, i) ELSE NoVote]

(* The loop invariant: the set is consistent and holds exactly the votes of the
   signatures read so far. *)
RebuildOK(c, n, s) ==
    /\ ~ s.panics
    /\ VoteSetInv(s.vs)
    /\ SignalOK(s.vs)
    /\ OneVoteEach(s.vs)
    /\ s.vs.type = "precommit"
    /\ s.vs.votes = VotesIn(c, n)

(* The vote of a valid signature is one AddVote accepts. *)
LEMMA GetVoteSound ==
    ASSUME NEW c, WellSigned(c), NEW i \in Vals, ~ Absent(c.sigs[i])
    PROVE  /\ GetVote(c, i) \in Vote
           /\ GetVote(c, i).index = i
           /\ GetVote(c, i).type = "precommit"
           /\ GetVote(c, i).block = signedHash(c.sigs[i], c.hash)
           /\ Verify(GetVote(c, i), i)
<1>1. /\ c.hash \in Keys /\ c.sigs[i] \in CommitSig
      /\ c.sigs[i].addr = i /\ sigVerifies(c, i, i) /\ i \in Int
      /\ ~ UnknownFlag(c.sigs[i])
  BY PowerAssumption DEF WellSigned, Vals
<1>2. signedHash(c.sigs[i], c.hash) \in Keys
  BY <1>1 DEF signedHash, Keys
<1>3. GetVote(c, i) \in Vote
  BY <1>1, <1>2 DEF GetVote, Vote, VoteTypes, CommitSig
<1>4. Verify(GetVote(c, i), i)
  BY <1>1 DEF GetVote, Verify, sigVerifies
<1> QED BY <1>3, <1>4 DEF GetVote

(* The loop body keeps the invariant: every signature but an absent one is a
   proposer's first vote, so it is added and nothing panics. *)
LEMMA RebuildStepOK ==
    ASSUME NEW c, WellSigned(c), NEW n \in Vals, NEW s, RebuildOK(c, n, s)
    PROVE  RebuildOK(c, n + 1, rebuildStep(c, s, n))
<1> DEFINE t == rebuildStep(c, s, n)
           v == GetVote(c, n)
           r == AddVote(s.vs, v)
<1> SUFFICES RebuildOK(c, n + 1, t)
  OBVIOUS
<1>1. \A i \in Vals : i \in Int /\ (i < n + 1 <=> i < n \/ i = n) /\ ~ (n < n)
  BY DEF Vals
<1>2. CASE Absent(c.sigs[n])
  <2>1. t = s
    BY <1>2 DEF rebuildStep
  <2>2. VotesIn(c, n + 1) = VotesIn(c, n)
    BY <1>1, <1>2 DEF VotesIn
  <2> HIDE DEF t
  <2> QED BY <2>1, <2>2 DEF RebuildOK
<1>3. CASE ~ Absent(c.sigs[n])
  <2>1. /\ v \in Vote /\ v.index = n /\ v.type = s.vs.type /\ Verify(v, n)
    BY <1>3, GetVoteSound DEF RebuildOK
  <2>2. s.vs.votes[n] = NoVote
    BY <1>1 DEF RebuildOK, VotesIn
  <2>3. VoteSetInv(s.vs) /\ SignalOK(s.vs) /\ OneVoteEach(s.vs) /\ ~ s.panics
        /\ s.vs.type = "precommit" /\ s.vs.votes = VotesIn(c, n)
    BY DEF RebuildOK
  <2> HIDE DEF v
  <2>4. /\ r.added /\ r.err = "ok" /\ r.vs.type = s.vs.type /\ OneVoteEach(r.vs)
        /\ r.vs.votes = [s.vs.votes EXCEPT ![n] = v]
    BY <2>1, <2>2, <2>3, FirstVoteAdded
  <2>5. VoteSetInv(r.vs) /\ SignalOK(r.vs)
    BY <2>1, <2>3, AddVoteOK, AddVoteSignals
  <2>6. t.vs = r.vs /\ ~ t.panics
    <3>1. ~ UnknownFlag(c.sigs[n])
      BY <1>3 DEF WellSigned
    <3> QED BY <1>3, <2>3, <2>4, <3>1 DEF rebuildStep, v
  <2> HIDE DEF r, t
  <2>7. r.vs.votes = VotesIn(c, n + 1)
    <3>1. [VotesIn(c, n) EXCEPT ![n] = v] = VotesIn(c, n + 1)
      BY <1>1, <1>3 DEF VotesIn, v
    <3> QED BY <2>3, <2>4, <3>1
  <2> QED BY <2>3, <2>4, <2>5, <2>6, <2>7 DEF RebuildOK
<1> QED BY <1>2, <1>3

(* As many signatures as proposers. *)
LEMMA NumSigs ==
    ASSUME NEW c, DOMAIN c.sigs = Vals
    PROVE  numSigs(c) = Size /\ numSigs(c) \in Nat
<1>1. Cardinality(0 .. Size - 1) = Size
  BY PowerAssumption, FS_Interval
<1> QED BY <1>1, PowerAssumption DEF numSigs, Vals

(* The invariant holds after any number of signatures. *)
LEMMA RebuildScanOK ==
    ASSUME NEW c, WellSigned(c)
    PROVE  \A n \in 0 .. Size : RebuildOK(c, n, rebuildScan(c)[n])
<1> DEFINE P(n) == n <= Size => RebuildOK(c, n, rebuildScan(c)[n])
           T    == {n \in Nat : P(n)}
<1>0. numSigs(c) = Size /\ Size \in Nat
  BY NumSigs DEF WellSigned
<1>1. 0 \in T
  <2> DEFINE e == NewVoteSet("precommit")
  <2>1. rebuildScan(c)[0] = [vs |-> e, panics |-> FALSE]
    BY <1>0, RebuildScanSteps
  <2>2. VoteSetInv(e)
    BY NewVoteSetOK DEF VoteTypes
  <2>3. SignalOK(e) /\ OneVoteEach(e) /\ e.type = "precommit"
    BY DEF NewVoteSet, newBlockVotes, SignalOK, OneVoteEach
  <2>4. e.votes = VotesIn(c, 0)
    <3>1. \A i \in Vals : ~ (i < 0)
      BY DEF Vals
    <3> QED BY <3>1 DEF NewVoteSet, VotesIn
  <2> HIDE DEF e
  <2>5. RebuildOK(c, 0, [vs |-> e, panics |-> FALSE])
    BY <2>2, <2>3, <2>4 DEF RebuildOK
  <2> QED BY <2>1, <2>5
<1>2. ASSUME NEW n \in T PROVE n + 1 \in T
  <2>1. n \in Nat /\ P(n)
    OBVIOUS
  <2>2. CASE n < Size
    <3>0. n \in Vals /\ n \in 0 .. numSigs(c) - 1
      BY <1>0, <2>1, <2>2 DEF Vals
    <3>1. rebuildScan(c)[n + 1] = rebuildStep(c, rebuildScan(c)[n], n)
      <4> HIDE DEF T
      <4> QED BY <1>0, <3>0, RebuildScanSteps
    <3>2. RebuildOK(c, n, rebuildScan(c)[n])
      BY <1>0, <2>1, <2>2
    <3>3. RebuildOK(c, n + 1, rebuildScan(c)[n + 1])
      BY <3>0, <3>1, <3>2, RebuildStepOK
    <3> QED BY <2>1, <3>3
  <2>3. CASE ~ (n < Size)
    BY <1>0, <2>1, <2>3
  <2> QED BY <2>2, <2>3
<1>3. T = Nat
  <2> HIDE DEF T
  <2>1. T \in SUBSET Nat
    BY DEF T
  <2> QED BY <1>1, <1>2, <2>1, Induction
<1> QED BY <1>0, <1>3

(* A commit with a quorum of valid signatures for h, its hash or nil, rebuilds
   to a vote set with the majority h: no vote is refused, and no other block can
   have come first. *)
THEOREM CommitRebuilds ==
    ASSUME NEW c, WellSigned(c), NEW h \in Keys,
           PowerOf({i \in Vals : ~ Absent(c.sigs[i]) /\ signedHash(c.sigs[i], c.hash) = h})
              >= Quorum
    PROVE  /\ ~ CommitToVoteSet(c).panics
           /\ CommitToVoteSet(c).vs.maj23 = h
           /\ CommitToVoteSet(c).vs.done
           /\ CommitToVoteSet(c).vs.votes = VotesIn(c, Size)
<1> DEFINE s == CommitToVoteSet(c).vs
           S == {i \in Vals : ~ Absent(c.sigs[i]) /\ signedHash(c.sigs[i], c.hash) = h}
           V == Voters(s.votesByBlock[h].votes)
<1>1. RebuildOK(c, Size, CommitToVoteSet(c))
  <2>1. CommitToVoteSet(c) = rebuildScan(c)[Size] /\ Size \in 0 .. Size
    BY NumSigs, PowerAssumption DEF CommitToVoteSet, WellSigned
  <2> QED BY <2>1, RebuildScanOK
<1>2. /\ VoteSetInv(s) /\ SignalOK(s) /\ OneVoteEach(s) /\ s.votes = VotesIn(c, Size)
      /\ ~ CommitToVoteSet(c).panics
  BY <1>1 DEF RebuildOK
<1> HIDE DEF s
<1>3. ASSUME NEW i \in S PROVE i \in VotersFor(s.votes, h) /\ i \in V
  <2>0. i \in Vals /\ ~ Absent(c.sigs[i]) /\ signedHash(c.sigs[i], c.hash) = h
    OBVIOUS
  <2>1. i \in Vals /\ i < Size /\ ~ Absent(c.sigs[i]) /\ signedHash(c.sigs[i], c.hash) = h
    BY <2>0, PowerAssumption DEF Vals
  <2>2. s.votes[i] = GetVote(c, i)
    BY <1>2, <2>1 DEF VotesIn
  <2>3. s.votes[i] # NoVote /\ s.votes[i].block = h
    BY <2>1, <2>2, GetVoteSound, VoteAssumption
  <2> QED BY <1>2, <2>1, <2>3 DEF VotersFor, Voters, OneVoteEach
<1>4. S \in SUBSET Vals /\ V \in SUBSET Vals /\ S \in SUBSET V
  BY <1>3 DEF Voters
<1>5. s.maj23 # NoBlock
  <2>1. s.votesByBlock[h].sum = PowerOf(V)
    BY <1>2 DEF VoteSetInv, TalliesOK
  <2> HIDE DEF S, V
  <2>2. /\ PowerOf(S) <= PowerOf(V) /\ PowerOf(S) \in Nat /\ PowerOf(V) \in Nat
        /\ Quorum \in Nat
    BY <1>4, PowerOfMonotone, UnitsFinite, TotalType
  <2>3. PowerOf(S) >= Quorum
    BY DEF S
  <2>4. s.votesByBlock[h].sum >= Quorum
    BY <2>1, <2>2, <2>3
  <2> QED BY <1>2, <2>4 DEF VoteSetInv, MajorityOK
<1>6. s.maj23 = h
  <2> DEFINE W == VotersFor(s.votes, s.maj23)
  <2> SUFFICES ASSUME s.maj23 # h PROVE FALSE
    OBVIOUS
  <2>1. W \in SUBSET Vals /\ PowerOf(W) >= Quorum
    BY <1>2, <1>5 DEF VoteSetInv, MajorityOK, VotersFor, Voters
  <2>2. S \cap W = {}
    BY <1>3 DEF VotersFor
  <2> HIDE DEF S, W
  <2>3. PowerOf(S) >= Quorum
    BY DEF S
  <2>4. 3 * PowerOf(S \cap W) > TotalVotingPower
    BY <1>4, <2>1, <2>3, QuorumsIntersect
  <2>5. PowerOf(S \cap W) = 0 /\ TotalVotingPower \in Nat
    BY <2>2, PowerOfEmpty, TotalType
  <2> QED BY <2>4, <2>5
<1>7. s.done
  BY <1>2, <1>5 DEF SignalOK
<1> QED BY <1>2, <1>6, <1>7 DEF s

-----------------------------------------------------------------------------
(* Making a commit and reading it back. *)

(* A signature of the commit a set makes: absent where the proposer did not
   vote or voted for another block, and else the proposer's vote, to be had
   back with GetVote. *)
LEMMA MadeSig ==
    ASSUME NEW s, VoteSetInv(s), s.type = "precommit", s.maj23 \in Keys, NEW i \in Vals
    PROVE  \/ /\ MakeCommit(s).sigs[i] = NewCommitSigAbsent
              /\ s.votes[i] = NoVote \/ s.votes[i].block # s.maj23
           \/ /\ ~ Absent(MakeCommit(s).sigs[i])
              /\ MakeCommit(s).sigs[i] \in CommitSig
              /\ MakeCommit(s).sigs[i].addr = i
              /\ ~ UnknownFlag(MakeCommit(s).sigs[i])
              /\ sigVerifies(MakeCommit(s), i, i)
              /\ s.votes[i] # NoVote
              /\ GetVote(MakeCommit(s), i) = s.votes[i]
<1> DEFINE c == MakeCommit(s)
           v == s.votes[i]
<1>1. /\ s \in VoteSetType /\ VotesGenuine(s) /\ c.hash = s.maj23
      /\ s.votes \in [Vals -> Vote \cup {NoVote}] /\ NilBlock \notin Blocks
  BY VoteAssumption DEF VoteSetInv, VoteSetType, MakeCommit
<1>2. CASE v = NoVote
  BY <1>2 DEF MakeCommit, voteCommitSig, ForBlock, NewCommitSigAbsent
<1>3. CASE v # NoVote /\ v.block \in Blocks /\ v.block # s.maj23
  BY <1>3 DEF MakeCommit, voteCommitSig, ForBlock, NewCommitSigAbsent
<1>4. CASE v # NoVote /\ ~ (v.block \in Blocks /\ v.block # s.maj23)
  <2>1. /\ v \in Vote /\ v.type = "precommit" /\ v.addr = i /\ v.index = i
        /\ v.sig = Sign(i, "precommit", v.block, v.time)
    BY <1>1, <1>4 DEF VotesGenuine, IsGenuine, Verify, Voters
  <2>2. c.sigs[i] = [flag |-> IF v.block \in Blocks THEN "commit" ELSE "nil",
                     addr |-> v.addr, time |-> v.time, sig |-> v.sig]
    BY <1>4 DEF MakeCommit, voteCommitSig, ForBlock
  <2> HIDE DEF c, v
  <2>3. signedHash(c.sigs[i], c.hash) = v.block
    BY <1>1, <1>4, <2>1, <2>2 DEF signedHash, UnknownFlag, Flags, ForBlock, Vote, Keys
  <2>4. sigVerifies(c, i, i)
    BY <2>1, <2>2, <2>3 DEF sigVerifies
  <2>5. /\ ~ Absent(c.sigs[i]) /\ c.sigs[i] \in CommitSig /\ c.sigs[i].addr = i
        /\ ~ UnknownFlag(c.sigs[i])
    BY <2>1, <2>2 DEF Absent, UnknownFlag, CommitSig, Flags, Vote
  <2>6. GetVote(c, i) = [type |-> v.type, block |-> v.block, time |-> v.time,
                         addr |-> v.addr, index |-> v.index, sig |-> v.sig]
    BY <2>1, <2>2, <2>3 DEF GetVote
  <2>7. GetVote(c, i) = v
    BY <2>1, <2>6 DEF Vote
  <2> QED BY <1>4, <2>4, <2>5, <2>7 DEF c, v
<1> QED BY <1>2, <1>3, <1>4

(* CommitToVoteSet inverts MakeCommit: for every consistent precommit set with a
   majority, for a block or for nil, the rebuilt set has the same majority and
   makes the same commit. *)
THEOREM MakeCommitRoundTrips ==
    ASSUME NEW s, VoteSetInv(s), s.type = "precommit", s.maj23 # NoBlock
    PROVE  LET r == CommitToVoteSet(MakeCommit(s)) IN
           /\ ~ r.panics
           /\ r.vs.maj23 = s.maj23
           /\ r.vs.done
           /\ MakeCommit(r.vs) = MakeCommit(s)
<1> DEFINE c == MakeCommit(s)
           r == CommitToVoteSet(c)
           h == s.maj23
           S == {i \in Vals : ~ Absent(c.sigs[i]) /\ signedHash(c.sigs[i], c.hash) = h}
           W == VotersFor(s.votes, h)
<1>1. h \in Keys /\ c.hash = h /\ DOMAIN c.sigs = Vals
  BY DEF VoteSetInv, VoteSetType, MakeCommit
<1>2. ASSUME NEW i \in Vals
      PROVE  \/ /\ c.sigs[i] = NewCommitSigAbsent
                /\ s.votes[i] = NoVote \/ s.votes[i].block # h
             \/ /\ ~ Absent(c.sigs[i]) /\ c.sigs[i] \in CommitSig /\ c.sigs[i].addr = i
                /\ ~ UnknownFlag(c.sigs[i])
                /\ sigVerifies(c, i, i) /\ s.votes[i] # NoVote /\ GetVote(c, i) = s.votes[i]
  BY <1>1, MadeSig
<1>3. NewCommitSigAbsent \in CommitSig /\ Absent(NewCommitSigAbsent)
  BY DEF NewCommitSigAbsent, CommitSig, Flags, NoAddr, Signatures, Absent
<1> HIDE DEF c
<1>4. WellSigned(c)
  BY <1>1, <1>2, <1>3 DEF WellSigned
<1>5. W \in SUBSET S /\ S \in SUBSET Vals
  <2> SUFFICES ASSUME NEW i \in W PROVE i \in S
    OBVIOUS
  <2>1. i \in Vals /\ s.votes[i] # NoVote /\ s.votes[i].block = h
    BY DEF VotersFor, Voters
  <2>2. ~ Absent(c.sigs[i]) /\ GetVote(c, i) = s.votes[i]
    BY <1>2, <2>1
  <2>3. signedHash(c.sigs[i], c.hash) = h
    BY <2>1, <2>2 DEF GetVote
  <2> QED BY <2>1, <2>2, <2>3
<1>6. PowerOf(S) >= Quorum
  <2>1. PowerOf(W) >= Quorum
    BY DEF VoteSetInv, MajorityOK
  <2> HIDE DEF S, W
  <2>2. /\ PowerOf(W) <= PowerOf(S) /\ PowerOf(W) \in Nat /\ PowerOf(S) \in Nat
        /\ Quorum \in Nat
    BY <1>5, PowerOfMonotone, UnitsFinite, TotalType
  <2> QED BY <2>1, <2>2
<1>7. ~ r.panics /\ r.vs.maj23 = h /\ r.vs.done /\ r.vs.votes = VotesIn(c, Size)
  BY <1>1, <1>4, <1>6, CommitRebuilds
<1> HIDE DEF r
<1>8. MakeCommit(r.vs) = c
  <2>1. ASSUME NEW i \in Vals PROVE MakeCommit(r.vs).sigs[i] = c.sigs[i]
    <3>1. r.vs.votes[i] = IF ~ Absent(c.sigs[i]) THEN GetVote(c, i) ELSE NoVote
      <4>1. i < Size
        BY PowerAssumption DEF Vals
      <4> QED BY <1>7, <4>1 DEF VotesIn
    <3>2. CASE c.sigs[i] = NewCommitSigAbsent
      <4>1. r.vs.votes[i] = NoVote
        BY <1>3, <3>1, <3>2
      <4> QED BY <3>2, <4>1 DEF MakeCommit, voteCommitSig, ForBlock, NewCommitSigAbsent
    <3>3. CASE ~ Absent(c.sigs[i]) /\ GetVote(c, i) = s.votes[i]
      <4>1. r.vs.votes[i] = s.votes[i]
        BY <3>1, <3>3
      <4> QED BY <1>7, <4>1 DEF MakeCommit, c
    <3> QED BY <1>2, <3>2, <3>3
  <2>2. /\ MakeCommit(r.vs) = [hash |-> h, sigs |-> MakeCommit(r.vs).sigs]
        /\ MakeCommit(r.vs).sigs = [i \in Vals |-> MakeCommit(r.vs).sigs[i]]
    BY <1>7 DEF MakeCommit
  <2>3. c = [hash |-> h, sigs |-> c.sigs] /\ c.sigs = [i \in Vals |-> c.sigs[i]]
    BY DEF MakeCommit, c
  <2> QED BY <2>1, <2>2, <2>3
<1> QED BY <1>7, <1>8 DEF r, c
=============================================================================
