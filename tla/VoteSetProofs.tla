--------------------------- MODULE VoteSetProofs ---------------------------
(***************************************************************************)
(* The properties of VoteSet hold for every proposer set, every set of     *)
(* blocks and peers and every set of offered votes.                        *)
(***************************************************************************)
EXTENDS VoteSet, CommitProofs

(* The inductive invariant, in a behaviour. *)
Inv ==
    /\ VoteSetInv(vs)
    /\ ret \in [added : BOOLEAN, err : Errors]
    /\ ret.err # "panic"

(* NewVoteSet establishes the invariant. *)
LEMMA InitInv == Init => Inv
<1> SUFFICES ASSUME Init PROVE Inv
  OBVIOUS
<1>1. VoteSetInv(vs)
  BY OfferedAssumption, NewVoteSetOK DEF Init
<1> QED BY <1>1 DEF Init, Inv, Errors

(* AddVote and SetPeerMaj23 keep the invariant and take back nothing. *)
LEMMA NextInv == Inv /\ [Next]_vars => Inv' /\ Extends(vs, vs')
<1> SUFFICES ASSUME Inv, [Next]_vars PROVE Inv' /\ Extends(vs, vs')
  OBVIOUS
<1>1. ASSUME NEW v \in Offered, DoAddVote(v) PROVE Inv' /\ Extends(vs, vs')
  <2>1. v \in Vote
    BY OfferedAssumption
  <2>2. vs' = AddVote(vs, v).vs /\ ret' = [added |-> AddVote(vs, v).added, err |-> AddVote(vs, v).err]
    BY <1>1 DEF DoAddVote
  <2>3. VoteSetInv(AddVote(vs, v).vs)
    BY <2>1, AddVoteOK DEF Inv
  <2>4. Extends(vs, AddVote(vs, v).vs) /\ AddVote(vs, v).err # "panic"
    BY <2>1, AddVoteExtends DEF Inv
  <2>5. AddVote(vs, v).added \in BOOLEAN /\ AddVote(vs, v).err \in Errors
    <3>1. refusal(vs, v) \in Errors \cup {"duplicate"}
      BY DEF refusal, Errors
    <3> QED BY <3>1 DEF AddVote, forgetsVote, Errors
  <2>6. VoteSetInv(vs')
    BY <2>2, <2>3
  <2>7. Extends(vs, vs') /\ ret' \in [added : BOOLEAN, err : Errors] /\ ret'.err # "panic"
    BY <2>2, <2>4, <2>5
  <2> QED BY <2>6, <2>7 DEF Inv
<1>2. ASSUME NEW p \in Peers, NEW k \in Keys, DoSetPeerMaj23(p, k)
      PROVE  Inv' /\ Extends(vs, vs')
  <2>1. vs' = SetPeerMaj23(vs, p, k).vs /\ ret' = [added |-> FALSE, err |-> SetPeerMaj23(vs, p, k).err]
    BY <1>2 DEF DoSetPeerMaj23
  <2>2. VoteSetInv(vs') /\ Extends(vs, vs')
    BY <2>1, SetPeerMaj23OK, SetPeerMaj23Extends DEF Inv
  <2>3. SetPeerMaj23(vs, p, k).err \in Errors /\ SetPeerMaj23(vs, p, k).err # "panic"
    BY DEF SetPeerMaj23, Errors
  <2> QED BY <2>1, <2>2, <2>3 DEF Inv
<1>3. CASE UNCHANGED vars
  <2>1. vs' = vs /\ ret' = ret
    BY <1>3 DEF vars
  <2> QED BY <2>1, ExtendsItself DEF Inv
<1> QED BY <1>1, <1>2, <1>3 DEF Next

(* The invariant holds throughout. *)
LEMMA InvHolds == Spec => []Inv
BY InitInv, NextInv, PTL DEF Spec

(* The fields of a vote set keep their types. *)
THEOREM TypeCorrect == Spec => []TypeOK
<1>1. Inv => TypeOK
  BY DEF Inv, VoteSetInv, TypeOK
<1> QED BY <1>1, InvHolds, PTL

(* Sums and bit arrays always describe the votes they are kept beside. *)
THEOREM TalliesCorrect == Spec => []TalliesMatchVotes
<1>1. Inv => TalliesMatchVotes
  BY DEF Inv, VoteSetInv, TalliesMatchVotes
<1> QED BY <1>1, InvHolds, PTL

(* The set never holds a vote that its proposer did not sign. *)
THEOREM VotesCorrect == Spec => []HeldVotesAreGenuine
<1>1. Inv => HeldVotesAreGenuine
  BY DEF Inv, VoteSetInv, HeldVotesAreGenuine
<1> QED BY <1>1, InvHolds, PTL

(* maj23 is set when a block reaches a quorum, and the canonical votes hold a
   quorum for it ever after. *)
THEOREM MajorityCorrect == Spec => []MajorityIsBacked
<1>1. Inv => MajorityIsBacked
  BY DEF Inv, VoteSetInv, MajorityIsBacked
<1> QED BY <1>1, InvHolds, PTL

(* Whatever commit a precommit set makes for a block verifies. *)
THEOREM CommitsCorrect == Spec => []CommitVerifies
<1>1. Inv => CommitVerifies
  BY MakeCommitVerifies DEF Inv, CommitVerifies
<1> QED BY <1>1, InvHolds, PTL

(* The verifiers that stop early accept it too, the one that looks signers up by
   address at a trust level of two thirds. *)
THEOREM LightClientsCorrect == Spec => []LightClientsAccept
<1>1. Inv => LightClientsAccept
  <2> SUFFICES ASSUME Inv, vs.type = "precommit", vs.maj23 \in Blocks
               PROVE  /\ VerifyCommitLight(vs.maj23, MakeCommit(vs)) = "ok"
                      /\ VerifyCommitLightTrusting(MakeCommit(vs), 2, 3) = "ok"
    BY DEF LightClientsAccept
  <2> DEFINE c == MakeCommit(vs)
  <2>1. VerifyCommit(vs.maj23, c) = "ok"
    BY MakeCommitVerifies DEF Inv
  <2>2. \A i \in Vals : ~ Absent(c.sigs[i]) => c.sigs[i].addr = i
    <3>1. vs.maj23 \in Keys /\ Absent(NewCommitSigAbsent)
      BY DEF Keys, Absent, NewCommitSigAbsent
    <3> QED BY <3>1, MadeSig DEF Inv
  <2> HIDE DEF c
  <2>3. VerifyCommitLight(vs.maj23, c) = "ok"
    BY <2>1, LightFollowsFull
  <2>4. VerifyCommitLightTrusting(c, 2, 3) = "ok"
    BY <2>1, <2>2, TrustingFollowsFull
  <2> QED BY <2>3, <2>4 DEF c
<1> QED BY <1>1, InvHolds, PTL

(* A vote set with a majority survives being made a commit and rebuilt. *)
THEOREM RoundTripCorrect == Spec => []CommitRoundTrips
<1>1. Inv => CommitRoundTrips
  BY MakeCommitRoundTrips DEF Inv, CommitRoundTrips
<1> QED BY <1>1, InvHolds, PTL

(* No call panics. *)
THEOREM NeverPanics == Spec => []NoPanic
<1>1. Inv => NoPanic
  BY DEF Inv, NoPanic
<1> QED BY <1>1, InvHolds, PTL

(* The first majority found is final. *)
THEOREM MajorityStays == Spec => MajorityIsFinal
<1>1. Inv /\ [Next]_vars => [Extends(vs, vs')]_vars
  BY NextInv
<1> QED BY <1>1, InvHolds, PTL DEF Spec, MajorityIsFinal

(* Two blocks can both reach a quorum only if a third of the power signed
   votes for two blocks. *)
THEOREM QuorumUnique == Spec => []OneQuorum
<1>1. Inv => OneQuorum
  <2> SUFFICES ASSUME Inv, 3 * PowerOf(Equivocators) < TotalVotingPower,
                      NEW j \in Keys, NEW k \in Keys, j # k,
                      vs.votesByBlock[j].sum >= Quorum, vs.votesByBlock[k].sum >= Quorum
               PROVE  FALSE
    BY DEF OneQuorum
  <2> DEFINE S == Voters(vs.votesByBlock[j].votes)
             T == Voters(vs.votesByBlock[k].votes)
  <2>1. S \in SUBSET Vals /\ T \in SUBSET Vals /\ Equivocators \in SUBSET Vals
    BY DEF Voters, Equivocators
  <2>2. PowerOf(S) >= Quorum /\ PowerOf(T) >= Quorum
    BY DEF Inv, VoteSetInv, TalliesOK
  <2>3. PICK i \in S \cap T : i \notin Equivocators
    BY <2>1, <2>2, QuorumsShareCorrect
  <2> QED BY <2>3 DEF Equivocators, Voters
<1> QED BY <1>1, InvHolds, PTL

(* As long as no peer claims a majority, done is closed by the very call that
   finds the majority: whoever waits on it in round.Vote is woken. *)
THEOREM DoneIsReliable == ASSUME Peers = {} PROVE Spec => []DoneMeansMajority
<1>1. Init => SignalOK(vs)
  BY DEF Init, NewVoteSet, newBlockVotes, SignalOK
<1>2. Inv /\ SignalOK(vs) /\ [Next]_vars => SignalOK(vs')
  <2> SUFFICES ASSUME Inv, SignalOK(vs), [Next]_vars PROVE SignalOK(vs')
    OBVIOUS
  <2>1. ASSUME NEW v \in Offered, DoAddVote(v) PROVE SignalOK(vs')
    <3>1. v \in Vote /\ VoteSetInv(vs)
      BY OfferedAssumption DEF Inv
    <3>2. SignalOK(AddVote(vs, v).vs)
      BY <3>1, AddVoteSignals
    <3>3. vs' = AddVote(vs, v).vs
      BY <2>1 DEF DoAddVote
    <3> QED BY <3>2, <3>3
  <2>2. CASE UNCHANGED vars
    BY <2>2 DEF vars
  <2> QED BY <2>1, <2>2 DEF Next
<1>3. SignalOK(vs) => DoneMeansMajority
  BY DEF SignalOK, DoneMeansMajority
<1>4. SignalOK(vs)' <=> SignalOK(vs')
  BY DEF SignalOK
<1> QED BY <1>1, <1>2, <1>3, <1>4, InvHolds, PTL DEF Spec

-----------------------------------------------------------------------------
(* The memory bound. *)

Tracked(s) == {k \in Keys : s.votesByBlock[k].tracked}

Claimers(s) == {p \in Peers : s.peerMaj23s[p] # NoBlock}

BoundOK(s) ==
    /\ IsFiniteSet(Tracked(s))
    /\ IsFiniteSet(Claimers(s))
    /\ Cardinality(Tracked(s)) <= Cardinality(s.votesBitArray) + Cardinality(Claimers(s))

(* addVerifiedVote tracks another block only with a proposer's first vote: a
   conflicting vote is filed under a block that is tracked already, or not at
   all. *)
LEMMA AddVerifiedVoteTracks ==
    ASSUME NEW s, NEW v, VoteSetInv(s), Fresh(s, v)
    PROVE  LET n == addVerifiedVote(s, v) IN
           /\ n.peerMaj23s = s.peerMaj23s
           /\ s.votes[v.index] # NoVote =>
                 Tracked(n) = Tracked(s) /\ n.votesBitArray = s.votesBitArray
           /\ s.votes[v.index] = NoVote =>
                 /\ Tracked(n) \subseteq Tracked(s) \cup {v.block}
                 /\ v.index \notin s.votesBitArray
                 /\ n.votesBitArray = s.votesBitArray \cup {v.index}
<1> DEFINE r == recordVote(s, v)
           f == fileVote(r, v)
           m == setMaj23(f, v.block)
           b == v.block
<1>1. /\ VoteSetInv(r) /\ Fresh(r, v) /\ r.votesByBlock = s.votesByBlock
      /\ v.index \in Voters(r.votes)
  BY RecordVoteOK
<1>2. /\ f \in VoteSetType
      /\ f.votesByBlock[b] = withVote(s, v)
      /\ \A k \in Keys \ {b} : f.votesByBlock[k] = s.votesByBlock[k]
  <2>1. withVote(r, v) = withVote(s, v)
    BY <1>1 DEF withVote
  <2> HIDE DEF r
  <2> QED BY <1>1, <2>1, FileVoteOK
<1>3. /\ s \in VoteSetType /\ v.index \in Vals /\ b \in Keys /\ r \in VoteSetType
      /\ s.votesBitArray = Voters(s.votes)
  BY <1>1 DEF Fresh, Vote, VoteSetInv, TalliesOK
<1>4. /\ r.peerMaj23s = s.peerMaj23s
      /\ s.votes[v.index] = NoVote => r.votesBitArray = s.votesBitArray \cup {v.index}
      /\ s.votes[v.index] # NoVote => r.votesBitArray = s.votesBitArray
  <2>1. s.votes[v.index] # NoVote => s.votesBitArray \cup {v.index} = s.votesBitArray
    BY <1>3 DEF Voters
  <2> QED BY <1>3, <2>1 DEF recordVote, VoteSetType
<1>5. /\ f.peerMaj23s = r.peerMaj23s /\ f.votesBitArray = r.votesBitArray
      /\ m.peerMaj23s = f.peerMaj23s /\ m.votesBitArray = f.votesBitArray
      /\ m.votesByBlock = f.votesByBlock
  <2>1. f.peerMaj23s = r.peerMaj23s /\ f.votesBitArray = r.votesBitArray
    BY <1>3 DEF fileVote, VoteSetType
  <2>2. /\ m.peerMaj23s = f.peerMaj23s /\ m.votesBitArray = f.votesBitArray
        /\ m.votesByBlock = f.votesByBlock
    BY <1>2 DEF setMaj23, VoteSetType
  <2> QED BY <2>1, <2>2
<1>6. v.index \in s.votesBitArray <=> s.votes[v.index] # NoVote
  BY <1>3 DEF Voters
<1>7. withVote(s, v).tracked = TRUE
  <2>1. s.votesByBlock[b] \in BlockVotes
    BY <1>3 DEF VoteSetType
  <2> QED BY <2>1 DEF withVote, addBlockVote, BlockVotes
<1> HIDE DEF r, f, m
<1>8. Tracked(f) = Tracked(s) \cup {b} /\ Tracked(m) = Tracked(f) /\ Tracked(r) = Tracked(s)
  BY <1>1, <1>2, <1>3, <1>5, <1>7 DEF Tracked
<1>9. CASE forgetsVote(s, v)
  <2>1. addVerifiedVote(s, v) = r /\ s.votes[v.index] # NoVote
    BY <1>9 DEF addVerifiedVote, forgetsVote, r
  <2> QED BY <1>4, <1>8, <2>1
<1>10. CASE ~ forgetsVote(s, v)
  <2>1. addVerifiedVote(s, v) \in {f, m}
    BY <1>10 DEF addVerifiedVote, r, f, m
  <2>2. s.votes[v.index] # NoVote => b \in Tracked(s)
    BY <1>3, <1>10 DEF forgetsVote, Tracked
  <2> QED BY <1>4, <1>5, <1>6, <1>8, <2>1, <2>2
<1> QED BY <1>9, <1>10

(* One more element is at most one more to count. *)
LEMMA CardinalityAdd ==
    ASSUME NEW S, NEW x, IsFiniteSet(S)
    PROVE  /\ IsFiniteSet(S \cup {x})
           /\ Cardinality(S \cup {x}) <= Cardinality(S) + 1
<1>1. Cardinality(S) \in Nat
  BY FS_CardinalityType
<1>2. CASE x \in S
  <2>1. S \cup {x} = S
    BY <1>2
  <2>2. Cardinality(S) <= Cardinality(S) + 1
    BY <1>1
  <2> QED BY <2>1, <2>2, Zenon
<1>3. CASE x \notin S
  <2>1. IsFiniteSet(S \cup {x}) /\ Cardinality(S \cup {x}) = Cardinality(S) + 1
    BY <1>3, FS_AddElement
  <2> QED BY <1>1, <2>1
<1> QED BY <1>2, <1>3

(* AddVote keeps the bound. *)
LEMMA AddVoteBounded ==
    ASSUME NEW s, NEW v \in Vote, VoteSetInv(s), BoundOK(s)
    PROVE  BoundOK(AddVote(s, v).vs)
<1>1. CASE refusal(s, v) # "ok"
  BY <1>1 DEF AddVote
<1>2. CASE refusal(s, v) = "ok"
  <2> DEFINE n == addVerifiedVote(s, v)
             d == [n EXCEPT !.done = @ \/ HasTwoThirdsMajority(n)]
  <2>1. Fresh(s, v)
    BY <1>2, AcceptedIsFresh
  <2>2. n \in VoteSetType
    BY <2>1, AddVerifiedVoteOK DEF VoteSetInv
  <2>3. /\ n.peerMaj23s = s.peerMaj23s
        /\ s.votes[v.index] # NoVote =>
              Tracked(n) = Tracked(s) /\ n.votesBitArray = s.votesBitArray
        /\ s.votes[v.index] = NoVote =>
              /\ Tracked(n) \subseteq Tracked(s) \cup {v.block}
              /\ v.index \notin s.votesBitArray
              /\ n.votesBitArray = s.votesBitArray \cup {v.index}
    BY <2>1, AddVerifiedVoteTracks
  <2>4. AddVote(s, v).vs \in {s, n, d}
    BY <1>2 DEF AddVote
  <2> HIDE DEF n
  <2>5. /\ d.votesByBlock = n.votesByBlock /\ d.peerMaj23s = n.peerMaj23s
        /\ d.votesBitArray = n.votesBitArray
    BY <2>2 DEF VoteSetType
  <2> HIDE DEF d
  <2>6. Claimers(n) = Claimers(s)
    BY <2>3 DEF Claimers
  <2>7. IsFiniteSet(s.votesBitArray)
    <3>1. IsFiniteSet(Vals) /\ s.votesBitArray \in SUBSET Vals
      BY PowerAssumption, FS_Interval DEF Vals, VoteSetInv, VoteSetType
    <3> QED BY <3>1, FS_Subset
  <2>8. CASE s.votes[v.index] # NoVote
    <3>1. BoundOK(n)
      BY <2>3, <2>6, <2>8 DEF BoundOK
    <3> QED BY <2>4, <2>5, <3>1 DEF BoundOK, Tracked, Claimers
  <2>9. CASE s.votes[v.index] = NoVote
    <3>1. Cardinality(n.votesBitArray) = Cardinality(s.votesBitArray) + 1
      BY <2>3, <2>7, <2>9, FS_AddElement
    <3>2. /\ IsFiniteSet(Tracked(s) \cup {v.block})
          /\ Cardinality(Tracked(s) \cup {v.block}) <= Cardinality(Tracked(s)) + 1
      BY CardinalityAdd DEF BoundOK
    <3>3. /\ IsFiniteSet(Tracked(n))
          /\ Cardinality(Tracked(n)) <= Cardinality(Tracked(s) \cup {v.block})
      BY <2>3, <2>9, <3>2, FS_Subset
    <3>4. /\ Cardinality(Tracked(n)) \in Nat /\ Cardinality(Tracked(s)) \in Nat
          /\ Cardinality(s.votesBitArray) \in Nat /\ Cardinality(Claimers(s)) \in Nat
          /\ Cardinality(Tracked(s) \cup {v.block}) \in Nat
      BY <2>7, <3>2, <3>3, FS_CardinalityType DEF BoundOK
    <3>5. BoundOK(n)
      BY <2>6, <3>1, <3>2, <3>3, <3>4 DEF BoundOK
    <3> QED BY <2>4, <2>5, <3>5 DEF BoundOK, Tracked, Claimers
  <2> QED BY <2>8, <2>9
<1> QED BY <1>1, <1>2

(* SetPeerMaj23 tracks a block with the first claim of a peer. *)
LEMMA SetPeerMaj23Bounded ==
    ASSUME NEW s, NEW p \in Peers, NEW k \in Keys, VoteSetInv(s), BoundOK(s)
    PROVE  BoundOK(SetPeerMaj23(s, p, k).vs)
<1>1. CASE s.peerMaj23s[p] # NoBlock
  BY <1>1 DEF SetPeerMaj23
<1>2. CASE s.peerMaj23s[p] = NoBlock
  <2> DEFINE e == [s.votesByBlock[k] EXCEPT !.tracked = TRUE, !.peerMaj23 = TRUE]
             n == noteClaim(s, p, k)
  <2>1. s \in VoteSetType /\ s.votesByBlock \in [Keys -> BlockVotes]
        /\ s.peerMaj23s \in [Peers -> Keys \cup {NoBlock}] /\ NoBlock # k
    BY VoteAssumption DEF VoteSetInv, VoteSetType
  <2>2. e.tracked = TRUE
    BY <2>1 DEF BlockVotes
  <2>3. /\ n.votesBitArray = s.votesBitArray
        /\ n.peerMaj23s = [s.peerMaj23s EXCEPT ![p] = k]
        /\ n.votesByBlock = [s.votesByBlock EXCEPT ![k] = e]
        /\ SetPeerMaj23(s, p, k).vs = n
    BY <1>2, <2>1 DEF VoteSetType, noteClaim, SetPeerMaj23
  <2> HIDE DEF e, n
  <2>4. Tracked(n) = Tracked(s) \cup {k}
    BY <2>1, <2>2, <2>3 DEF Tracked
  <2>5. Claimers(n) = Claimers(s) \cup {p} /\ p \notin Claimers(s)
    BY <1>2, <2>1, <2>3 DEF Claimers
  <2>6. /\ IsFiniteSet(Tracked(n))
        /\ Cardinality(Tracked(n)) <= Cardinality(Tracked(s)) + 1
    BY <2>4, CardinalityAdd DEF BoundOK
  <2>7. /\ IsFiniteSet(Claimers(n))
        /\ Cardinality(Claimers(n)) = Cardinality(Claimers(s)) + 1
    BY <2>5, FS_AddElement DEF BoundOK
  <2>8. IsFiniteSet(s.votesBitArray)
    <3>1. IsFiniteSet(Vals) /\ s.votesBitArray \in SUBSET Vals
      BY PowerAssumption, FS_Interval DEF Vals, VoteSetInv, VoteSetType
    <3> QED BY <3>1, FS_Subset
  <2>9. /\ Cardinality(Tracked(n)) \in Nat /\ Cardinality(Tracked(s)) \in Nat
        /\ Cardinality(s.votesBitArray) \in Nat /\ Cardinality(Claimers(s)) \in Nat
    BY <2>6, <2>8, FS_CardinalityType DEF BoundOK
  <2> QED BY <2>3, <2>6, <2>7, <2>9 DEF BoundOK
<1> QED BY <1>1, <1>2

(* The memory a vote set takes is bounded by its votes and the peers that made
   a claim, although blocks and votes come from anywhere: equivocation alone
   makes it track no block. *)
THEOREM MemoryIsBounded == Spec => []MemoryBounded
<1>1. Init => BoundOK(vs)
  <2> SUFFICES ASSUME Init PROVE BoundOK(vs)
    OBVIOUS
  <2>1. Tracked(vs) = {} /\ Claimers(vs) = {} /\ vs.votesBitArray = {}
    BY DEF Init, NewVoteSet, newBlockVotes, Tracked, Claimers
  <2> QED BY <2>1, FS_EmptySet DEF BoundOK
<1>2. Inv /\ BoundOK(vs) /\ [Next]_vars => BoundOK(vs')
  <2> SUFFICES ASSUME Inv, BoundOK(vs), [Next]_vars PROVE BoundOK(vs')
    OBVIOUS
  <2>1. ASSUME NEW v \in Offered, DoAddVote(v) PROVE BoundOK(vs')
    <3>1. v \in Vote /\ VoteSetInv(vs)
      BY OfferedAssumption DEF Inv
    <3>2. BoundOK(AddVote(vs, v).vs)
      BY <3>1, AddVoteBounded
    <3>3. vs' = AddVote(vs, v).vs
      BY <2>1 DEF DoAddVote
    <3> QED BY <3>2, <3>3
  <2>2. ASSUME NEW p \in Peers, NEW k \in Keys, DoSetPeerMaj23(p, k) PROVE BoundOK(vs')
    <3>1. BoundOK(SetPeerMaj23(vs, p, k).vs)
      BY SetPeerMaj23Bounded DEF Inv
    <3>2. vs' = SetPeerMaj23(vs, p, k).vs
      BY <2>2 DEF DoSetPeerMaj23
    <3> QED BY <3>1, <3>2
  <2>3. CASE UNCHANGED vars
    BY <2>3 DEF vars
  <2> QED BY <2>1, <2>2, <2>3 DEF Next
<1>3. BoundOK(vs) => MemoryBounded
  BY DEF BoundOK, Tracked, Claimers, MemoryBounded
<1>4. BoundOK(vs)' <=> BoundOK(vs')
  BY DEF BoundOK, Tracked, Claimers
<1> QED BY <1>1, <1>2, <1>3, <1>4, InvHolds, PTL DEF Spec
=============================================================================
