------------------------- MODULE CommitVerifyProofs -------------------------
(***************************************************************************)
(* What an accepted commit proves, for every proposer set and every set of *)
(* commits that may turn up, of any length and with any signatures.        *)
(***************************************************************************)
EXTENDS CommitVerify, CommitProofs

(* The commit in hand is one of those that turn up. *)
InHand == commit \in Commits /\ wanted \in Blocks

LEMMA InHandHolds == Spec => []InHand
<1>1. Init => InHand
  BY DEF Init, InHand
<1>2. InHand /\ [Next]_vars => InHand'
  BY DEF InHand, Next, Receive, vars
<1> QED BY <1>1, <1>2, PTL DEF Spec

(* Signers is a set of proposers, and so has a power. *)
LEMMA SignersType == Signers \in SUBSET Vals
BY DEF Signers, SignedIn

(* A set of proposers with valid signatures for the hash has no more power than
   all the signers. *)
LEMMA SignersPower ==
    ASSUME NEW S \in SUBSET Vals,
           \A p \in S : \E i \in DOMAIN commit.sigs :
              ForBlock(commit.sigs[i]) /\ sigVerifies(commit, i, p)
    PROVE  /\ PowerOf(S) <= PowerOf(Signers)
           /\ PowerOf(S) \in Nat /\ PowerOf(Signers) \in Nat
<1>1. S \in SUBSET Signers
  BY DEF Signers, SignedIn
<1> QED BY <1>1, SignersType, PowerOfMonotone, UnitsFinite

(* Both verifiers that promise two thirds of the set keep the promise. *)
THEOREM TwoThirdsProved == Spec => []TwoThirdsSigned
<1>1. TwoThirdsSigned
  <2>1. ASSUME NEW S \in SUBSET Vals, PowerOf(S) >= Quorum, DOMAIN commit.sigs = Vals,
               \A i \in S : ForBlock(commit.sigs[i]) /\ sigVerifies(commit, i, i)
        PROVE  PowerOf(Signers) >= Quorum
    <3>1. \A p \in S : \E i \in DOMAIN commit.sigs :
             ForBlock(commit.sigs[i]) /\ sigVerifies(commit, i, p)
      BY <2>1
    <3>2. /\ PowerOf(S) <= PowerOf(Signers)
          /\ PowerOf(S) \in Nat /\ PowerOf(Signers) \in Nat /\ Quorum \in Nat
      BY <3>1, SignersPower, TotalType
    <3>3. PowerOf(S) >= Quorum
      BY <2>1
    <3> QED BY <3>2, <3>3
  <2>2. ASSUME VerifyCommit(wanted, commit) = "ok"
        PROVE  commit.hash = wanted /\ PowerOf(Signers) >= Quorum
    <3> DEFINE S == {i \in Vals : ForBlock(commit.sigs[i])}
    <3>1. /\ commit.hash = wanted /\ DOMAIN commit.sigs = Vals /\ PowerOf(S) >= Quorum
          /\ \A i \in S : ForBlock(commit.sigs[i]) /\ sigVerifies(commit, i, i)
      BY <2>2, FullAccepted
    <3>2. S \in SUBSET Vals
      OBVIOUS
    <3> HIDE DEF S
    <3> QED BY <2>1, <3>1, <3>2
  <2>3. ASSUME VerifyCommitLight(wanted, commit) = "ok"
        PROVE  commit.hash = wanted /\ PowerOf(Signers) >= Quorum
    BY <2>1, <2>3, LightAccepted
  <2> QED BY <2>2, <2>3 DEF TwoThirdsSigned
<1> QED BY <1>1, PTL

(* The light verifier accepts more than the full one only where it reads less: on
   a commit that it accepts, the full one accepts too, or meets a wrong signature
   or, if nobody has called ValidateBasic, an unknown flag. *)
THEOREM LightProved == Spec => []LightAgrees
<1>1. LightAgrees
  BY LightFollowsFull, FullFollowsLight, ValidatedIsReadable DEF LightAgrees
<1> QED BY <1>1, PTL

(* A trust level is a share of this set's power, every signer counted once. *)
THEOREM TrustProved == Spec => []TrustedShareSigned
<1>1. InHand => TrustedShareSigned
  <2> SUFFICES ASSUME InHand, NEW t \in TrustLevels,
                      VerifyCommitLightTrusting(commit, t[1], t[2]) = "ok"
               PROVE  PowerOf(Signers) * t[2] > TotalVotingPower * t[1]
    BY DEF TrustedShareSigned
  <2> DEFINE num == t[1]
             den == t[2]
  <2>1. num \in Nat /\ den \in Nat
    BY CommitsAssumption
  <2>2. numSigs(commit) \in Nat /\ DOMAIN commit.sigs = 0 .. numSigs(commit) - 1
    BY CommitsAssumption, FS_CardinalityType DEF InHand, numSigs
  <2> HIDE DEF num, den
  <2>3. VerifyCommitLightTrusting(commit, num, den) = "ok"
    BY DEF num, den
  <2>4. PICK S \in SUBSET Vals :
           /\ PowerOf(S) * den > TotalVotingPower * num
           /\ \A p \in S : \E i \in 0 .. numSigs(commit) - 1 :
                 ForBlock(commit.sigs[i]) /\ sigVerifies(commit, i, p)
    BY <2>1, <2>2, <2>3, TrustingAccepted
  <2>5. /\ PowerOf(S) <= PowerOf(Signers)
        /\ PowerOf(S) \in Nat /\ PowerOf(Signers) \in Nat /\ TotalVotingPower \in Nat
    BY <2>2, <2>4, SignersPower, TotalType
  <2>6. PowerOf(S) * den <= PowerOf(Signers) * den
    BY <2>1, <2>5
  <2>7. /\ PowerOf(S) * den \in Nat /\ PowerOf(Signers) * den \in Nat
        /\ TotalVotingPower * num \in Nat
    BY <2>1, <2>5
  <2>8. PowerOf(Signers) * den > TotalVotingPower * num
    BY <2>4, <2>6, <2>7
  <2> QED BY <2>8 DEF num, den
<1> QED BY <1>1, InHandHolds, PTL

(* A verified commit with its addresses in place rebuilds to its majority. *)
THEOREM RebuildProved == Spec => []VerifiedCommitRebuilds
<1>1. InHand => VerifiedCommitRebuilds
  <2> SUFFICES ASSUME InHand, VerifyCommit(wanted, commit) = "ok",
                      \A i \in Vals : ~ Absent(commit.sigs[i]) => commit.sigs[i].addr = i
               PROVE  /\ ~ CommitToVoteSet(commit).panics
                      /\ CommitToVoteSet(commit).vs.maj23 = wanted
                      /\ CommitToVoteSet(commit).vs.done
    BY DEF VerifiedCommitRebuilds
  <2> DEFINE A == {i \in Vals : ForBlock(commit.sigs[i])}
             S == {i \in Vals : /\ ~ Absent(commit.sigs[i])
                                /\ signedHash(commit.sigs[i], commit.hash) = wanted}
  <2>1. /\ commit.hash = wanted /\ DOMAIN commit.sigs = Vals /\ PowerOf(A) >= Quorum
        /\ \A i \in Vals : ~ Absent(commit.sigs[i]) =>
              sigVerifies(commit, i, i) /\ ~ UnknownFlag(commit.sigs[i])
    BY FullAccepted
  <2>2. /\ commit.hash \in Keys /\ \A i \in Vals : commit.sigs[i] \in CommitSig
        /\ wanted \in Keys /\ wanted # NilBlock
    BY <2>1, CommitsAssumption, VoteAssumption DEF InHand, Keys
  <2>3. WellSigned(commit)
    BY <2>1, <2>2 DEF WellSigned
  <2>4. S = A
    BY <2>1, <2>2 DEF signedHash, UnknownFlag, Flags, ForBlock, Absent
  <2>5. PowerOf(S) >= Quorum
    BY <2>1, <2>4
  <2> QED BY <2>2, <2>3, <2>5, CommitRebuilds
<1> QED BY <1>1, InHandHolds, PTL
=============================================================================
