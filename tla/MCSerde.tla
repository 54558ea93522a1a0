------------------------------ MODULE MCSerde ------------------------------
(***************************************************************************)
(* Instances of Serde: 24 bits for a word, 16 for half a word, hashes and  *)
(* addresses of two bytes, signatures of at most three.                    *)
(***************************************************************************)
EXTENDS Serde

MaxInt32 == pow2[HalfBits - 1] - 1

hash == <<200, 1>>
foreign == <<7, 9>>

(* The zero time, the epoch, an early and a late time. *)
epoch == [Seconds |-> 0, Nanos |-> 0]
late == [Seconds |-> 20000, Nanos |-> 999]
SampleTimes == {ZeroTime, epoch, late, [Seconds |-> -1, Nanos |-> 1]}

MCSigner == <<7, 0>>
MCSignature == <<9>>
MCKey == <<3, 0, 255>>
MCHere == <<104>>
MCChains == {MCHere, <<104, 104>>}

vote(type, h, t, a, i, s) ==
    [Type |-> type, DataHash |-> h, Timestamp |-> t, ValidatorAddress |-> a,
     ValidatorIndex |-> i, Signature |-> s]

(* Sound votes, with indices of one, two and three bytes, and votes that are
   unsound in one respect each. *)
MCVotes ==
    {vote(type, h, t, MCSigner, 0, MCSignature) :
        type \in {PrevoteType, PrecommitType}, h \in {<<>>, hash}, t \in SampleTimes}
    \cup {vote(PrevoteType, hash, late, MCSigner, i, MCSignature) : i \in {1, 128, MaxInt32, -1}}
    \cup {vote(PrevoteType, h, late, a, 1, s) :
             h \in {hash, <<1>>}, a \in {MCSigner, <<7>>},
             s \in {MCSignature, <<>>, <<9, 9, 9>>, <<9, 9, 9, 9>>}}
    \cup {vote(type, hash, late, MCSigner, 1, MCSignature) : type \in {0, 3, ProposalType}}
    \cup {vote(PrevoteType, hash, late, foreign, 1, MCSignature)}

proposal(type, r, pol, d, t, s) ==
    [Type |-> type, Round |-> r, POLRound |-> pol, Data |-> d, Timestamp |-> t,
     Signature |-> s]

(* Proposals whose data is a hash. *)
SoundData ==
    {proposal(ProposalType, 0, 0, d, t, MCSignature) : d \in {<<>>, hash, foreign}, t \in SampleTimes}
    \cup {proposal(ProposalType, r, pol, hash, late, MCSignature) :
             r \in {0, 300, -1}, pol \in {-1, MaxInt32, -2}}
    \cup {proposal(type, 0, 0, hash, late, s) :
             type \in {ProposalType, PrecommitType}, s \in {MCSignature, <<>>, <<9, 9, 9, 9>>}}

(* Data of any other length. *)
OddData == {proposal(ProposalType, 0, 0, <<1>>, late, MCSignature)}

MCProposals == SoundData \cup OddData

sig(flag, a, t, s) ==
    [DataHashFlag |-> flag, ValidatorAddress |-> a, Timestamp |-> t, Signature |-> s]

absent == sig(DataHashFlagAbsent, <<>>, ZeroTime, <<>>)

MCCommitSigs ==
    {absent, sig(DataHashFlagCommit, MCSigner, late, MCSignature),
     sig(DataHashFlagNil, foreign, epoch, <<9, 9>>), sig(DataHashFlagAbsent, <<>>, epoch, <<>>),
     sig(0, MCSigner, late, MCSignature), sig(DataHashFlagNil, MCSigner, late, <<>>)}

MCCommits ==
    {[DataHash |-> h, Signatures |-> s] :
        h \in {hash, <<>>, <<1>>}, s \in {<<>>, <<absent>>}}
    \cup {[DataHash |-> hash, Signatures |-> s] :
             s \in {<<x>> : x \in MCCommitSigs} \cup {<<absent, x>> : x \in MCCommitSigs}}

proposer(a, k, power, prio) ==
    [Address |-> a, PubKey |-> k, VotingPower |-> power, ProposerPriority |-> prio]

MCProposers ==
    {proposer(MCSigner, MCKey, p, prio) : p \in {0, 1000}, prio \in {0, -5}}
    \cup {proposer(MCSigner, MCKey, -1, 300), proposer(<<7>>, MCKey, 1, 1),
          proposer(foreign, <<1, 2, 3>>, MaxTotalVotingPower, -1)}

set(vs, p) == [Proposers |-> vs, Proposer |-> p, totalVotingPower |-> TotalVotingPower(vs)]

(* One proposer, two, none; the proposer need not be a member. *)
MCProposerSets ==
    {set(<<v>>, v) : v \in MCProposers}
    \cup {set(<<v, w>>, w) : v \in MCProposers, w \in {x \in MCProposers : x.ProposerPriority < 0}}
    \cup {set(<<>>, Nil)}

(* Field 15 as a varint, eight bytes, four bytes, a string and a group with a
   group and a varint inside. *)
MCUnknownFields ==
    {<<>>, <<120, 129, 1>>, <<121, 0, 255, 8>>, <<125, 10, 4>>, <<122, 2, 8, 1>>,
     <<123, 11, 12, 8, 255, 1, 124>>}

(* Ends of groups, keys and lengths that are not there, negative or too long,
   overlong varints, a field given twice. *)
MCTails ==
    {<<124>>, <<123>>, <<255, 255, 255, 255, 1>>, <<122, 255, 255, 255, 15>>,
     <<10, 255, 255, 255, 3>>, <<18, 255, 255, 255, 7>>, <<0>>, <<8, 2>>}

MCByteValues == {0, 1, 2, 11, 32, 128, 255}
=============================================================================
