------------------------------- MODULE Serde -------------------------------
(***************************************************************************)
(* Votes, proposals, commits and proposer sets on their way through bytes: *)
(* the conversions of vote.go, proposal.go, data_hash.go, commit.go,       *)
(* proposer.go, proposer_set.go and msgs_serde.go, the checks they end in, *)
(* the bytes that are signed (canonical.go), and the way of a message from *)
(* round.publish to the verification in concord.handle.                    *)
(*                                                                         *)
(* On the way the bytes may be cut off, changed or followed by others, and *)
(* a newer version of the program may have put more fields into them.      *)
(***************************************************************************)
EXTENDS Protobuf

CONSTANTS
    HashSize,           \* tmhash.Size
    AddressSize,        \* crypto.AddressSize
    MaxSignatureSize,
    MaxTotalVotingPower,
    Signer,             \* the address of the key all messages are signed with
    Signature,          \* what the key's last signature looks like
    Key,                \* the bytes of a public key
    Here,               \* the id of the receiving concord
    Chains,             \* ids of concords the signer takes part in
    Votes, Proposals, Commits, ProposerSets,    \* what may be encoded
    UnknownFields,      \* fields a newer version may add, encoded, or none
    Tails,              \* bytes that may follow a cut
    ByteValues          \* values a byte may change to

(* The Go structs that the values are of. *)
VoteValue ==
    [Type : Int32s, DataHash : Seq(Byte), Timestamp : Times, ValidatorAddress : Seq(Byte),
     ValidatorIndex : Int32s, Signature : Seq(Byte)]

ProposalValue ==
    [Type : Int32s, Round : Int32s, POLRound : Int32s, Data : Seq(Byte), Timestamp : Times,
     Signature : Seq(Byte)]

CommitSigValue ==
    [DataHashFlag : Byte, ValidatorAddress : Seq(Byte), Timestamp : Times,
     Signature : Seq(Byte)]

CommitValue == [DataHash : Seq(Byte), Signatures : Seq(CommitSigValue)]

ProposerValue ==
    [Address : Seq(Byte), PubKey : Seq(Byte), VotingPower : Int64s, ProposerPriority : Int64s]

ASSUME SerdeAssumption ==
    /\ Here \in Chains /\ Chains \subseteq Seq(Byte)
    /\ Signer \in Seq(Byte) /\ Len(Signer) = AddressSize
    /\ HashSize \in Nat /\ MaxSignatureSize \in Nat
    /\ Tails \subseteq Seq(Byte) /\ ByteValues \subseteq Byte
    /\ \A u \in UnknownFields : u \in Seq(Byte) /\ (u = <<>> \/ unknownField(u))
    /\ Votes \subseteq VoteValue /\ Proposals \subseteq ProposalValue /\ Commits \subseteq CommitValue
    /\ Nil \notin VoteValue /\ Nil \notin ProposalValue

(* SignedMsgType *)
PrevoteType == 1
PrecommitType == 2
ProposalType == 32

(* DataHashFlag *)
DataHashFlagAbsent == 1
DataHashFlagCommit == 2
DataHashFlagNil == 3

ok(v) == read(v, 0)
error == fail("error")

validIf(test, v) == IF test THEN ok(v) ELSE error

-----------------------------------------------------------------------------
(* Votes and proposals. *)

ValidateHash(h) == Len(h) > 0 => Len(h) = HashSize

DataHashToProto(h) == [Hash |-> h]
DataHashFromProto(p) == validIf(ValidateHash(p.Hash), p.Hash)

IsVoteTypeValid(t) == t \in {PrevoteType, PrecommitType}

ValidateSignature(s) == Len(s) \in 1 .. MaxSignatureSize

ValidateVote(v) ==
    /\ IsVoteTypeValid(v.Type)
    /\ ValidateHash(v.DataHash)
    /\ Len(v.ValidatorAddress) = AddressSize
    /\ v.ValidatorIndex >= 0
    /\ ValidateSignature(v.Signature)

VoteToProto(v) ==
    [Type |-> v.Type, Height |-> 0, Round |-> 0, DataHash |-> DataHashToProto(v.DataHash),
     Timestamp |-> v.Timestamp, ValidatorAddress |-> v.ValidatorAddress,
     ValidatorIndex |-> v.ValidatorIndex, Signature |-> v.Signature]

VoteFromProto(p) ==
    LET v == [Type |-> p.Type, DataHash |-> p.DataHash.Hash, Timestamp |-> p.Timestamp,
              ValidatorAddress |-> p.ValidatorAddress, ValidatorIndex |-> p.ValidatorIndex,
              Signature |-> p.Signature]
    IN  IF DataHashFromProto(p.DataHash).err # "none" THEN error ELSE validIf(ValidateVote(v), v)

(* The data is not looked at. *)
ValidateProposal(p) ==
    /\ p.Type = ProposalType
    /\ p.Round >= 0
    /\ p.POLRound >= -1
    /\ ValidateSignature(p.Signature)

ProposalToProto(p) ==
    [Type |-> p.Type, Round |-> p.Round, PolRound |-> p.POLRound, Data |-> p.Data,
     Timestamp |-> p.Timestamp, Signature |-> p.Signature]

ProposalFromProto(pp) ==
    LET p == [Type |-> pp.Type, Round |-> pp.Round, POLRound |-> pp.PolRound,
              Data |-> pp.Data, Timestamp |-> pp.Timestamp, Signature |-> pp.Signature]
    IN  validIf(ValidateProposal(p), p)

MsgToProto(kind, m) ==
    [Sum |-> IF kind = "proposal" THEN Message_Proposal(ProposalToProto(m))
                                  ELSE Message_Vote(VoteToProto(m))]

(* encodeMsg wraps the proto of a message as MsgToProto does. *)
encodeMsg(kind, m) == Marshal("Message", MsgToProto(kind, m))

(* MsgFromProto: a Message with no case set is not recognized. *)
MsgFromProto(pb) ==
    IF pb.Sum = Nil THEN error
    ELSE IF pb.Sum.case = "Message_Proposal" THEN ProposalFromProto(pb.Sum.Proposal)
    ELSE VoteFromProto(pb.Sum.Vote)

-----------------------------------------------------------------------------
(* What is signed.  Nil stands for a panic. *)

CanonicalizeDataHash(h) == IF h = <<>> THEN Nil ELSE [Hash |-> h]

(* Mutant: the chain is left out. *)
CanonicalizeProposalAnyChain(chainID, p) ==
    [Type |-> ProposalType, Height |-> 0, Round |-> 0, POLRound |-> 0,
     DataHash |-> CanonicalizeDataHash(p.Data), Timestamp |-> p.Timestamp, ChainID |-> <<>>]

(* Height, Round and POLRound of a proposal are not copied. *)
CanonicalizeProposal(chainID, p) ==
    [Type |-> ProposalType, Height |-> 0, Round |-> 0, POLRound |-> 0,
     DataHash |-> CanonicalizeDataHash(p.Data), Timestamp |-> p.Timestamp,
     ChainID |-> chainID]

(* Mutant: the timestamp is left out. *)
CanonicalizeVoteTimeless(chainID, v) ==
    [Type |-> v.Type, Height |-> v.Height, Round |-> v.Round,
     DataHash |-> CanonicalizeDataHash(v.DataHash.Hash), Timestamp |-> ZeroTime,
     ChainID |-> chainID]

CanonicalizeVote(chainID, v) ==
    [Type |-> v.Type, Height |-> v.Height, Round |-> v.Round,
     DataHash |-> CanonicalizeDataHash(v.DataHash.Hash), Timestamp |-> v.Timestamp,
     ChainID |-> chainID]

(* protoio.MarshalDelimited *)
MarshalDelimited(T, m) ==
    LET behindSize(bytes) == IF bytes = Nil THEN Nil ELSE groups(uint64(Size(T, m))) \o bytes
    IN  behindSize(Marshal(T, m))

VoteSignBytes(chainID, v) == MarshalDelimited("CanonicalVote", CanonicalizeVote(chainID, v))

(* CanonicalizeDataHash takes the data for a hash and panics on any other. *)
ProposalSignBytes(chainID, p) ==
    IF ~ ValidateHash(p.Data) THEN Nil
    ELSE MarshalDelimited("CanonicalProposal", CanonicalizeProposal(chainID, p))

SignBytes(chainID, kind, m) ==
    IF kind = "vote" THEN VoteSignBytes(chainID, VoteToProto(m))
                     ELSE ProposalSignBytes(chainID, ProposalToProto(m))

-----------------------------------------------------------------------------
(* Commits. *)

ValidateCommitSig(cs) ==
    CASE cs.DataHashFlag = DataHashFlagAbsent ->
             cs.ValidatorAddress = <<>> /\ cs.Timestamp = ZeroTime /\ cs.Signature = <<>>
      [] cs.DataHashFlag \in {DataHashFlagCommit, DataHashFlagNil} ->
             Len(cs.ValidatorAddress) = AddressSize /\ ValidateSignature(cs.Signature)
      [] OTHER -> FALSE

(* The flag of a CommitSig is a byte, that of its proto an int32. *)
CommitSigFromProto(csp) == [csp EXCEPT !.DataHashFlag = @ % 256]

ValidateCommit(c) ==
    /\ c.DataHash # <<>>
    /\ c.Signatures # <<>>
    /\ \A i \in DOMAIN c.Signatures : ValidateCommitSig(c.Signatures[i])

CommitToProto(c) ==
    [Height |-> 0, Round |-> 0, DataHash |-> DataHashToProto(c.DataHash),
     Signatures |-> c.Signatures]

CommitFromProto(cp) ==
    LET c == [DataHash   |-> cp.DataHash.Hash,
              Signatures |-> [i \in DOMAIN cp.Signatures |->
                                 CommitSigFromProto(cp.Signatures[i])]]
    IN  IF DataHashFromProto(cp.DataHash).err # "none" THEN error
        ELSE validIf(ValidateCommit(c), c)

-----------------------------------------------------------------------------
(* Proposers and proposer sets. *)

(* crypto/encoding, for ed25519 keys *)
PubKeyToProto(k) == [Ed25519 |-> k]
PubKeyFromProto(pk) == validIf(Len(pk.Ed25519) = Len(Key), pk.Ed25519)

ValidateProposer(v) == v.VotingPower >= 0 /\ Len(v.Address) = AddressSize

(* Mutant: the power is not hashed. *)
ProposerBytesOfKey(v) ==
    Marshal("SimpleValidator", [PubKey |-> PubKeyToProto(v.PubKey), VotingPower |-> 0])

(* Proposer.Bytes, the leaf of the set's hash. *)
ProposerBytes(v) ==
    Marshal("SimpleValidator", [PubKey |-> PubKeyToProto(v.PubKey), VotingPower |-> v.VotingPower])

ProposerToProto(v) == [v EXCEPT !.PubKey = PubKeyToProto(@)]

ValidatorFromProto(vp) ==
    IF vp = Nil \/ PubKeyFromProto(vp.PubKey).err # "none" THEN error
    ELSE ok([vp EXCEPT !.PubKey = vp.PubKey.Ed25519])

(* The total is not written. *)
ProposerSetToProto(vals) ==
    IF vals.Proposers = <<>> THEN New("ValidatorSet")
    ELSE [Validators       |-> [i \in DOMAIN vals.Proposers |-> ProposerToProto(vals.Proposers[i])],
          Proposer         |-> ProposerToProto(vals.Proposer),
          TotalVotingPower |-> 0]

MinInt64 == -IntRange

(* updateTotalVotingPower; it panics on a sum above the maximum. *)
addPower(sum, v) ==
    IF sum = Nil \/ sum + v.VotingPower > MaxTotalVotingPower THEN Nil
    ELSE Max({sum + v.VotingPower, MinInt64})

TotalVotingPower(proposers) == FoldLeft(addPower, 0, proposers)

(* The length of a slice is an int. *)
Fits(bytes) == bytes # Nil => Len(bytes) < IntRange

(* NewValidator takes the address of its key, which only keys of the one length
   have. *)
isMember(v) == v # Nil /\ Len(v.PubKey) = Len(Key) /\ Fits(ProposerBytes(v))

(* A set with members has a proposer, and its total is that of its members. *)
ASSUME ProposerSetsAssumption ==
    /\ \A vals \in ProposerSets :
          /\ vals \in [Proposers        : Seq(ProposerValue),
                       Proposer         : ProposerValue \cup {Nil},
                       totalVotingPower : {TotalVotingPower(vals.Proposers)}]
          /\ vals.Proposers # <<>> =>
                \A v \in ToSet(vals.Proposers) \cup {vals.Proposer} : isMember(v)
    /\ Nil \notin [Proposers : Seq(ProposerValue), Proposer : ProposerValue,
                   totalVotingPower : {Nil}]

ValidateProposerSet(vals) ==
    /\ vals.Proposers # <<>>
    /\ \A i \in DOMAIN vals.Proposers : ValidateProposer(vals.Proposers[i])
    /\ ValidateProposer(vals.Proposer)

(* The total is computed, and may panic, before the checks. *)
ValidatorSetFromProto(vp) ==
    LET members  == [i \in DOMAIN vp.Validators |-> ValidatorFromProto(vp.Validators[i])]
        proposer == ValidatorFromProto(vp.Proposer)
        vals     == [Proposers        |-> [i \in DOMAIN members |-> members[i].v],
                     Proposer         |-> proposer.v,
                     totalVotingPower |-> TotalVotingPower([i \in DOMAIN members |-> members[i].v])]
    IN  IF proposer.err # "none" \/ \E i \in DOMAIN members : members[i].err # "none"
        THEN error
        ELSE IF vals.totalVotingPower = Nil THEN [fail("panic") EXCEPT !.v = vals]
        ELSE validIf(ValidateProposerSet(vals), vals)

-----------------------------------------------------------------------------
VARIABLES
    sent,       \* what was encoded: its kind, the value and the chain it is for
    signed,     \* the bytes that Signature signs, or Nil
    wire,       \* the bytes on their way
    how,        \* what has happened to them
    got         \* what the reader made of them, or Nil

vars == <<sent, signed, wire, how, got>>

Init == sent = Nil /\ signed = Nil /\ wire = <<>> /\ how = {} /\ got = Nil

(* The value goes out as bytes, unless Marshal panics. *)
send(kind, value, chain, bytes) ==
    /\ sent = Nil /\ Fits(bytes)
    /\ sent' = [kind |-> kind, value |-> value, chain |-> chain]
    /\ wire' = IF bytes = Nil THEN <<>> ELSE bytes
    /\ got' = IF bytes = Nil THEN fail("panic") ELSE Nil
    /\ UNCHANGED how

(* round.vote and round.propose: sign and publish.  Somebody else may publish
   what cannot be signed. *)
Publish(kind, m, chain) ==
    /\ send(kind, m, chain, encodeMsg(kind, m))
    /\ signed' = SignBytes(chain, kind, m)
    /\ Fits(signed')

EncodeCommit(c) ==
    /\ send("commit", c, Here, Marshal("Commit", CommitToProto(c)))
    /\ UNCHANGED signed

EncodeProposerSet(vals) ==
    /\ send("set", vals, Here, Marshal("ValidatorSet", ProposerSetToProto(vals)))
    /\ UNCHANGED signed

isMessage == sent # Nil /\ sent.kind \in {"vote", "proposal"}

(* The bytes of a message within a field. *)
nested(key, body) == <<key>> \o groups(uint64(Len(body))) \o body

disturb(kind, bytes) ==
    /\ Fits(bytes)
    /\ how' = how \cup {kind}
    /\ wire' = bytes
    /\ UNCHANGED <<sent, signed, got>>

(* The sender is a newer version, whose messages have another field at the end
   and, nested, another one. *)
Extend(u, v) ==
    /\ sent # Nil /\ got = Nil /\ how = {}
    /\ LET body == readDelimited(wire, 1).v
       IN  disturb("extended",
                   IF isMessage THEN nested(wire[1], body \o v) \o u ELSE wire \o u)

Truncate(n) ==
    /\ sent # Nil /\ got = Nil /\ how = {}
    /\ n < Len(wire)
    /\ disturb("truncated", SubSeq(wire, 1, n))

(* Other bytes take the place of those cut off. *)
Follow(t) ==
    /\ got = Nil /\ how = {"truncated"}
    /\ disturb("followed", wire \o t)

Rewrite(i, b) ==
    /\ sent # Nil /\ got = Nil /\ how = {}
    /\ i \in DOMAIN wire /\ wire[i] # b
    /\ disturb("rewritten", [wire EXCEPT ![i] = b])

(* crypto.PubKey.VerifySignature, with the signer's key *)
VerifySignature(bytes, sig) == sig = Signature /\ bytes = signed

(* Vote.Verify *)
VerifyVote(chainID, v) ==
    /\ v.ValidatorAddress = Signer
    /\ VerifySignature(VoteSignBytes(chainID, VoteToProto(v)), v.Signature)

(* What rcvProposal and rcvVote verify; the sign bytes of a proposal are made
   before its signature is looked at. *)
verify(case, msg) ==
    LET signBytes == ProposalSignBytes(Here, ProposalToProto(msg.v))
    IN  IF msg.err # "none" THEN msg
        ELSE IF case = "Message_Vote" THEN validIf(VerifyVote(Here, msg.v), msg.v)
        ELSE IF signBytes = Nil THEN [fail("panic") EXCEPT !.v = msg.v]
        ELSE validIf(VerifySignature(signBytes, msg.v.Signature), msg.v)

handleMessage(tmsg) ==
    IF tmsg.err # "none" THEN tmsg ELSE verify(tmsg.v.Sum.case, MsgFromProto(tmsg.v))

(* concord.handle up to what is verified. *)
handle(bytes) == handleMessage(Unmarshal("Message", bytes))

decodeCommit(pb) == IF pb.err # "none" THEN pb ELSE CommitFromProto(pb.v)

decodeProposerSet(pb) == IF pb.err # "none" THEN pb ELSE ValidatorSetFromProto(pb.v)

Receive ==
    /\ sent # Nil /\ got = Nil
    /\ got' = CASE isMessage -> handle(wire)
                [] sent.kind = "commit" -> decodeCommit(Unmarshal("Commit", wire))
                [] sent.kind = "set" -> decodeProposerSet(Unmarshal("ValidatorSet", wire))
    /\ UNCHANGED <<sent, signed, wire, how>>

Next ==
    \/ \E chain \in Chains, v \in Votes : Publish("vote", v, chain)
    \/ \E chain \in Chains, p \in Proposals : Publish("proposal", p, chain)
    \/ \E c \in Commits : EncodeCommit(c)
    \/ \E vals \in ProposerSets : EncodeProposerSet(vals)
    \/ \E u, v \in UnknownFields : Extend(u, v)
    \/ \E n \in 0 .. Len(wire) : Truncate(n)
    \/ \E t \in Tails : Follow(t)
    \/ \E i \in 1 .. Len(wire), b \in ByteValues : Rewrite(i, b)
    \/ Receive

Spec == Init /\ [][Next]_vars

-----------------------------------------------------------------------------
(* Properties. *)

acceptable ==
    LET v == sent.value
    IN  CASE sent.kind = "vote" ->
                 /\ ValidateVote(v) /\ sent.chain = Here
                 /\ v.ValidatorAddress = Signer /\ v.Signature = Signature
          [] sent.kind = "proposal" ->
                 /\ ValidateProposal(v) /\ ValidateHash(v.Data) /\ sent.chain = Here
                 /\ v.Signature = Signature
          [] sent.kind = "commit" -> ValidateHash(v.DataHash) /\ ValidateCommit(v)
          [] sent.kind = "set" -> ValidateProposerSet(v) /\ v.totalVotingPower # Nil

(* What is sound is understood as it was meant, through Size, Marshal,
   Unmarshal and the conversions, whether or not a newer version has put more
   fields into it; what is not is refused. *)
Understood ==
    got # Nil /\ how \subseteq {"extended"} =>
        IF acceptable THEN got = ok(sent.value) ELSE got.err # "none"

(* No proper prefix of a message passes for a message. *)
TruncationRejected ==
    got # Nil /\ isMessage /\ how = {"truncated"} => got.err \notin {"none", "panic"}

(* The part of a message that its signature covers. *)
Statement(m) ==
    IF "Data" \in DOMAIN m THEN <<m.Data, m.Timestamp>>
                            ELSE <<m.Type, m.DataHash, m.Timestamp>>

(* Whatever has happened to the bytes, a message that handle verifies says what
   its signer signed, and for this concord. *)
AcceptedWasSigned ==
    got # Nil /\ isMessage =>
        (got.err = "none" =>
            sent.chain = Here /\ Statement(got.v) = Statement(sent.value))

(* Unmarshal never reads past the bytes it was given, and nothing panics but on
   proposals whose data is no hash and on sets with too much power. *)
KnownPanics ==
    got # Nil =>
        (got.err = "panic" =>
            /\ got.v # Nil
            /\ \/ isMessage /\ ~ ValidateHash(got.v.Data)
               \/ sent.kind = "set" /\ got.v.totalVotingPower = Nil)

(* TestProposalValidateBasic, "Invalid DataHash": a proposal whose data is no
   hash is refused, as everything unsound is, and not a reason to panic. *)
HandlersReturn == got # Nil => got.err # "panic"

Messages == {<<"vote", v>> : v \in Votes} \cup {<<"proposal", p>> : p \in Proposals}

(* What sign bytes decode to. *)
parsed(kind, bytes) ==
    LET len == readVarint(bytes, 0)
    IN  Unmarshal(IF kind = "vote" THEN "CanonicalVote" ELSE "CanonicalProposal",
                  SubSeq(bytes, len.i + 1, len.i + len.v)).v

(* A signature cannot be taken for one of another statement, of another kind or
   for another concord: sign bytes are unique, and can be read back by the
   devices the comment on VoteSignBytes has in mind. *)
SignBytesUnambiguous ==
    isMessage /\ how = {} /\ got = Nil /\ signed # Nil =>
        /\ \A m \in Messages, c \in Chains :
              SignBytes(c, m[1], m[2]) = signed =>
                  m[1] = sent.kind /\ c = sent.chain /\ Statement(m[2]) = Statement(sent.value)
        /\ parsed(sent.kind, signed) =
              IF sent.kind = "vote" THEN CanonicalizeVote(sent.chain, VoteToProto(sent.value))
              ELSE CanonicalizeProposal(sent.chain, ProposalToProto(sent.value))

(* The comment on Proposer.Bytes, "the unique encoding of a validator with a
   given voting power": the leaf of the set's hash determines key and power. *)
LeavesUnique ==
    sent # Nil /\ how = {} /\ got = Nil =>
        (sent.kind = "set" =>
            \A i \in DOMAIN sent.value.Proposers :
                LET v == sent.value.Proposers[i]
                IN  Unmarshal("SimpleValidator", ProposerBytes(v)).v =
                        [PubKey |-> PubKeyToProto(v.PubKey), VotingPower |-> v.VotingPower])
=============================================================================
