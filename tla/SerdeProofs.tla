---------------------------- MODULE SerdeProofs ----------------------------
(***************************************************************************)
(* What holds of messages on their way through bytes, whatever the widths, *)
(* the values that are sent and what happens to the bytes.                 *)
(***************************************************************************)
EXTENDS Serde, ProtobufProofs

-----------------------------------------------------------------------------
(* The protos of the values that are sent. *)

(* The small numbers that the messages hold. *)
LEMMA SmallInts == 0 \in Int32s /\ 0 \in Int64s /\ Byte \in SUBSET Int32s /\ ProposalType \in Int32s
<1>1. Int32Range \in Nat /\ Int32Range >= 256 /\ IntRange \in Nat /\ IntRange >= 256
  <2>1. Int32Range >= 256
    <3>1. HalfBits - 1 \in Nat /\ 8 <= HalfBits - 1
      BY Widths
    <3>2. pow2[8] <= pow2[HalfBits - 1]
      BY <3>1, PowMono
    <3>3. pow2[8] = 256
      BY Pow8
    <3> QED BY <3>2, <3>3 DEF Int32Range
  <2> QED BY <2>1, HalfFacts, WordFacts
<1> QED BY <1>1 DEF Int32s, Int64s, Byte, ProposalType

(* ToProto of a vote gives a message of its type. *)
LEMMA VoteProto == ASSUME NEW v \in VoteValue PROVE VoteToProto(v) \in VoteStruct
BY SmallInts DEF VoteValue, VoteToProto, VoteStruct, DataHashToProto, DataHashStruct

(* ToProto of a proposal gives a message of its type. *)
LEMMA ProposalProto == ASSUME NEW p \in ProposalValue PROVE ProposalToProto(p) \in ProposalStruct
BY DEF ProposalValue, ProposalToProto, ProposalStruct

(* ToProto of a commit gives a message of its type. *)
LEMMA CommitProto == ASSUME NEW c \in CommitValue PROVE CommitToProto(c) \in CommitStruct
<1>1. CommitSigValue \in SUBSET CommitSigStruct
  BY SmallInts DEF CommitSigValue, CommitSigStruct
<1>2. c.Signatures \in Seq(CommitSigValue)
  BY DEF CommitValue
<1>3. c.Signatures \in Seq(CommitSigStruct)
  BY <1>1, <1>2, SeqMonotonic
<1> QED BY <1>3, SmallInts DEF CommitValue, CommitToProto, CommitStruct, DataHashToProto,
    DataHashStruct

(* ToProto of a proposer gives a message of its type. *)
LEMMA ProposerProto == ASSUME NEW v \in ProposerValue PROVE ProposerToProto(v) \in ValidatorStruct
BY DEF ProposerValue, ProposerToProto, ValidatorStruct, PubKeyToProto, PublicKeyStruct

(* What a set in ProposerSets is. *)
SetValue(vals) ==
    /\ vals = [Proposers |-> vals.Proposers, Proposer |-> vals.Proposer,
               totalVotingPower |-> TotalVotingPower(vals.Proposers)]
    /\ vals.Proposers \in Seq(ProposerValue)
    /\ vals.Proposers # <<>> =>
          /\ vals.Proposer \in ProposerValue
          /\ \A v \in ToSet(vals.Proposers) \cup {vals.Proposer} : isMember(v)

(* A proposer set that is sent is a slice of proposers with its total and,
   unless it is empty, a proposer and members with keys of the right length. *)
LEMMA SetValues == ASSUME NEW vals \in ProposerSets PROVE SetValue(vals)
BY ProposerSetsAssumption DEF SetValue, isMember

(* ToProto of a proposer set gives a message of its type. *)
LEMMA SetProto ==
    ASSUME NEW vals, SetValue(vals)
    PROVE  ProposerSetToProto(vals) \in ValidatorSetStruct
<1>1. CASE vals.Proposers = <<>>
  <2>1. New("ValidatorSet") \in Struct["ValidatorSet"]
    BY NewTyped DEF Readable, Types, Types2
  <2> QED BY <1>1, <2>1 DEF ProposerSetToProto, Struct
<1>2. CASE vals.Proposers # <<>>
  <2>1. PICK n \in Nat : n = Len(vals.Proposers) /\ DOMAIN vals.Proposers = 1 .. n
    BY LenProperties DEF SetValue
  <2>2. \A i \in 1 .. n : vals.Proposers[i] \in ProposerValue
    BY <2>1, LenProperties DEF SetValue
  <2>3. [i \in DOMAIN vals.Proposers |-> ProposerToProto(vals.Proposers[i])] \in Seq(ValidatorStruct)
    BY <2>1, <2>2, ProposerProto, SeqDef
  <2>4. ProposerToProto(vals.Proposer) \in ValidatorStruct
    BY <1>2, ProposerProto DEF SetValue
  <2> QED BY <1>2, <2>3, <2>4, SmallInts DEF ProposerSetToProto, ValidatorSetStruct
<1> QED BY <1>1, <1>2

(* The case of Message for a message, and the type of the message in it. *)
caseOf(kind) == IF kind = "proposal" THEN "Message_Proposal" ELSE "Message_Vote"
typeOf(kind) == IF kind = "proposal" THEN "Proposal" ELSE "Vote"
protoOf(kind, m) == IF kind = "proposal" THEN ProposalToProto(m) ELSE VoteToProto(m)
keyOf(kind) == IF kind = "proposal" THEN 10 ELSE 18
bodyOf(kind, m) == Marshal1(typeOf(kind), protoOf(kind, m))

Kind(kind, m) ==
    \/ kind = "vote" /\ m \in VoteValue
    \/ kind = "proposal" /\ m \in ProposalValue

(* A message goes out as the key of its case, its length and its proto. *)
LEMMA EncodedMessage ==
    ASSUME NEW kind, NEW m, Kind(kind, m)
    PROVE  /\ encodeMsg(kind, m) = item(keyOf(kind), bodyOf(kind, m))
           /\ encodeMsg(kind, m) \in Seq(Byte) /\ encodeMsg(kind, m) # Nil
           /\ bodyOf(kind, m) \in Seq(Byte) /\ keyOf(kind) \in Byte
           /\ protoOf(kind, m) \in Struct[typeOf(kind)]
<1>1. PICK T \in Cases : T = caseOf(kind)
  BY DEF caseOf, Cases
<1>2. typeOf(kind) = inCase(T) /\ keyOf(kind) = caseKey(T)
  BY <1>1 DEF caseOf, typeOf, inCase, keyOf, caseKey
<1>3. PICK s : s = MsgToProto(kind, m).Sum
  OBVIOUS
<1>4. protoOf(kind, m) \in Struct[typeOf(kind)]
  BY VoteProto, ProposalProto DEF Kind, protoOf, typeOf, Struct
<1>5. /\ s \in Struct[T] /\ s.case = T /\ s[inCase(T)] = protoOf(kind, m)
      /\ MsgToProto(kind, m) \in MessageStruct /\ MsgToProto(kind, m).Sum = s
  <2>1. CASE kind = "vote"
    <3>1. s = [case |-> "Message_Vote", Vote |-> VoteToProto(m)] /\ T = "Message_Vote"
      BY <1>1, <1>3, <2>1 DEF MsgToProto, Message_Vote, caseOf
    <3>2. VoteToProto(m) \in VoteStruct
      BY <2>1, VoteProto DEF Kind
    <3>3. s \in Message_VoteStruct
      BY <3>1, <3>2 DEF Message_VoteStruct
    <3> QED BY <1>3, <2>1, <3>1, <3>3 DEF MsgToProto, MessageStruct, Struct, inCase, protoOf
  <2>2. CASE kind = "proposal"
    <3>1. s = [case |-> "Message_Proposal", Proposal |-> ProposalToProto(m)] /\ T = "Message_Proposal"
      BY <1>1, <1>3, <2>2 DEF MsgToProto, Message_Proposal, caseOf
    <3>2. ProposalToProto(m) \in ProposalStruct
      BY <2>2, ProposalProto DEF Kind
    <3>3. s \in Message_ProposalStruct
      BY <3>1, <3>2 DEF Message_ProposalStruct
    <3> QED BY <1>3, <2>2, <3>1, <3>3 DEF MsgToProto, MessageStruct, Struct, inCase, protoOf
  <2> QED BY <2>1, <2>2 DEF Kind
<1>6. s # Nil
  <2>1. T \in DOMAIN Struct
    BY DEF Cases, Struct
  <2> QED BY <1>5, <2>1, NilAssumption
<1>7. encodeMsg(kind, m) = item(keyOf(kind), bodyOf(kind, m))
  BY <1>2, <1>5, <1>6, MessageBytes DEF encodeMsg, bodyOf
<1>8. bodyOf(kind, m) \in Seq(Byte)
  BY <1>2, <1>5, CaseBytes DEF bodyOf
<1>9. keyOf(kind) \in Byte
  BY DEF keyOf, Byte
<1>10. item(keyOf(kind), bodyOf(kind, m)) \in Seq(Byte)
  BY <1>8, <1>9, ItemFacts
<1> QED BY <1>4, <1>7, <1>8, <1>9, <1>10, NilAssumption

(* An encoded commit is a sequence of bytes. *)
LEMMA EncodedCommit ==
    ASSUME NEW c \in CommitValue
    PROVE  /\ Marshal("Commit", CommitToProto(c)) \in Seq(Byte)
           /\ Marshal("Commit", CommitToProto(c)) # Nil
<1>1. "Commit" \in Types /\ CommitToProto(c) \in Struct["Commit"]
  BY CommitProto DEF Types, Types2, Struct
<1> QED BY <1>1, MarshalFillsSize

(* An encoded proposer set is a sequence of bytes. *)
LEMMA EncodedSet ==
    ASSUME NEW vals, SetValue(vals)
    PROVE  /\ Marshal("ValidatorSet", ProposerSetToProto(vals)) \in Seq(Byte)
           /\ Marshal("ValidatorSet", ProposerSetToProto(vals)) # Nil
<1>1. "ValidatorSet" \in Types /\ ProposerSetToProto(vals) \in Struct["ValidatorSet"]
  BY SetProto DEF Types, Types2, Struct
<1> QED BY <1>1, MarshalFillsSize

-----------------------------------------------------------------------------
(* What is known of the bytes on their way and of the answer. *)

(* What was encoded. *)
SentTyped ==
    sent # Nil =>
        /\ sent.kind \in {"vote", "proposal", "commit", "set"}
        /\ sent.chain \in Chains
        /\ sent.kind = "vote" => sent.value \in Votes
        /\ sent.kind = "proposal" => sent.value \in Proposals
        /\ sent.kind = "commit" => sent.value \in Commits
        /\ sent.kind = "set" => sent.value \in ProposerSets

encoded ==
    CASE isMessage -> encodeMsg(sent.kind, sent.value)
      [] sent.kind = "commit" -> Marshal("Commit", CommitToProto(sent.value))
      [] sent.kind = "set" -> Marshal("ValidatorSet", ProposerSetToProto(sent.value))

extendedBy(u, v) ==
    IF isMessage THEN item(keyOf(sent.kind), bodyOf(sent.kind, sent.value) \o v) \o u
    ELSE encoded \o u

(* What has happened to the bytes that were sent. *)
History ==
    /\ how \in {{}, {"extended"}, {"truncated"}, {"truncated", "followed"}, {"rewritten"}}
    /\ how = {} => wire = encoded
    /\ how = {"extended"} => \E u, v \in UnknownFields : wire = extendedBy(u, v)
    /\ how = {"truncated"} => \E n \in Nat : n < Len(encoded) /\ wire = SubSeq(encoded, 1, n)
    /\ isMessage => signed = SignBytes(sent.chain, sent.kind, sent.value) /\ Fits(signed)

received ==
    CASE isMessage -> handle(wire)
      [] sent.kind = "commit" -> decodeCommit(Unmarshal("Commit", wire))
      [] sent.kind = "set" -> decodeProposerSet(Unmarshal("ValidatorSet", wire))

IInv ==
    /\ SentTyped
    /\ wire \in Data
    /\ sent = Nil => how = {} /\ got = Nil
    /\ sent # Nil => encoded \in Data /\ History
    /\ got # Nil => got = received

(* What is sent as a message is a vote or a proposal. *)
LEMMA SentMessage == ASSUME SentTyped, isMessage PROVE sent # Nil /\ Kind(sent.kind, sent.value)
<1>1. sent # Nil /\ sent.kind \in {"vote", "proposal"}
  BY DEF isMessage
<1>2. CASE sent.kind = "vote"
  <2>1. sent.value \in Votes
    BY <1>1, <1>2 DEF SentTyped
  <2>2. sent.value \in VoteValue
    BY <2>1, SerdeAssumption
  <2>3. Kind(sent.kind, sent.value)
    BY <1>2, <2>2 DEF Kind
  <2> QED BY <1>1, <2>3
<1>3. CASE sent.kind = "proposal"
  <2>1. sent.value \in Proposals
    BY <1>1, <1>3 DEF SentTyped
  <2>2. sent.value \in ProposalValue
    BY <2>1, SerdeAssumption
  <2> QED BY <1>1, <1>3, <2>2 DEF Kind
<1> QED BY <1>1, <1>2, <1>3

(* The invariant holds before anything is sent. *)
LEMMA InitIInv == ASSUME Init PROVE IInv
<1>1. wire \in Seq(Byte) /\ Len(wire) = 0
  BY DEF Init
<1>2. wire \in Data
  BY <1>1, WordFacts DEF Data
<1> QED BY <1>2 DEF Init, IInv, SentTyped

(* A step that encodes a value. *)
LEMMA SendIInv ==
    ASSUME IInv, NEW kind, NEW value, NEW chain \in Chains, NEW bytes, bytes \in Seq(Byte),
           bytes # Nil, send(kind, value, chain, bytes),
           kind \in {"vote", "proposal"} => /\ bytes = encodeMsg(kind, value)
                                            /\ signed' = SignBytes(chain, kind, value)
                                            /\ Fits(signed'),
           kind = "commit" => bytes = Marshal("Commit", CommitToProto(value)),
           kind = "set" => bytes = Marshal("ValidatorSet", ProposerSetToProto(value)),
           \/ kind = "vote" /\ value \in Votes
           \/ kind = "proposal" /\ value \in Proposals
           \/ kind = "commit" /\ value \in Commits
           \/ kind = "set" /\ value \in ProposerSets
    PROVE  IInv'
<1>1. how = {} /\ got = Nil
  BY DEF IInv, send
<1>2. wire' = bytes /\ got' = Nil /\ how' = {} /\ Len(bytes) < IntRange
  BY <1>1 DEF send, Fits
<1>3. sent' = [kind |-> kind, value |-> value, chain |-> chain]
  BY DEF send
<1>4. sent'.kind = kind /\ sent'.value = value /\ sent'.chain = chain
  BY <1>3
<1>5. wire' \in Data
  BY <1>2 DEF Data
<1>6. SentTyped'
  BY <1>4 DEF SentTyped
<1>7. ASSUME sent' # Nil PROVE encoded' = bytes
  <2>1. CASE kind \in {"vote", "proposal"}
    BY <1>4, <1>7, <2>1 DEF encoded, isMessage
  <2>2. CASE kind = "commit"
    BY <1>4, <2>2 DEF encoded, isMessage
  <2>3. CASE kind = "set"
    BY <1>4, <2>3 DEF encoded, isMessage
  <2> QED BY <2>1, <2>2, <2>3
<1>8. ASSUME isMessage'
      PROVE  signed' = SignBytes(sent'.chain, sent'.kind, sent'.value) /\ Fits(signed)'
  <2>1. kind \in {"vote", "proposal"}
    BY <1>4, <1>8 DEF isMessage
  <2> QED BY <1>4, <2>1 DEF Fits
<1>9. ASSUME sent' # Nil PROVE encoded' \in Data /\ History'
  <2>1. encoded' = bytes
    BY <1>7, <1>9
  <2> QED BY <1>2, <1>5, <1>8, <2>1 DEF History
<1> QED BY <1>2, <1>5, <1>6, <1>9 DEF IInv

(* The invariant holds after a vote or a proposal is published. *)
LEMMA PublishIInv ==
    ASSUME IInv, NEW kind, NEW m, NEW chain \in Chains, Publish(kind, m, chain),
           (kind = "vote" /\ m \in Votes) \/ (kind = "proposal" /\ m \in Proposals)
    PROVE  IInv'
<1>1. Kind(kind, m)
  BY SerdeAssumption DEF Kind
<1>2. encodeMsg(kind, m) \in Seq(Byte) /\ encodeMsg(kind, m) # Nil
  BY <1>1, EncodedMessage
<1>3. send(kind, m, chain, encodeMsg(kind, m)) /\ signed' = SignBytes(chain, kind, m)
      /\ Fits(signed')
  BY DEF Publish
<1>4. kind # "commit" /\ kind # "set"
  OBVIOUS
<1> QED BY <1>2, <1>3, <1>4, SendIInv

(* The invariant holds after a commit is encoded. *)
LEMMA EncodeCommitIInv == ASSUME IInv, NEW c \in Commits, EncodeCommit(c) PROVE IInv'
<1>1. c \in CommitValue /\ Here \in Chains
  BY SerdeAssumption
<1>2. Marshal("Commit", CommitToProto(c)) \in Seq(Byte) /\ Marshal("Commit", CommitToProto(c)) # Nil
  BY <1>1, EncodedCommit
<1>3. send("commit", c, Here, Marshal("Commit", CommitToProto(c)))
  BY DEF EncodeCommit
<1> QED BY <1>1, <1>2, <1>3, SendIInv

(* The invariant holds after a proposer set is encoded. *)
LEMMA EncodeProposerSetIInv == ASSUME IInv, NEW vals \in ProposerSets, EncodeProposerSet(vals) PROVE IInv'
<1>1. SetValue(vals) /\ Here \in Chains
  BY SerdeAssumption, SetValues
<1>2. /\ Marshal("ValidatorSet", ProposerSetToProto(vals)) \in Seq(Byte)
      /\ Marshal("ValidatorSet", ProposerSetToProto(vals)) # Nil
  BY <1>1, EncodedSet
<1>3. send("set", vals, Here, Marshal("ValidatorSet", ProposerSetToProto(vals)))
  BY DEF EncodeProposerSet
<1> QED BY <1>1, <1>2, <1>3, SendIInv

(* A step that changes the bytes on their way. *)
LEMMA DisturbIInv ==
    ASSUME IInv, NEW kind, NEW bytes, disturb(kind, bytes), bytes \in Seq(Byte), got = Nil, sent # Nil,
           how' \in {{"extended"}, {"truncated"}, {"truncated", "followed"}, {"rewritten"}},
           how' = {"extended"} => \E u, v \in UnknownFields : bytes = extendedBy(u, v),
           how' = {"truncated"} => \E n \in Nat : n < Len(encoded) /\ bytes = SubSeq(encoded, 1, n)
    PROVE  IInv'
<1>1. sent' = sent /\ signed' = signed /\ got' = got /\ wire' = bytes /\ Fits(bytes)
  BY DEF disturb
<1>2. wire' \in Data
  BY <1>1, NilAssumption DEF Data, Fits
<1>3. encoded' = encoded /\ isMessage' = isMessage
  BY <1>1 DEF encoded, isMessage
<1>4. \A u, v : extendedBy(u, v)' = extendedBy(u, v)
  BY <1>1, <1>3 DEF extendedBy
<1>5. History'
  <2>1. how' # {}
    OBVIOUS
  <2>2. how' = {"extended"} => \E u, v \in UnknownFields : wire' = extendedBy(u, v)'
    BY <1>1, <1>4
  <2>3. isMessage => signed = SignBytes(sent.chain, sent.kind, sent.value) /\ Fits(signed)
    BY DEF IInv, History
  <2>4. Fits(signed)' <=> Fits(signed)
    BY <1>1 DEF Fits
  <2> QED BY <1>1, <1>3, <2>1, <2>2, <2>3, <2>4 DEF History
<1>6. SentTyped'
  BY <1>1 DEF SentTyped, IInv
<1> QED BY <1>1, <1>2, <1>3, <1>5, <1>6 DEF IInv

(* The invariant holds after a newer version has added fields. *)
LEMMA ExtendIInv ==
    ASSUME IInv, NEW u \in UnknownFields, NEW v \in UnknownFields, Extend(u, v)
    PROVE  IInv'
<1>1. sent # Nil /\ got = Nil /\ how = {} /\ wire = encoded /\ wire \in Data
  BY DEF Extend, IInv, History
<1>2. u \in Seq(Byte) /\ v \in Seq(Byte)
  BY SerdeAssumption
<1>3. PICK bytes : bytes = (LET body == readDelimited(wire, 1).v
                            IN  IF isMessage THEN nested(wire[1], body \o v) \o u ELSE wire \o u)
  OBVIOUS
<1>4. disturb("extended", bytes)
  BY <1>3 DEF Extend
<1>5. how' = {"extended"}
  BY <1>1, <1>4 DEF disturb
<1>6. bytes = extendedBy(u, v) /\ bytes \in Seq(Byte)
  <2>1. CASE isMessage
    <3>1. Kind(sent.kind, sent.value)
      BY <2>1, SentMessage DEF IInv
    <3>2. PICK key, e : key = keyOf(sent.kind) /\ e = bodyOf(sent.kind, sent.value)
      OBVIOUS
    <3>3. wire = item(key, e) /\ e \in Seq(Byte) /\ key \in Byte /\ wire \in Seq(Byte)
      <4>1. encoded = encodeMsg(sent.kind, sent.value)
        BY <2>1 DEF encoded, isMessage
      <4>2. /\ encodeMsg(sent.kind, sent.value) = item(key, e)
            /\ encodeMsg(sent.kind, sent.value) \in Seq(Byte)
            /\ e \in Seq(Byte) /\ key \in Byte
        BY <3>1, <3>2, EncodedMessage
      <4> QED BY <1>1, <4>1, <4>2
    <3>4. Has(wire, 0, item(key, e))
      <4>1. \A k \in 1 .. Len(wire) : wire[0 + k] = wire[k]
        OBVIOUS
      <4>2. Len(wire) \in Nat
        BY <3>3, LenProperties
      <4> QED BY <3>3, <4>1, <4>2 DEF Has
    <3>5. wire[1] = key /\ readDelimited(wire, 1).v = e
      <4>1. wire[0 + 1] = key /\ readDelimited(wire, 0 + 1) = read(e, 0 + Len(item(key, e)))
        BY <1>1, <3>3, <3>4, ReadItem
      <4> QED BY <4>1 DEF read
    <3>6. bytes = nested(key, e \o v) \o u
      BY <1>3, <2>1, <3>5
    <3>7. e \o v \in Seq(Byte)
      BY <1>2, <3>3, Concat
    <3>8. item(key, e \o v) \in Seq(Byte)
      BY <3>3, <3>7, ItemFacts
    <3>9. PICK g : g = groups(uint64(Len(e \o v)))
      OBVIOUS
    <3>10. g \in Seq(Byte) /\ <<key>> \in Seq(Byte)
      <4>1. uint64(Len(e \o v)) \in Nat /\ uint64(Len(e \o v)) < Word
        BY <3>7, LenProperties, ConversionTypes
      <4> QED BY <3>3, <3>9, <4>1, GroupsFacts, One
    <3>11. nested(key, e \o v) = item(key, e \o v)
      <4>1. (<<key>> \o g) \o (e \o v) = <<key>> \o (g \o (e \o v))
        BY <3>7, <3>10, ConcatAssociative
      <4> QED BY <3>9, <4>1 DEF nested, item
    <3>12. bytes \in Seq(Byte)
      BY <1>2, <3>6, <3>8, <3>11, Concat
    <3> QED BY <2>1, <3>2, <3>6, <3>11, <3>12 DEF extendedBy
  <2>2. CASE ~ isMessage
    <3>1. bytes = wire \o u
      BY <1>3, <2>2
    <3>2. wire \in Seq(Byte)
      BY <1>1, DataFacts
    <3>3. bytes \in Seq(Byte)
      BY <1>2, <3>1, <3>2, Concat
    <3> QED BY <1>1, <2>2, <3>1, <3>3 DEF extendedBy
  <2> QED BY <2>1, <2>2
<1>7. \E x, y \in UnknownFields : bytes = extendedBy(x, y)
  BY <1>6
<1>8. how' # {"truncated"}
  BY <1>5
<1> QED BY <1>1, <1>4, <1>5, <1>6, <1>7, <1>8, DisturbIInv

(* What is cut off a byte string leaves bytes. *)
LEMMA Prefix ==
    ASSUME NEW b \in Seq(Byte), NEW n \in Nat, n <= Len(b)
    PROVE  SubSeq(b, 1, n) \in Seq(Byte) /\ Len(SubSeq(b, 1, n)) = n
           /\ \A k \in 1 .. n : SubSeq(b, 1, n)[k] = b[k]
<1>1. \A k \in 1 .. n : b[k] \in Byte
  BY LenProperties
<1>2. /\ SubSeq(b, 1, n) \in Seq(Byte)
      /\ Len(SubSeq(b, 1, n)) = IF 1 <= n THEN n - 1 + 1 ELSE 0
      /\ \A k \in 1 .. n - 1 + 1 : SubSeq(b, 1, n)[k] = b[1 + k - 1]
  BY <1>1, SubSeqProperties
<1>3. \A k \in 1 .. n : k \in 1 .. n - 1 + 1 /\ 1 + k - 1 = k
  OBVIOUS
<1> QED BY <1>2, <1>3

(* The invariant holds after bytes are cut off. *)
LEMMA TruncateIInv == ASSUME IInv, NEW n \in 0 .. Len(wire), Truncate(n) PROVE IInv'
<1>1. sent # Nil /\ got = Nil /\ how = {} /\ wire = encoded /\ wire \in Data
  BY DEF Truncate, IInv, History
<1>2. n \in Nat /\ n < Len(wire) /\ disturb("truncated", SubSeq(wire, 1, n))
  BY DEF Truncate
<1>3. how' = {"truncated"} /\ how' # {"extended"}
  BY <1>1, <1>2 DEF disturb
<1>4. SubSeq(wire, 1, n) \in Seq(Byte)
  BY <1>1, <1>2, DataFacts, Prefix
<1>5. \E k \in Nat : k < Len(encoded) /\ SubSeq(wire, 1, n) = SubSeq(encoded, 1, k)
  BY <1>1, <1>2
<1> QED BY <1>1, <1>2, <1>3, <1>4, <1>5, DisturbIInv

(* The invariant holds after other bytes take the place of the rest. *)
LEMMA FollowIInv == ASSUME IInv, NEW t \in Tails, Follow(t) PROVE IInv'
<1>1. got = Nil /\ how = {"truncated"} /\ wire \in Seq(Byte) /\ t \in Seq(Byte)
  BY DataFacts, SerdeAssumption DEF Follow, IInv
<1>2. sent # Nil
  BY <1>1 DEF IInv
<1>3. disturb("followed", wire \o t)
  BY DEF Follow
<1>4. how' = {"truncated", "followed"} /\ how' # {"extended"} /\ how' # {"truncated"}
  <2>1. how' = {"truncated"} \cup {"followed"}
    BY <1>1, <1>3 DEF disturb
  <2>2. "followed" \in how' /\ "followed" # "extended" /\ "followed" # "truncated"
    BY <2>1
  <2> QED BY <2>1, <2>2
<1>5. wire \o t \in Seq(Byte)
  BY <1>1, Concat
<1> QED BY <1>1, <1>2, <1>3, <1>4, <1>5, DisturbIInv

(* The invariant holds after a byte is changed. *)
LEMMA RewriteIInv ==
    ASSUME IInv, NEW i \in 1 .. Len(wire), NEW c \in ByteValues, Rewrite(i, c)
    PROVE  IInv'
<1>1. sent # Nil /\ got = Nil /\ how = {} /\ wire \in Seq(Byte) /\ c \in Byte
  BY DataFacts, SerdeAssumption DEF Rewrite, IInv
<1>2. disturb("rewritten", [wire EXCEPT ![i] = c])
  BY DEF Rewrite
<1>3. how' = {"rewritten"} /\ how' # {"extended"} /\ how' # {"truncated"}
  BY <1>1, <1>2 DEF disturb
<1>4. [wire EXCEPT ![i] = c] \in Seq(Byte)
  BY <1>1, ExceptSeq
<1> QED BY <1>1, <1>2, <1>3, <1>4, DisturbIInv

(* The invariant holds after the bytes are read. *)
LEMMA ReceiveIInv == ASSUME IInv, Receive PROVE IInv'
<1>1. sent # Nil /\ got' = received /\ UNCHANGED <<sent, signed, wire, how>>
  BY DEF Receive, received
<1>2. encoded' = encoded /\ received' = received /\ isMessage' = isMessage
  BY <1>1 DEF encoded, received, isMessage, handle, handleMessage, verify, VerifyVote,
    VerifySignature
<1>3. \A u, v : extendedBy(u, v)' = extendedBy(u, v)
  BY <1>1, <1>2 DEF extendedBy
<1>4. SentTyped'
  BY <1>1 DEF SentTyped, IInv
<1>5. History'
  BY <1>1, <1>2, <1>3 DEF IInv, History
<1> QED BY <1>1, <1>2, <1>4, <1>5 DEF IInv

(* The invariant holds when nothing happens. *)
LEMMA StutterIInv == ASSUME IInv, UNCHANGED vars PROVE IInv'
<1>1. UNCHANGED <<sent, signed, wire, how, got>>
  BY DEF vars
<1>2. encoded' = encoded /\ received' = received /\ isMessage' = isMessage
  BY <1>1 DEF encoded, received, isMessage, handle, handleMessage, verify, VerifyVote,
    VerifySignature
<1>3. \A u, v : extendedBy(u, v)' = extendedBy(u, v)
  BY <1>1, <1>2 DEF extendedBy
<1>4. SentTyped'
  BY <1>1 DEF SentTyped, IInv
<1>5. sent # Nil => History'
  BY <1>1, <1>2, <1>3 DEF IInv, History
<1> QED BY <1>1, <1>2, <1>4, <1>5 DEF IInv

(* Every step keeps the invariant. *)
LEMMA NextIInv == ASSUME IInv, [Next]_vars PROVE IInv'
<1>1. CASE \E chain \in Chains, v \in Votes : Publish("vote", v, chain)
  <2>1. PICK chain, v : chain \in Chains /\ v \in Votes /\ Publish("vote", v, chain)
    BY <1>1
  <2> QED BY <2>1, PublishIInv
<1>2. CASE \E chain \in Chains, p \in Proposals : Publish("proposal", p, chain)
  <2>1. PICK chain, p : chain \in Chains /\ p \in Proposals /\ Publish("proposal", p, chain)
    BY <1>2
  <2> QED BY <2>1, PublishIInv
<1>3. CASE \E c \in Commits : EncodeCommit(c)
  BY <1>3, EncodeCommitIInv
<1>4. CASE \E vals \in ProposerSets : EncodeProposerSet(vals)
  BY <1>4, EncodeProposerSetIInv
<1>5. CASE \E u, v \in UnknownFields : Extend(u, v)
  BY <1>5, ExtendIInv
<1>6. CASE \E n \in 0 .. Len(wire) : Truncate(n)
  BY <1>6, TruncateIInv
<1>7. CASE \E t \in Tails : Follow(t)
  BY <1>7, FollowIInv
<1>8. CASE \E i \in 1 .. Len(wire), b \in ByteValues : Rewrite(i, b)
  BY <1>8, RewriteIInv
<1>9. CASE Receive
  BY <1>9, ReceiveIInv
<1>10. CASE UNCHANGED vars
  BY <1>10, StutterIInv
<1> QED BY <1>1, <1>2, <1>3, <1>4, <1>5, <1>6, <1>7, <1>8, <1>9, <1>10 DEF Next

(* The bytes on their way are those of the value, but for what has happened to
   them, and the answer is what the reader makes of them. *)
THEOREM SerdeIInv == Spec => []IInv
<1>1. Init => IInv
  BY InitIInv
<1>2. IInv /\ [Next]_vars => IInv'
  BY NextIInv
<1> QED BY <1>1, <1>2, PTL DEF Spec

-----------------------------------------------------------------------------
(* What the reader can make of any bytes. *)

(* A value, or an error that is no panic. *)
Answers(V) == {ok(v) : v \in V} \cup {[err |-> e, v |-> Nil, i |-> 0] : e \in Errors \cup {"error"}}

(* An error is an answer of every reader. *)
LEMMA ErrorAnswers == ASSUME NEW V PROVE error \in Answers(V)
BY DEF error, fail, Answers

(* An answer is a value or an error, never a panic. *)
LEMMA AnswerFacts ==
    ASSUME NEW V, NEW r \in Answers(V)
    PROVE  /\ r.err # "panic"
           /\ r.err = "none" => r.v \in V /\ r = ok(r.v)
           /\ r.err # "none" => r.v = Nil
<1>1. CASE \E v \in V : r = ok(v)
  BY <1>1 DEF ok, read
<1>2. CASE \E e \in Errors \cup {"error"} : r = [err |-> e, v |-> Nil, i |-> 0]
  <2>1. PICK e \in Errors \cup {"error"} : r = [err |-> e, v |-> Nil, i |-> 0]
    BY <1>2
  <2>2. e # "none" /\ e # "panic"
    BY DEF Errors
  <2> QED BY <2>1, <2>2
<1> QED BY <1>1, <1>2 DEF Answers

(* A check passes the value on or gives an error. *)
LEMMA ValidIf ==
    ASSUME NEW V, NEW test, NEW v \in V
    PROVE  validIf(test, v) \in Answers(V) /\ (validIf(test, v).err = "none" <=> test)
<1>1. CASE test
  BY <1>1 DEF validIf, Answers, ok, read
<1>2. CASE ~ test
  BY <1>2, ErrorAnswers DEF validIf, error, fail
<1> QED BY <1>1, <1>2

(* VoteFromProto gives a vote or an error. *)
LEMMA VoteAnswer ==
    ASSUME NEW p \in VoteStruct
    PROVE  VoteFromProto(p) \in Answers(VoteValue)
<1>1. PICK v : v = [Type |-> p.Type, DataHash |-> p.DataHash.Hash, Timestamp |-> p.Timestamp,
                    ValidatorAddress |-> p.ValidatorAddress, ValidatorIndex |-> p.ValidatorIndex,
                    Signature |-> p.Signature]
  OBVIOUS
<1>2. v \in VoteValue
  BY <1>1 DEF VoteStruct, DataHashStruct, VoteValue
<1>3. validIf(ValidateVote(v), v) \in Answers(VoteValue)
  BY <1>2, ValidIf
<1> QED BY <1>1, <1>3, ErrorAnswers DEF VoteFromProto

(* ProposalFromProto gives a proposal or an error. *)
LEMMA ProposalAnswer ==
    ASSUME NEW p \in ProposalStruct
    PROVE  ProposalFromProto(p) \in Answers(ProposalValue)
<1>1. PICK v : v = [Type |-> p.Type, Round |-> p.Round, POLRound |-> p.PolRound,
                    Data |-> p.Data, Timestamp |-> p.Timestamp, Signature |-> p.Signature]
  OBVIOUS
<1>2. v \in ProposalValue
  BY <1>1 DEF ProposalStruct, ProposalValue
<1>3. validIf(ValidateProposal(v), v) \in Answers(ProposalValue)
  BY <1>2, ValidIf
<1> QED BY <1>1, <1>3 DEF ProposalFromProto

(* The canonical form of a proposal is a message of its type. *)
LEMMA CanonicalProposal ==
    ASSUME NEW p \in ProposalValue, NEW c \in Seq(Byte)
    PROVE  CanonicalizeProposal(c, ProposalToProto(p)) \in CanonicalProposalStruct
<1>1. CanonicalizeDataHash(p.Data) \in CanonicalDataHashStruct \cup {Nil}
  BY DEF ProposalValue, CanonicalizeDataHash, CanonicalDataHashStruct
<1> QED BY <1>1, SmallInts DEF ProposalValue, CanonicalizeProposal, ProposalToProto,
    CanonicalProposalStruct

(* The canonical form of a vote is a message of its type. *)
LEMMA CanonicalVote ==
    ASSUME NEW v \in VoteValue, NEW c \in Seq(Byte)
    PROVE  CanonicalizeVote(c, VoteToProto(v)) \in CanonicalVoteStruct
<1>1. CanonicalizeDataHash(v.DataHash) \in CanonicalDataHashStruct \cup {Nil}
  BY DEF VoteValue, CanonicalizeDataHash, CanonicalDataHashStruct
<1> QED BY <1>1, SmallInts DEF VoteValue, CanonicalizeVote, VoteToProto, DataHashToProto,
    CanonicalVoteStruct

(* What is signed is the length of the canonical message and the message. *)
LEMMA Delimited ==
    ASSUME NEW T \in Types, NEW m \in Struct[T], NEW c, c = MarshalToSizedBuffer(T, m)
    PROVE  /\ MarshalDelimited(T, m) = groups(uint64(Len(c))) \o c
           /\ MarshalDelimited(T, m) \in Seq(Byte) /\ MarshalDelimited(T, m) # Nil
<1>1. Marshal(T, m) = c /\ c \in Seq(Byte) /\ Size(T, m) = Len(c) /\ c # Nil
  BY MarshalFillsSize
<1>2. uint64(Len(c)) \in Nat /\ uint64(Len(c)) < Word
  BY <1>1, LenProperties, ConversionTypes
<1>3. groups(uint64(Len(c))) \o c \in Seq(Byte)
  BY <1>1, <1>2, GroupsFacts, Concat
<1> QED BY <1>1, <1>3, NilAssumption DEF MarshalDelimited

(* The sign bytes of a proposal fail exactly if its data is no hash. *)
LEMMA ProposalSigned ==
    ASSUME NEW p \in ProposalValue, NEW c \in Seq(Byte)
    PROVE  ProposalSignBytes(c, ProposalToProto(p)) = Nil <=> ~ ValidateHash(p.Data)
<1>1. MarshalDelimited("CanonicalProposal", CanonicalizeProposal(c, ProposalToProto(p))) # Nil
  BY CanonicalProposal, Delimited DEF Types, Types1, Struct
<1>2. ProposalToProto(p).Data = p.Data
  BY DEF ProposalToProto
<1> QED BY <1>1, <1>2 DEF ProposalSignBytes

(* What handle makes of the bytes of a message: an error, a message that was
   verified, or a proposal whose data is no hash. *)
Handled(r) ==
    \/ r \in Answers(VoteValue \cup ProposalValue)
    \/ r.err = "panic" /\ r.v \in ProposalValue /\ ~ ValidateHash(r.v.Data)

(* A handler that has read a message gives an answer, or panics on a
   proposal whose data is no hash. *)
LEMMA Verified ==
    ASSUME NEW case, NEW msg,
           (case = "Message_Vote" /\ msg \in Answers(VoteValue))
           \/ (case # "Message_Vote" /\ msg \in Answers(ProposalValue))
    PROVE  Handled(verify(case, msg))
<1>0. Here \in Seq(Byte)
  BY SerdeAssumption
<1>1. CASE msg.err # "none"
  <2>1. verify(case, msg) = msg
    BY <1>1 DEF verify
  <2>2. msg \in Answers(VoteValue \cup ProposalValue)
    BY DEF Answers
  <2> QED BY <2>1, <2>2 DEF Handled
<1>2. CASE msg.err = "none" /\ case = "Message_Vote"
  <2>1. msg.v \in VoteValue
    BY <1>2, AnswerFacts
  <2>2. verify(case, msg) = validIf(VerifyVote(Here, msg.v), msg.v)
    BY <1>2 DEF verify
  <2>3. verify(case, msg) \in Answers(VoteValue \cup ProposalValue)
    BY <2>1, <2>2, ValidIf
  <2> QED BY <2>3 DEF Handled
<1>3. CASE msg.err = "none" /\ case # "Message_Vote"
  <2>1. msg.v \in ProposalValue
    BY <1>3, AnswerFacts
  <2>2. PICK s : s = ProposalSignBytes(Here, ProposalToProto(msg.v))
    OBVIOUS
  <2>3. s = Nil <=> ~ ValidateHash(msg.v.Data)
    BY <1>0, <2>1, <2>2, ProposalSigned
  <2>4. CASE s = Nil
    <3>1. verify(case, msg) = [fail("panic") EXCEPT !.v = msg.v]
      BY <1>3, <2>2, <2>4 DEF verify
    <3>2. verify(case, msg).err = "panic" /\ verify(case, msg).v = msg.v
      BY <3>1 DEF fail
    <3> QED BY <2>1, <2>3, <2>4, <3>2 DEF Handled
  <2>5. CASE s # Nil
    <3>1. verify(case, msg) = validIf(VerifySignature(s, msg.v.Signature), msg.v)
      BY <1>3, <2>2, <2>5 DEF verify
    <3>2. verify(case, msg) \in Answers(VoteValue \cup ProposalValue)
      BY <2>1, <3>1, ValidIf
    <3> QED BY <3>2 DEF Handled
  <2> QED BY <2>4, <2>5
<1> QED BY <1>1, <1>2, <1>3

(* A failed Unmarshal is an error and no panic. *)
LEMMA FailedAnswers == ASSUME NEW V, NEW r \in Failed PROVE r.err # "panic" /\ r.err # "none"
BY DEF Failed, Errors

(* A handler answers or has the known panic, whatever bytes it is given. *)
LEMMA HandleAnswer ==
    ASSUME NEW b \in Data
    PROVE  \/ handle(b) \in Failed
           \/ Handled(handle(b))
<1>1. PICK r : r = Unmarshal("Message", b)
  OBVIOUS
<1>2. r \in Results(MessageStruct, Len(b))
  BY <1>1, UnmarshalTyped DEF Readable, Struct
<1>3. handle(b) = handleMessage(r)
  BY <1>1 DEF handle
<1>4. CASE r.err # "none"
  BY <1>2, <1>3, <1>4, ResultFacts DEF handleMessage
<1>5. CASE r.err = "none"
  <2>1. PICK m \in MessageStruct : m = r.v
    BY <1>2, <1>5, ResultFacts
  <2>2. handle(b) = verify(m.Sum.case, MsgFromProto(m))
    BY <1>3, <1>5, <2>1 DEF handleMessage
  <2>3. CASE m.Sum = Nil
    <3>1. MsgFromProto(m) = error
      BY <2>3 DEF MsgFromProto
    <3>2. error \in Answers(VoteValue) /\ error \in Answers(ProposalValue)
      BY ErrorAnswers
    <3> QED BY <2>2, <3>1, <3>2, Verified
  <2>4. CASE m.Sum # Nil /\ m.Sum.case = "Message_Proposal" /\ m.Sum.Proposal \in ProposalStruct
    <3>1. MsgFromProto(m) = ProposalFromProto(m.Sum.Proposal)
      BY <2>4 DEF MsgFromProto
    <3>2. MsgFromProto(m) \in Answers(ProposalValue)
      BY <2>4, <3>1, ProposalAnswer
    <3>3. m.Sum.case # "Message_Vote"
      BY <2>4
    <3> QED BY <2>2, <3>2, <3>3, Verified
  <2>5. CASE m.Sum # Nil /\ m.Sum.case = "Message_Vote" /\ m.Sum.Vote \in VoteStruct
    <3>1. MsgFromProto(m) = VoteFromProto(m.Sum.Vote)
      BY <2>5 DEF MsgFromProto
    <3>2. MsgFromProto(m) \in Answers(VoteValue)
      BY <2>5, <3>1, VoteAnswer
    <3> QED BY <2>2, <2>5, <3>2, Verified
  <2>6. m.Sum \in Message_ProposalStruct \cup Message_VoteStruct \cup {Nil}
    BY DEF MessageStruct
  <2> QED BY <2>3, <2>4, <2>5, <2>6 DEF Message_ProposalStruct, Message_VoteStruct
<1> QED BY <1>4, <1>5

(* Decoding a commit never panics. *)
LEMMA CommitAnswer ==
    ASSUME NEW b \in Data
    PROVE  decodeCommit(Unmarshal("Commit", b)).err # "panic"
<1>1. PICK r : r = Unmarshal("Commit", b)
  OBVIOUS
<1>2. r \in Results(Struct["Commit"], Len(b))
  BY <1>1, UnmarshalTyped DEF Readable, Types, Types2
<1>3. r.err # "panic"
  BY <1>2, ResultFacts
<1>4. CommitFromProto(r.v).err # "panic"
  BY DEF CommitFromProto, validIf, ok, read, error, fail
<1> QED BY <1>1, <1>3, <1>4 DEF decodeCommit

(* Decoding a proposer of a set gives a proposer or an error. *)
LEMMA ValidatorAnswer ==
    ASSUME NEW p \in ValidatorStruct \cup {Nil}
    PROVE  /\ ValidatorFromProto(p) \in Answers(ProposerValue)
           /\ ValidatorFromProto(p).err = "none" => p \in ValidatorStruct
<1>1. CASE p \in ValidatorStruct
  <2>1. [p EXCEPT !.PubKey = p.PubKey.Ed25519] \in ProposerValue
    BY <1>1 DEF ValidatorStruct, PublicKeyStruct, ProposerValue
  <2> QED BY <1>1, <2>1, ErrorAnswers DEF ValidatorFromProto, Answers
<1>2. CASE p = Nil
  BY <1>2, ErrorAnswers DEF ValidatorFromProto, error, fail
<1> QED BY <1>1, <1>2

(* A set with too much power is the only reason to panic. *)
LEMMA SetAnswer ==
    ASSUME NEW b \in Data, NEW r, r = decodeProposerSet(Unmarshal("ValidatorSet", b)),
           r.err = "panic"
    PROVE  r.v # Nil /\ r.v.totalVotingPower = Nil
<1>1. PICK s : s = Unmarshal("ValidatorSet", b)
  OBVIOUS
<1>2. s \in Results(Struct["ValidatorSet"], Len(b))
  BY <1>1, UnmarshalTyped DEF Readable, Types, Types2
<1>3. s.err = "none"
  BY <1>1, <1>2, ResultFacts DEF decodeProposerSet
<1>4. PICK vp \in ValidatorSetStruct : vp = s.v
  BY <1>2, <1>3, ResultFacts DEF Struct
<1>5. r = ValidatorSetFromProto(vp)
  BY <1>1, <1>3, <1>4 DEF decodeProposerSet
<1>6. PICK members : members = [i \in DOMAIN vp.Validators |-> ValidatorFromProto(vp.Validators[i])]
  OBVIOUS
<1>7. PICK proposer : proposer = ValidatorFromProto(vp.Proposer)
  OBVIOUS
<1>8. PICK vals : vals = [Proposers        |-> [i \in DOMAIN members |-> members[i].v],
                          Proposer         |-> proposer.v,
                          totalVotingPower |-> TotalVotingPower([i \in DOMAIN members |-> members[i].v])]
  OBVIOUS
<1>9. r = IF proposer.err # "none" \/ \E i \in DOMAIN members : members[i].err # "none"
          THEN error
          ELSE IF vals.totalVotingPower = Nil THEN [fail("panic") EXCEPT !.v = vals]
          ELSE validIf(ValidateProposerSet(vals), vals)
  BY <1>5, <1>6, <1>7, <1>8 DEF ValidatorSetFromProto
<1>10. error.err # "panic" /\ validIf(ValidateProposerSet(vals), vals).err # "panic"
  BY DEF validIf, ok, read, error, fail
<1>11. /\ proposer.err = "none" /\ \A i \in DOMAIN members : members[i].err = "none"
       /\ vals.totalVotingPower = Nil /\ r.v = vals
  BY <1>9, <1>10 DEF fail
<1>12. PICK n \in Nat : n = Len(vp.Validators) /\ DOMAIN vp.Validators = 1 .. n
        /\ \A i \in 1 .. n : vp.Validators[i] \in ValidatorStruct
  BY LenProperties DEF ValidatorSetStruct
<1>13. \A i \in 1 .. n : members[i].v \in ProposerValue
  <2>1. ASSUME NEW i \in 1 .. n PROVE members[i].v \in ProposerValue
    <3>1. members[i] = ValidatorFromProto(vp.Validators[i]) /\ members[i].err = "none"
      BY <1>6, <1>11, <1>12
    <3>2. vp.Validators[i] \in ValidatorStruct \cup {Nil}
      BY <1>12
    <3> QED BY <3>1, <3>2, ValidatorAnswer, AnswerFacts
  <2> QED BY <2>1
<1>14. [i \in DOMAIN members |-> members[i].v] \in Seq(ProposerValue)
  BY <1>6, <1>12, <1>13, SeqDef
<1>15. proposer.v \in ProposerValue
  <2>1. vp.Proposer \in ValidatorStruct \cup {Nil}
    BY DEF ValidatorSetStruct
  <2> QED BY <1>7, <1>11, <2>1, ValidatorAnswer, AnswerFacts
<1>16. vals \in [Proposers : Seq(ProposerValue), Proposer : ProposerValue, totalVotingPower : {Nil}]
  BY <1>8, <1>11, <1>14, <1>15
<1>17. vals # Nil
  BY <1>16, ProposerSetsAssumption
<1> QED BY <1>11, <1>17

(* The invariant implies that panics are the known one. *)
LEMMA PanicsKnown == ASSUME IInv PROVE KnownPanics
<1> SUFFICES ASSUME got # Nil, got.err = "panic"
             PROVE  /\ got.v # Nil
                    /\ \/ isMessage /\ ~ ValidateHash(got.v.Data)
                       \/ sent.kind = "set" /\ got.v.totalVotingPower = Nil
  BY DEF KnownPanics
<1>1. sent # Nil /\ got = received /\ wire \in Data
  BY DEF IInv
<1>2. CASE isMessage
  <2>1. got = handle(wire)
    <3>1. sent.kind # "commit" /\ sent.kind # "set"
      BY <1>2 DEF isMessage
    <3> QED BY <1>1, <1>2, <3>1 DEF received
  <2>2. Handled(got)
    BY <1>1, <2>1, HandleAnswer, FailedAnswers
  <2>3. got.v \in ProposalValue /\ ~ ValidateHash(got.v.Data)
    BY <2>2, AnswerFacts DEF Handled
  <2> QED BY <1>2, <2>3, SerdeAssumption
<1>3. CASE ~ isMessage /\ sent.kind = "commit"
  <2>1. got = decodeCommit(Unmarshal("Commit", wire))
    BY <1>1, <1>3 DEF received
  <2> QED BY <1>1, <2>1, CommitAnswer
<1>4. CASE ~ isMessage /\ sent.kind = "set"
  <2>1. got = decodeProposerSet(Unmarshal("ValidatorSet", wire))
    BY <1>1, <1>4 DEF received
  <2> QED BY <1>1, <1>4, <2>1, SetAnswer
<1>5. sent.kind \in {"vote", "proposal", "commit", "set"}
  BY <1>1 DEF IInv, SentTyped
<1> QED BY <1>1, <1>2, <1>3, <1>4, <1>5 DEF isMessage

(* Whatever happens to the bytes on their way, Unmarshal and the conversions
   never read past them; a proposal whose data is no hash, and a set with too
   much power, are the only reasons to panic. *)
THEOREM SerdeKnownPanics == Spec => []KnownPanics
BY SerdeIInv, PanicsKnown, PTL

-----------------------------------------------------------------------------
(* The leaf of the set's hash for a proposer can be read back. *)
LEMMA LeafRead ==
    ASSUME NEW v \in ProposerValue, isMember(v)
    PROVE  Unmarshal("SimpleValidator", ProposerBytes(v)).v =
               [PubKey |-> PubKeyToProto(v.PubKey), VotingPower |-> v.VotingPower]
<1>1. PICK m : m = [PubKey |-> PubKeyToProto(v.PubKey), VotingPower |-> v.VotingPower]
  OBVIOUS
<1>2. m \in SimpleValidatorStruct
  BY <1>1 DEF SimpleValidatorStruct, PubKeyToProto, PublicKeyStruct, ProposerValue
<1>3. PICK T : T = "SimpleValidator"
  OBVIOUS
<1>4. T \in Types /\ m \in Struct[T]
  BY <1>2, <1>3 DEF Types, Types1, Struct
<1>5. ProposerBytes(v) = Marshal(T, m)
  BY <1>1, <1>3 DEF ProposerBytes
<1>6. Marshal(T, m) \in Seq(Byte) /\ Marshal(T, m) # Nil
  BY <1>4, MarshalFillsSize
<1>7. Marshal(T, m) \in Data
  BY <1>5, <1>6 DEF isMember, Fits, Data
<1>8. Unmarshal(T, Marshal(T, m)) = read(m, Len(Marshal(T, m)))
  BY <1>4, <1>7, RoundTrip
<1>9. Unmarshal(T, Marshal(T, m)).v = m
  BY <1>8 DEF read
<1> QED BY <1>1, <1>3, <1>5, <1>9

(* The leaf of a proposer in the Merkle tree can be read back, so it is
   unique. *)
LEMMA LeavesAreRead == ASSUME IInv PROVE LeavesUnique
<1> SUFFICES ASSUME sent # Nil, sent.kind = "set", NEW i \in DOMAIN sent.value.Proposers,
                    NEW v, v = sent.value.Proposers[i]
             PROVE  Unmarshal("SimpleValidator", ProposerBytes(v)).v =
                        [PubKey |-> PubKeyToProto(v.PubKey), VotingPower |-> v.VotingPower]
  BY DEF LeavesUnique
<1>1. SetValue(sent.value)
  BY SetValues DEF IInv, SentTyped
<1>2. sent.value.Proposers \in Seq(ProposerValue)
  BY <1>1 DEF SetValue
<1>3. sent.value.Proposers # <<>>
  <2>1. DOMAIN <<>> = {}
    OBVIOUS
  <2> QED BY <2>1
<1>4. v \in ProposerValue
  BY <1>2, LenProperties
<1>5. v \in ToSet(sent.value.Proposers)
  BY DEF ToSet
<1>6. isMember(v)
  BY <1>1, <1>3, <1>5 DEF SetValue
<1> QED BY <1>4, <1>6, LeafRead

(* The comment on Proposer.Bytes, "the unique encoding of a validator with a
   given voting power", for every proposer: key and power can be read back from
   the leaf that it adds to the hash of its set. *)
THEOREM SerdeLeavesUnique == Spec => []LeavesUnique
BY SerdeIInv, LeavesAreRead, PTL

-----------------------------------------------------------------------------
(* What becomes of a message that is received as it was sent, or extended. *)

(* What MsgFromProto makes of the proto of a message. *)
decoded(kind, m) ==
    IF kind = "proposal" THEN ProposalFromProto(ProposalToProto(m)) ELSE VoteFromProto(VoteToProto(m))

(* What becomes of a message that was sent. *)
LEMMA DecodedFacts ==
    ASSUME NEW kind, NEW m, Kind(kind, m)
    PROVE  /\ kind = "vote" => decoded(kind, m) = IF ValidateVote(m) THEN ok(m) ELSE error
           /\ kind = "proposal" => decoded(kind, m) = IF ValidateProposal(m) THEN ok(m) ELSE error
<1>1. CASE kind = "vote" /\ m \in VoteValue
  <2>1. VoteToProto(m).DataHash.Hash = m.DataHash
    BY DEF VoteToProto, DataHashToProto
  <2>2. DataHashFromProto(VoteToProto(m).DataHash).err = IF ValidateHash(m.DataHash) THEN "none" ELSE "error"
    BY <2>1 DEF DataHashFromProto, validIf, ok, error, read, fail
  <2>3. m = [Type |-> m.Type, DataHash |-> m.DataHash, Timestamp |-> m.Timestamp,
              ValidatorAddress |-> m.ValidatorAddress, ValidatorIndex |-> m.ValidatorIndex,
              Signature |-> m.Signature]
    BY <1>1 DEF VoteValue
  <2>4. m = [Type |-> VoteToProto(m).Type, DataHash |-> VoteToProto(m).DataHash.Hash,
             Timestamp |-> VoteToProto(m).Timestamp,
             ValidatorAddress |-> VoteToProto(m).ValidatorAddress,
             ValidatorIndex |-> VoteToProto(m).ValidatorIndex,
             Signature |-> VoteToProto(m).Signature]
    BY <2>3 DEF VoteToProto, DataHashToProto
  <2>5. VoteFromProto(VoteToProto(m)) = IF ~ ValidateHash(m.DataHash) THEN error ELSE validIf(ValidateVote(m), m)
    BY <2>2, <2>4 DEF VoteFromProto
  <2>6. ValidateVote(m) => ValidateHash(m.DataHash)
    BY DEF ValidateVote
  <2> QED BY <1>1, <2>5, <2>6 DEF decoded, validIf
<1>2. CASE kind = "proposal" /\ m \in ProposalValue
  <2>1. m = [Type |-> m.Type, Round |-> m.Round, POLRound |-> m.POLRound,
             Data |-> m.Data, Timestamp |-> m.Timestamp, Signature |-> m.Signature]
    BY <1>2 DEF ProposalValue
  <2>2. m = [Type |-> ProposalToProto(m).Type, Round |-> ProposalToProto(m).Round,
             POLRound |-> ProposalToProto(m).PolRound, Data |-> ProposalToProto(m).Data,
             Timestamp |-> ProposalToProto(m).Timestamp, Signature |-> ProposalToProto(m).Signature]
    BY <2>1 DEF ProposalToProto
  <2>3. ProposalFromProto(ProposalToProto(m)) = validIf(ValidateProposal(m), m)
    BY <2>2 DEF ProposalFromProto
  <2> QED BY <1>2, <2>3 DEF decoded, validIf
<1> QED BY <1>1, <1>2 DEF Kind

(* A message that arrives whole is verified as what was sent. *)
LEMMA MessageReceived ==
    ASSUME IInv, isMessage, how = {} \/ how = {"extended"}
    PROVE  handle(wire) = verify(caseOf(sent.kind), decoded(sent.kind, sent.value))
<1>1. PICK kind : kind = sent.kind
  OBVIOUS
<1>2. PICK m : m = sent.value
  OBVIOUS
<1>3. Kind(kind, m) /\ sent # Nil /\ kind \in {"vote", "proposal"}
  BY <1>1, <1>2, SentMessage DEF IInv, isMessage
<1>4. PICK U : U = typeOf(kind)
  OBVIOUS
<1>5. PICK p : p = protoOf(kind, m)
  OBVIOUS
<1>6. PICK key : key = keyOf(kind)
  OBVIOUS
<1>7. U \in {"Proposal", "Vote"} /\ key = IF U = "Proposal" THEN 10 ELSE 18
  BY <1>4, <1>6 DEF typeOf, keyOf
<1>8. p \in Struct[U] /\ Marshal1(U, p) \in Seq(Byte)
      /\ encodeMsg(kind, m) = item(key, Marshal1(U, p)) /\ encodeMsg(kind, m) \in Seq(Byte)
  BY <1>3, <1>4, <1>5, <1>6, EncodedMessage DEF bodyOf
<1>9. encoded = encodeMsg(kind, m)
  <2>1. sent.kind # "commit" /\ sent.kind # "set"
    BY <1>1, <1>3
  <2> QED BY <1>1, <1>2, <2>1 DEF encoded
<1>10. \E u, v : /\ u \in Seq(Byte) /\ (u = <<>> \/ unknownField(u))
                 /\ v \in Seq(Byte) /\ (v = <<>> \/ unknownField(v))
                 /\ wire = item(key, Marshal1(U, p) \o v) \o u
  <2>1. CASE how = {}
    <3>1. wire = item(key, Marshal1(U, p))
      BY <1>3, <1>8, <1>9, <2>1 DEF IInv, History
    <3>2. PICK c : c = Marshal1(U, p)
      OBVIOUS
    <3>3. c \in Seq(Byte) /\ c \o <<>> = c
      BY <1>8, <3>2
    <3>4. wire \in Seq(Byte) /\ wire \o <<>> = wire
      BY <1>8, <3>1
    <3>5. wire = item(key, c \o <<>>) \o <<>> /\ <<>> \in Seq(Byte)
      BY <3>1, <3>2, <3>3, <3>4
    <3> QED BY <3>2, <3>5
  <2>2. CASE how = {"extended"}
    <3>1. PICK u, v \in UnknownFields : wire = extendedBy(u, v)
      BY <1>3, <2>2 DEF IInv, History
    <3>2. wire = item(key, Marshal1(U, p) \o v) \o u
      BY <1>1, <1>2, <1>4, <1>5, <1>6, <3>1 DEF extendedBy, bodyOf
    <3>3. /\ u \in Seq(Byte) /\ (u = <<>> \/ unknownField(u))
          /\ v \in Seq(Byte) /\ (v = <<>> \/ unknownField(v))
      BY SerdeAssumption
    <3> QED BY <3>2, <3>3
  <2> QED BY <2>1, <2>2
<1>11. PICK u, v : /\ u \in Seq(Byte) /\ (u = <<>> \/ unknownField(u))
                   /\ v \in Seq(Byte) /\ (v = <<>> \/ unknownField(v))
                   /\ wire = item(key, Marshal1(U, p) \o v) \o u
  BY <1>10
<1>12. wire \in Data
  BY DEF IInv
<1>13. PICK b : b = wire
  OBVIOUS
<1>14. Carries(b, U, p, key, u, v)
  BY <1>7, <1>8, <1>11, <1>12, <1>13 DEF Carries, Extra
<1>16. Unmarshal("Message", b) = read(inMessage(U, p), Len(b))
  BY <1>14, Carried
<1>17. PICK t : t = Unmarshal("Message", b)
  OBVIOUS
<1>18. t.err = "none" /\ t.v = inMessage(U, p)
  BY <1>16, <1>17 DEF read
<1>19. CASE kind = "proposal"
  <2>1. U = "Proposal" /\ p = ProposalToProto(m)
    BY <1>4, <1>5, <1>19 DEF typeOf, protoOf
  <2>2. t.v.Sum.case = "Message_Proposal" /\ t.v.Sum.Proposal = p /\ t.v.Sum = Message_Proposal(p)
    BY <1>18, <2>1 DEF inMessage, Message_Proposal
  <2>3. t.v.Sum # Nil
    <3>1. p \in ProposalStruct
      BY <1>8, <2>1 DEF Struct
    <3>2. Message_Proposal(p) \in Message_ProposalStruct
      BY <3>1 DEF Message_Proposal, Message_ProposalStruct
    <3>3. Message_Proposal(p) \in Struct["Message_Proposal"] /\ "Message_Proposal" \in DOMAIN Struct
      BY <3>2 DEF Struct
    <3> QED BY <2>2, <3>3, NilAssumption
  <2>4. MsgFromProto(t.v) = decoded(kind, m)
    BY <1>19, <2>1, <2>2, <2>3 DEF MsgFromProto, decoded
  <2>5. handleMessage(t) = verify("Message_Proposal", decoded(kind, m))
    BY <1>18, <2>2, <2>4 DEF handleMessage
  <2> QED BY <1>1, <1>2, <1>13, <1>17, <1>19, <2>5 DEF handle, caseOf
<1>20. CASE kind = "vote"
  <2>1. U = "Vote" /\ p = VoteToProto(m)
    BY <1>4, <1>5, <1>20 DEF typeOf, protoOf
  <2>2. t.v.Sum.case = "Message_Vote" /\ t.v.Sum.Vote = p /\ t.v.Sum = Message_Vote(p)
    BY <1>18, <2>1 DEF inMessage, Message_Vote
  <2>3. t.v.Sum # Nil
    <3>1. p \in VoteStruct
      BY <1>8, <2>1 DEF Struct
    <3>2. Message_Vote(p) \in Message_VoteStruct
      BY <3>1 DEF Message_Vote, Message_VoteStruct
    <3>3. Message_Vote(p) \in Struct["Message_Vote"] /\ "Message_Vote" \in DOMAIN Struct
      BY <3>2 DEF Struct
    <3> QED BY <2>2, <3>3, NilAssumption
  <2>4. MsgFromProto(t.v) = decoded(kind, m)
    BY <1>20, <2>1, <2>2, <2>3 DEF MsgFromProto, decoded
  <2>5. handleMessage(t) = verify("Message_Vote", decoded(kind, m))
    BY <1>18, <2>2, <2>4 DEF handleMessage
  <2> QED BY <1>1, <1>2, <1>13, <1>17, <1>20, <2>5 DEF handle, caseOf
<1> QED BY <1>3, <1>19, <1>20

-----------------------------------------------------------------------------
(* What a message's sign bytes say. *)

statementType(kind) == IF kind = "vote" THEN "CanonicalVote" ELSE "CanonicalProposal"

canonical(c, kind, m) ==
    IF kind = "vote" THEN CanonicalizeVote(c, VoteToProto(m))
    ELSE CanonicalizeProposal(c, ProposalToProto(m))

(* b is signed for message m and concord c: s is the canonical message and x
   are its bytes. *)
Signs(b, c, kind, m, T, s, x) ==
    /\ Kind(kind, m) /\ c \in Seq(Byte) /\ T = statementType(kind) /\ s = canonical(c, kind, m)
    /\ T \in Types1 /\ s \in Struct[T]
    /\ x = MarshalToSizedBuffer(T, s) /\ x = Marshal(T, s) /\ x \in Data
    /\ b \in Data /\ b = groups(uint64(Len(x))) \o x
    /\ kind = "proposal" => ValidateHash(m.Data)

(* Sign bytes, of whatever can be signed, are the canonical message behind its
   length. *)
LEMMA SignedBytes ==
    ASSUME NEW kind, NEW m, Kind(kind, m), NEW c \in Seq(Byte),
           NEW b, b = SignBytes(c, kind, m), b # Nil, Fits(b)
    PROVE  \E T, s, x : Signs(b, c, kind, m, T, s, x)
<1>1. PICK T \in Types : T = statementType(kind) /\ T \in Types1
  BY DEF statementType, Types, Types1
<1>2. PICK s : s = canonical(c, kind, m)
  OBVIOUS
<1>3. s \in Struct[T]
  <2>1. CASE kind = "vote" /\ m \in VoteValue
    BY <1>1, <1>2, <2>1, CanonicalVote DEF canonical, statementType, Struct
  <2>2. CASE kind = "proposal" /\ m \in ProposalValue
    BY <1>1, <1>2, <2>2, CanonicalProposal DEF canonical, statementType, Struct
  <2> QED BY <2>1, <2>2 DEF Kind
<1>4. PICK x : x = MarshalToSizedBuffer(T, s)
  OBVIOUS
<1>5. b = MarshalDelimited(T, s) /\ (kind = "proposal" => ValidateHash(m.Data))
  <2>1. CASE kind = "vote"
    BY <1>1, <1>2, <2>1 DEF SignBytes, VoteSignBytes, canonical, statementType
  <2>2. CASE kind = "proposal"
    <3>1. ProposalToProto(m).Data = m.Data
      BY DEF ProposalToProto
    <3> QED BY <1>1, <1>2, <2>2, <3>1 DEF SignBytes, ProposalSignBytes, canonical,
        statementType
  <2> QED BY <2>1, <2>2 DEF Kind
<1>6. b = groups(uint64(Len(x))) \o x /\ b \in Seq(Byte)
  BY <1>3, <1>4, <1>5, Delimited
<1>7. b \in Data
  BY <1>6 DEF Fits, Data
<1>8. x \in Seq(Byte) /\ x = Marshal(T, s)
  BY <1>3, <1>4, MarshalFillsSize
<1>9. x \in Data
  BY <1>6, <1>7, <1>8, DelimitedRead
<1> QED BY <1>1, <1>2, <1>3, <1>4, <1>5, <1>6, <1>7, <1>8, <1>9 DEF Signs

(* A hash, or its absence, can be told from what is signed of it. *)
LEMMA HashTold ==
    ASSUME NEW g \in Seq(Byte), NEW h \in Seq(Byte), CanonicalizeDataHash(g) = CanonicalizeDataHash(h)
    PROVE  g = h
<1>1. \A e : [Hash |-> e].Hash = e
  OBVIOUS
<1>2. \A e \in Seq(Byte) : [Hash |-> e] # Nil
  <2>1. \A e \in Seq(Byte) : [Hash |-> e] \in CanonicalDataHashStruct
    BY DEF CanonicalDataHashStruct
  <2>2. Nil \notin CanonicalDataHashStruct
    BY NilAssumption DEF Struct
  <2> QED BY <2>1, <2>2
<1>3. CASE g = <<>> /\ h # <<>>
  BY <1>2, <1>3 DEF CanonicalizeDataHash
<1>4. CASE g # <<>> /\ h = <<>>
  BY <1>2, <1>4 DEF CanonicalizeDataHash
<1>5. CASE g # <<>> /\ h # <<>>
  BY <1>1, <1>5 DEF CanonicalizeDataHash
<1> QED BY <1>3, <1>4, <1>5

(* The canonical message says for which concord it is, and its statement. *)
LEMMA CanonicalTold ==
    ASSUME NEW kind, NEW m, NEW n, Kind(kind, m), Kind(kind, n), NEW c, NEW d,
           canonical(c, kind, m) = canonical(d, kind, n)
    PROVE  c = d /\ Statement(m) = Statement(n)
<1>1. CASE kind = "vote"
  <2>1. m \in VoteValue /\ n \in VoteValue
    BY <1>1 DEF Kind
  <2>2. CanonicalizeVote(c, VoteToProto(m)) = CanonicalizeVote(d, VoteToProto(n))
    BY <1>1 DEF canonical
  <2>3. /\ CanonicalizeVote(c, VoteToProto(m)).ChainID = c /\ CanonicalizeVote(d, VoteToProto(n)).ChainID = d
        /\ CanonicalizeVote(c, VoteToProto(m)).Type = m.Type /\ CanonicalizeVote(d, VoteToProto(n)).Type = n.Type
        /\ CanonicalizeVote(c, VoteToProto(m)).Timestamp = m.Timestamp
        /\ CanonicalizeVote(d, VoteToProto(n)).Timestamp = n.Timestamp
        /\ CanonicalizeVote(c, VoteToProto(m)).DataHash = CanonicalizeDataHash(m.DataHash)
        /\ CanonicalizeVote(d, VoteToProto(n)).DataHash = CanonicalizeDataHash(n.DataHash)
    BY DEF CanonicalizeVote, VoteToProto, DataHashToProto
  <2>4. m.DataHash \in Seq(Byte) /\ n.DataHash \in Seq(Byte)
    BY <2>1 DEF VoteValue
  <2>5. CanonicalizeDataHash(m.DataHash) = CanonicalizeDataHash(n.DataHash)
    BY <2>2, <2>3
  <2>6. m.DataHash = n.DataHash
    BY <2>4, <2>5, HashTold
  <2>7. "Data" \notin DOMAIN m /\ "Data" \notin DOMAIN n
    BY <2>1 DEF VoteValue
  <2>8. Statement(m) = <<m.Type, m.DataHash, m.Timestamp>> /\ Statement(n) = <<n.Type, n.DataHash, n.Timestamp>>
    BY <2>7 DEF Statement
  <2> QED BY <2>2, <2>3, <2>6, <2>8
<1>2. CASE kind = "proposal"
  <2>1. m \in ProposalValue /\ n \in ProposalValue
    BY <1>2 DEF Kind
  <2>2. CanonicalizeProposal(c, ProposalToProto(m)) = CanonicalizeProposal(d, ProposalToProto(n))
    BY <1>2 DEF canonical
  <2>3. /\ CanonicalizeProposal(c, ProposalToProto(m)).ChainID = c /\ CanonicalizeProposal(d, ProposalToProto(n)).ChainID = d
        /\ CanonicalizeProposal(c, ProposalToProto(m)).Timestamp = m.Timestamp
        /\ CanonicalizeProposal(d, ProposalToProto(n)).Timestamp = n.Timestamp
        /\ CanonicalizeProposal(c, ProposalToProto(m)).DataHash = CanonicalizeDataHash(m.Data)
        /\ CanonicalizeProposal(d, ProposalToProto(n)).DataHash = CanonicalizeDataHash(n.Data)
    BY DEF CanonicalizeProposal, ProposalToProto
  <2>4. m.Data \in Seq(Byte) /\ n.Data \in Seq(Byte)
    BY <2>1 DEF ProposalValue
  <2>5. CanonicalizeDataHash(m.Data) = CanonicalizeDataHash(n.Data)
    BY <2>2, <2>3
  <2>6. m.Data = n.Data
    BY <2>4, <2>5, HashTold
  <2>7. "Data" \in DOMAIN m /\ "Data" \in DOMAIN n
    BY <2>1 DEF ProposalValue
  <2>8. Statement(m) = <<m.Data, m.Timestamp>> /\ Statement(n) = <<n.Data, n.Timestamp>>
    BY <2>7 DEF Statement
  <2> QED BY <2>2, <2>3, <2>6, <2>8
<1> QED BY <1>1, <1>2 DEF Kind

(* Two messages of a kind with the same sign bytes are for the same concord and
   state the same. *)
LEMMA SignedOnce ==
    ASSUME NEW b, NEW kind, NEW m, NEW n, NEW c, NEW d, NEW T, NEW U, NEW s, NEW t, NEW x, NEW y,
           Signs(b, c, kind, m, T, s, x), Signs(b, d, kind, n, U, t, y)
    PROVE  c = d /\ Statement(m) = Statement(n)
<1>1. T = U /\ T \in Types /\ s \in Struct[T] /\ t \in Struct[T]
  BY DEF Signs, Types
<1>2. x = y
  BY DelimitedOnce DEF Signs, Data
<1>3. Unmarshal(T, x) = read(s, Len(x)) /\ Unmarshal(T, x) = read(t, Len(x))
  BY <1>1, <1>2, RoundTrip DEF Signs
<1>4. s = t
  BY <1>3 DEF read
<1>5. canonical(c, kind, m) = canonical(d, kind, n) /\ Kind(kind, m) /\ Kind(kind, n)
  BY <1>4 DEF Signs
<1> QED BY <1>5, CanonicalTold

(* Sign bytes can be read back. *)
LEMMA SignedParsed ==
    ASSUME NEW b, NEW kind, NEW m, NEW c, NEW T, NEW s, NEW x, Signs(b, c, kind, m, T, s, x)
    PROVE  parsed(kind, b) = s
<1>1. T \in Types /\ s \in Struct[T] /\ x = Marshal(T, s) /\ x \in Data
  BY DEF Signs, Types
<1>2. PICK n \in Nat : readVarint(b, 0) = read(Len(x), n) /\ SubSeq(b, n + 1, n + Len(x)) = x
  BY DelimitedRead DEF Signs, Data
<1>3. PICK len : len = readVarint(b, 0)
  OBVIOUS
<1>4. len.i = n /\ len.v = Len(x)
  BY <1>2, <1>3 DEF read
<1>5. parsed(kind, b) = Unmarshal(T, SubSeq(b, len.i + 1, len.i + len.v)).v
  BY <1>3 DEF parsed, Signs, statementType
<1>6. parsed(kind, b) = Unmarshal(T, x).v
  BY <1>2, <1>4, <1>5
<1>7. Unmarshal(T, x) = read(s, Len(x))
  BY <1>1, RoundTrip
<1> QED BY <1>6, <1>7 DEF read

(* No vote and no proposal have the same sign bytes. *)
LEMMA KindsDiffer ==
    ASSUME NEW b, NEW v, NEW p, NEW c, NEW d, NEW T, NEW U, NEW s, NEW t, NEW x, NEW y,
           Signs(b, c, "vote", v, T, s, x), Signs(b, d, "proposal", p, U, t, y)
    PROVE  FALSE
<1>1. x = y /\ x \in Data
  BY DelimitedOnce DEF Signs, Data
<1>2. s = CanonicalizeVote(c, VoteToProto(v)) /\ x = MarshalToSizedBuffer("CanonicalVote", s)
      /\ s \in CanonicalVoteStruct
  BY DEF Signs, canonical, statementType, Struct
<1>3. t = CanonicalizeProposal(d, ProposalToProto(p)) /\ x = MarshalToSizedBuffer("CanonicalProposal", t)
      /\ t \in CanonicalProposalStruct /\ p \in ProposalValue
  BY <1>1 DEF Signs, canonical, statementType, Struct, Kind
<1>4. s.Height = 0 /\ s.Round = 0
  BY <1>2 DEF CanonicalizeVote, VoteToProto
<1>5. t.Height = 0 /\ t.Round = 0 /\ t.POLRound = 0 /\ t.Type # 0
      /\ t.DataHash = CanonicalizeDataHash(p.Data)
  BY <1>3 DEF CanonicalizeProposal, ProposalToProto, ProposalType
<1>6. t.DataHash # Nil => \E h \in Seq(Byte) : Len(h) # 0 /\ t.DataHash = [Hash |-> h]
  <2>1. p.Data \in Seq(Byte)
    BY <1>3 DEF ProposalValue
  <2>2. p.Data # <<>> => Len(p.Data) # 0
    BY <2>1
  <2> QED BY <1>5, <2>1, <2>2 DEF CanonicalizeDataHash
<1> QED BY <1>1, <1>2, <1>3, <1>4, <1>5, <1>6, CanonicalsDiffer

(* What was signed for the message on its way. *)
LEMMA SentSigns ==
    ASSUME IInv, isMessage, signed # Nil, NEW kind, kind = sent.kind, NEW m, m = sent.value,
           NEW b, b = signed, NEW c, c = sent.chain
    PROVE  /\ kind \in {"vote", "proposal"} /\ Kind(kind, m) /\ c \in Seq(Byte)
           /\ \E T, s, x : Signs(b, c, kind, m, T, s, x)
<1>1. sent # Nil /\ kind \in {"vote", "proposal"}
  BY DEF isMessage
<1>2. Kind(kind, m)
  BY SentMessage DEF IInv
<1>3. c \in Chains
  BY <1>1 DEF IInv, SentTyped
<1>4. c \in Seq(Byte)
  BY <1>3, SerdeAssumption
<1>5. b = SignBytes(c, kind, m) /\ Fits(b) /\ b # Nil
  BY <1>1 DEF IInv, History
<1>6. \E T, s, x : Signs(b, c, kind, m, T, s, x)
  BY <1>2, <1>4, <1>5, SignedBytes
<1> QED BY <1>1, <1>2, <1>4, <1>6

(* Whatever has these sign bytes is of this kind, for this concord and states
   the same. *)
LEMMA SignedBy ==
    ASSUME NEW b, NEW kind \in {"vote", "proposal"}, NEW m, NEW c, \E T, s, x : Signs(b, c, kind, m, T, s, x),
           NEW other \in {"vote", "proposal"}, NEW n, NEW d, \E T, s, x : Signs(b, d, other, n, T, s, x)
    PROVE  other = kind /\ d = c /\ Statement(n) = Statement(m)
<1>1. PICK T, s, x : Signs(b, c, kind, m, T, s, x)
  OBVIOUS
<1>2. PICK U, t, y : Signs(b, d, other, n, U, t, y)
  OBVIOUS
<1>3. CASE other = kind
  <2>1. Signs(b, d, kind, n, U, t, y)
    BY <1>2, <1>3
  <2>2. d = c /\ Statement(n) = Statement(m)
    BY <1>1, <2>1, SignedOnce
  <2> QED BY <1>3, <2>2
<1>4. CASE kind = "vote" /\ other = "proposal"
  <2>1. Signs(b, c, "vote", m, T, s, x) /\ Signs(b, d, "proposal", n, U, t, y)
    BY <1>1, <1>2, <1>4
  <2> QED BY <2>1, KindsDiffer
<1>5. CASE kind = "proposal" /\ other = "vote"
  <2>1. Signs(b, d, "vote", n, U, t, y) /\ Signs(b, c, "proposal", m, T, s, x)
    BY <1>1, <1>2, <1>5
  <2> QED BY <2>1, KindsDiffer
<1> QED BY <1>3, <1>4, <1>5

(* The invariant implies that sign bytes stand for one statement. *)
LEMMA Unambiguous == ASSUME IInv PROVE SignBytesUnambiguous
<1> SUFFICES ASSUME isMessage, signed # Nil
             PROVE  /\ \A m \in Messages, c \in Chains :
                          SignBytes(c, m[1], m[2]) = signed =>
                              m[1] = sent.kind /\ c = sent.chain /\ Statement(m[2]) = Statement(sent.value)
                    /\ parsed(sent.kind, signed) =
                          IF sent.kind = "vote" THEN CanonicalizeVote(sent.chain, VoteToProto(sent.value))
                          ELSE CanonicalizeProposal(sent.chain, ProposalToProto(sent.value))
  BY DEF SignBytesUnambiguous
<1>1. PICK kind, m, b, c : kind = sent.kind /\ m = sent.value /\ b = signed /\ c = sent.chain
  OBVIOUS
<1>2. kind \in {"vote", "proposal"} /\ Kind(kind, m) /\ c \in Seq(Byte)
  BY <1>1, SentSigns
<1>3. PICK T, s, x : Signs(b, c, kind, m, T, s, x)
  BY <1>1, SentSigns
<1>4. IInv /\ Fits(b) /\ b # Nil
  BY <1>1 DEF IInv, History, isMessage
<1>5. ASSUME NEW n \in Messages, NEW d \in Chains, SignBytes(d, n[1], n[2]) = signed
      PROVE  n[1] = kind /\ d = c /\ Statement(n[2]) = Statement(m)
  <2>1. PICK other, o : other = n[1] /\ o = n[2]
    OBVIOUS
  <2>2. other \in {"vote", "proposal"} /\ Kind(other, o)
    <3>1. CASE \E v \in Votes : n = <<"vote", v>>
      BY <2>1, <3>1, SerdeAssumption DEF Kind
    <3>2. CASE \E p \in Proposals : n = <<"proposal", p>>
      BY <2>1, <3>2, SerdeAssumption DEF Kind
    <3> QED BY <3>1, <3>2 DEF Messages
  <2>3. d \in Seq(Byte)
    BY SerdeAssumption
  <2>4. b = SignBytes(d, other, o)
    BY <1>1, <1>5, <2>1
  <2>5. \E U, t, y : Signs(b, d, other, o, U, t, y)
    BY <1>4, <2>2, <2>3, <2>4, SignedBytes
  <2>6. \E U, t, y : Signs(b, c, kind, m, U, t, y)
    BY <1>3
  <2>7. other = kind /\ d = c /\ Statement(o) = Statement(m)
    BY <1>2, <2>2, <2>5, <2>6, SignedBy
  <2> QED BY <2>1, <2>7
<1>6. parsed(kind, b) = s
  BY <1>3, SignedParsed
<1>7. s = canonical(c, kind, m)
  BY <1>3 DEF Signs
<1>8. parsed(sent.kind, signed) =
          IF sent.kind = "vote" THEN CanonicalizeVote(sent.chain, VoteToProto(sent.value))
          ELSE CanonicalizeProposal(sent.chain, ProposalToProto(sent.value))
  BY <1>1, <1>6, <1>7 DEF canonical
<1> QED BY <1>1, <1>5, <1>8

(* Sign bytes are unique, for all the votes and proposals that there are: those
   of another statement, of another kind or for another concord are others; and
   what was signed can be read back from them. *)
THEOREM SerdeSignBytesUnambiguous == Spec => []SignBytesUnambiguous
BY SerdeIInv, Unambiguous, PTL

-----------------------------------------------------------------------------
(* What a message that is accepted says. *)

(* What was verified was signed, as a vote or as a proposal, for this concord. *)
SignedHere(r) ==
    r.err = "none" =>
        \E kind \in {"vote", "proposal"} :
            Kind(kind, r.v) /\ signed = SignBytes(Here, kind, r.v) /\ signed # Nil

(* What verify accepts has the signature of the bytes it stands for. *)
LEMMA VerifiedIsSigned ==
    ASSUME NEW case, NEW msg,
           (case = "Message_Vote" /\ msg \in Answers(VoteValue))
           \/ (case # "Message_Vote" /\ msg \in Answers(ProposalValue))
    PROVE  SignedHere(verify(case, msg))
<1>0. Here \in Seq(Byte)
  BY SerdeAssumption
<1>1. CASE msg.err # "none"
  BY <1>1 DEF verify, SignedHere
<1>2. CASE msg.err = "none" /\ case = "Message_Vote"
  <2>1. PICK v \in VoteValue : v = msg.v
    BY <1>2, AnswerFacts
  <2>2. PICK r : r = verify(case, msg)
    OBVIOUS
  <2>3. r = validIf(VerifyVote(Here, v), v)
    BY <1>2, <2>1, <2>2 DEF verify
  <2>4. SUFFICES ASSUME r.err = "none"
                 PROVE  /\ Kind("vote", r.v) /\ signed = SignBytes(Here, "vote", r.v)
                        /\ signed # Nil
    BY <2>2 DEF SignedHere
  <2>5. VerifyVote(Here, v) /\ r.v = v
    BY <2>3, <2>4 DEF validIf, ok, error, read, fail
  <2>6. signed = VoteSignBytes(Here, VoteToProto(v))
    BY <2>5 DEF VerifyVote, VerifySignature
  <2>7. PICK s : s = CanonicalizeVote(Here, VoteToProto(v))
    OBVIOUS
  <2>8. PICK T : T = "CanonicalVote"
    OBVIOUS
  <2>9. T \in Types /\ s \in Struct[T]
    BY <1>0, <2>7, <2>8, CanonicalVote DEF Types, Types1, Struct
  <2>10. MarshalDelimited(T, s) # Nil
    BY <2>9, Delimited
  <2>11. signed # Nil
    BY <2>6, <2>7, <2>8, <2>10 DEF VoteSignBytes
  <2> QED BY <2>5, <2>6, <2>11 DEF Kind, SignBytes
<1>3. CASE msg.err = "none" /\ case # "Message_Vote"
  <2>1. PICK v \in ProposalValue : v = msg.v
    BY <1>3, AnswerFacts
  <2>2. PICK r : r = verify(case, msg)
    OBVIOUS
  <2>3. PICK s : s = ProposalSignBytes(Here, ProposalToProto(v))
    OBVIOUS
  <2>4. r = IF s = Nil THEN [fail("panic") EXCEPT !.v = v] ELSE validIf(VerifySignature(s, v.Signature), v)
    BY <1>3, <2>1, <2>2, <2>3 DEF verify
  <2>5. SUFFICES ASSUME r.err = "none"
                 PROVE  /\ Kind("proposal", r.v) /\ signed = SignBytes(Here, "proposal", r.v)
                        /\ signed # Nil
    BY <2>2 DEF SignedHere
  <2>6. s # Nil
    <3>1. SUFFICES ASSUME s = Nil PROVE FALSE
      OBVIOUS
    <3>2. r.err = "panic"
      BY <2>4, <3>1 DEF fail
    <3> QED BY <2>5, <3>2
  <2>7. VerifySignature(s, v.Signature) /\ r.v = v
    BY <2>4, <2>5, <2>6 DEF validIf, ok, error, read, fail
  <2>8. signed = s
    BY <2>7 DEF VerifySignature
  <2> QED BY <2>3, <2>6, <2>7, <2>8 DEF Kind, SignBytes
<1> QED BY <1>1, <1>2, <1>3

(* What a handler accepts has that signature, whatever bytes it was given. *)
LEMMA HandledIsSigned == ASSUME NEW b \in Data PROVE SignedHere(handle(b))
<1>1. PICK r : r = Unmarshal("Message", b)
  OBVIOUS
<1>2. r \in Results(MessageStruct, Len(b))
  BY <1>1, UnmarshalTyped DEF Readable, Struct
<1>3. handle(b) = handleMessage(r)
  BY <1>1 DEF handle
<1>4. CASE r.err # "none"
  BY <1>3, <1>4 DEF handleMessage, SignedHere
<1>5. CASE r.err = "none"
  <2>1. PICK m \in MessageStruct : m = r.v
    BY <1>2, <1>5, ResultFacts
  <2>2. handle(b) = verify(m.Sum.case, MsgFromProto(m))
    BY <1>3, <1>5, <2>1 DEF handleMessage
  <2>3. CASE m.Sum = Nil
    <3>1. MsgFromProto(m) = error
      BY <2>3 DEF MsgFromProto
    <3>2. error \in Answers(VoteValue) /\ error \in Answers(ProposalValue)
      BY ErrorAnswers
    <3> QED BY <2>2, <3>1, <3>2, VerifiedIsSigned
  <2>4. CASE m.Sum # Nil /\ m.Sum.case = "Message_Proposal" /\ m.Sum.Proposal \in ProposalStruct
    <3>1. MsgFromProto(m) = ProposalFromProto(m.Sum.Proposal)
      BY <2>4 DEF MsgFromProto
    <3>2. MsgFromProto(m) \in Answers(ProposalValue)
      BY <2>4, <3>1, ProposalAnswer
    <3>3. m.Sum.case # "Message_Vote"
      BY <2>4
    <3> QED BY <2>2, <3>2, <3>3, VerifiedIsSigned
  <2>5. CASE m.Sum # Nil /\ m.Sum.case = "Message_Vote" /\ m.Sum.Vote \in VoteStruct
    <3>1. MsgFromProto(m) = VoteFromProto(m.Sum.Vote)
      BY <2>5 DEF MsgFromProto
    <3>2. MsgFromProto(m) \in Answers(VoteValue)
      BY <2>5, <3>1, VoteAnswer
    <3> QED BY <2>2, <2>5, <3>2, VerifiedIsSigned
  <2>6. m.Sum \in Message_ProposalStruct \cup Message_VoteStruct \cup {Nil}
    BY DEF MessageStruct
  <2> QED BY <2>3, <2>4, <2>5, <2>6 DEF Message_ProposalStruct, Message_VoteStruct
<1> QED BY <1>4, <1>5

(* The invariant implies that what is accepted was signed. *)
LEMMA Accepted == ASSUME IInv PROVE AcceptedWasSigned
<1> SUFFICES ASSUME got # Nil, isMessage, got.err = "none"
             PROVE  sent.chain = Here /\ Statement(got.v) = Statement(sent.value)
  BY DEF AcceptedWasSigned
<1>1. got = handle(wire) /\ wire \in Data
  <2>1. got = received /\ wire \in Data
    BY DEF IInv
  <2>2. sent.kind # "commit" /\ sent.kind # "set"
    BY DEF isMessage
  <2>3. received = handle(wire)
    BY <2>2 DEF received
  <2> QED BY <2>1, <2>3
<1>2. SignedHere(got)
  BY <1>1, HandledIsSigned
<1>3. PICK other \in {"vote", "proposal"} :
          Kind(other, got.v) /\ signed = SignBytes(Here, other, got.v) /\ signed # Nil
  BY <1>2 DEF SignedHere
<1>4. PICK kind, m, b, c : kind = sent.kind /\ m = sent.value /\ b = signed /\ c = sent.chain
  OBVIOUS
<1>5. kind \in {"vote", "proposal"} /\ Kind(kind, m) /\ c \in Seq(Byte)
  BY <1>3, <1>4, SentSigns
<1>6. \E T, s, x : Signs(b, c, kind, m, T, s, x)
  BY <1>3, <1>4, SentSigns
<1>7. Fits(b) /\ b # Nil
  BY <1>3, <1>4 DEF IInv, History, isMessage
<1>8. PICK n : n = got.v
  OBVIOUS
<1>9. PICK h \in Seq(Byte) : h = Here
  BY SerdeAssumption
<1>10. Kind(other, n) /\ b = SignBytes(h, other, n)
  BY <1>3, <1>4, <1>8, <1>9
<1>11. \E T, s, x : Signs(b, h, other, n, T, s, x)
  BY <1>7, <1>10, SignedBytes
<1>12. h = c /\ Statement(n) = Statement(m)
  BY <1>5, <1>6, <1>11, SignedBy
<1> QED BY <1>4, <1>8, <1>9, <1>12

(* Whatever has happened to the bytes on their way, what handle accepts of them
   says what its signer signed, and was signed for this concord. *)
THEOREM SerdeAcceptedWasSigned == Spec => []AcceptedWasSigned
BY SerdeIInv, Accepted, PTL

-----------------------------------------------------------------------------
(* What is understood. *)

(* The answer to a value that is on its way as it was sent, or extended. *)
Plain == sent # Nil /\ got # Nil /\ how \subseteq {"extended"}

(* What the invariant says of bytes that arrived whole. *)
LEMMA PlainFacts ==
    ASSUME IInv, Plain
    PROVE  /\ how = {} \/ how = {"extended"}
           /\ History /\ got = received /\ wire \in Data /\ SentTyped
           /\ sent.kind \in {"vote", "proposal", "commit", "set"}
<1>1. History /\ got = received /\ wire \in Data /\ SentTyped
  BY DEF IInv, Plain
<1>2. how = {} \/ how = {"extended"}
  BY <1>1 DEF History, Plain
<1> QED BY <1>1, <1>2 DEF SentTyped, Plain

UnderstoodAs(value) == IF acceptable THEN got = ok(value) ELSE got.err # "none"

(* A vote that arrives whole is understood. *)
LEMMA VoteUnderstood == ASSUME IInv, Plain, sent.kind = "vote" PROVE UnderstoodAs(sent.value)
<1>1. PICK v : v = sent.value
  OBVIOUS
<1>2. isMessage /\ sent # Nil
  BY DEF isMessage, Plain
<1>3. v \in VoteValue
  BY <1>1, <1>2, SentMessage DEF IInv, Kind
<1>4. received = handle(wire)
  BY <1>2 DEF received
<1>5. got = handle(wire)
  BY <1>4, PlainFacts
<1>6. handle(wire) = verify(caseOf(sent.kind), decoded(sent.kind, sent.value))
  BY <1>2, PlainFacts, MessageReceived
<1>7. got = verify("Message_Vote", decoded("vote", v))
  BY <1>1, <1>5, <1>6 DEF caseOf
<1>8. Kind("vote", v)
  BY <1>3 DEF Kind
<1>9. decoded("vote", v) = IF ValidateVote(v) THEN ok(v) ELSE error
  BY <1>8, DecodedFacts
<1>10. signed = VoteSignBytes(sent.chain, VoteToProto(v))
  BY <1>1, <1>2, PlainFacts DEF History, SignBytes
<1>11. acceptable <=> /\ ValidateVote(v) /\ sent.chain = Here
                      /\ v.ValidatorAddress = Signer /\ v.Signature = Signature
  BY <1>1 DEF acceptable
<1>12. AcceptedWasSigned
  BY Accepted
<1>13. got.err = "none" => sent.chain = Here
  BY <1>2, <1>12 DEF AcceptedWasSigned, Plain
<1>14. CASE ~ ValidateVote(v)
  <2>1. decoded("vote", v) = error /\ error.err # "none"
    BY <1>9, <1>14 DEF error, fail
  <2>2. got.err # "none"
    BY <1>7, <2>1 DEF verify
  <2> QED BY <1>11, <1>14, <2>2 DEF UnderstoodAs
<1>15. CASE ValidateVote(v)
  <2>1. decoded("vote", v).err = "none" /\ decoded("vote", v).v = v
    BY <1>9, <1>15 DEF ok, read
  <2>2. got = validIf(VerifyVote(Here, v), v)
    BY <1>7, <2>1 DEF verify
  <2>3. /\ VerifyVote(Here, v) => got = ok(v) /\ got.err = "none"
        /\ ~ VerifyVote(Here, v) => got.err # "none"
    BY <2>2 DEF validIf, ok, error, read, fail
  <2>4. VerifyVote(Here, v) <=> /\ v.ValidatorAddress = Signer /\ v.Signature = Signature
                                /\ VoteSignBytes(Here, VoteToProto(v)) = signed
    BY DEF VerifyVote, VerifySignature
  <2>5. acceptable => VerifyVote(Here, v)
    BY <1>10, <1>11, <2>4
  <2>6. VerifyVote(Here, v) => acceptable
    BY <1>11, <1>13, <1>15, <2>3, <2>4
  <2> QED BY <1>1, <2>3, <2>5, <2>6 DEF UnderstoodAs
<1> QED BY <1>14, <1>15

(* A proposal that arrives whole is understood. *)
LEMMA ProposalUnderstood == ASSUME IInv, Plain, sent.kind = "proposal" PROVE UnderstoodAs(sent.value)
<1>1. PICK p : p = sent.value
  OBVIOUS
<1>2. isMessage /\ sent # Nil
  BY DEF isMessage, Plain
<1>3. p \in ProposalValue
  BY <1>1, <1>2, SentMessage DEF IInv, Kind
<1>4. received = handle(wire)
  BY <1>2 DEF received
<1>5. got = handle(wire)
  BY <1>4, PlainFacts
<1>6. handle(wire) = verify(caseOf(sent.kind), decoded(sent.kind, sent.value))
  BY <1>2, PlainFacts, MessageReceived
<1>7. got = verify("Message_Proposal", decoded("proposal", p))
  BY <1>1, <1>5, <1>6 DEF caseOf
<1>8. Kind("proposal", p)
  BY <1>3 DEF Kind
<1>9. decoded("proposal", p) = IF ValidateProposal(p) THEN ok(p) ELSE error
  BY <1>8, DecodedFacts
<1>10. signed = ProposalSignBytes(sent.chain, ProposalToProto(p))
  BY <1>1, <1>2, PlainFacts DEF History, SignBytes
<1>11. acceptable <=> /\ ValidateProposal(p) /\ ValidateHash(p.Data) /\ sent.chain = Here
                      /\ p.Signature = Signature
  BY <1>1 DEF acceptable
<1>12. AcceptedWasSigned
  BY Accepted
<1>13. got.err = "none" => sent.chain = Here
  BY <1>2, <1>12 DEF AcceptedWasSigned, Plain
<1>14. CASE ~ ValidateProposal(p)
  <2>1. decoded("proposal", p) = error /\ error.err # "none"
    BY <1>9, <1>14 DEF error, fail
  <2>2. got.err # "none"
    BY <1>7, <2>1 DEF verify
  <2> QED BY <1>11, <1>14, <2>2 DEF UnderstoodAs
<1>15. CASE ValidateProposal(p)
  <2>1. decoded("proposal", p).err = "none" /\ decoded("proposal", p).v = p
    BY <1>9, <1>15 DEF ok, read
  <2>2. PICK b : b = ProposalSignBytes(Here, ProposalToProto(p))
    OBVIOUS
  <2>3. got = IF b = Nil THEN [fail("panic") EXCEPT !.v = p] ELSE validIf(VerifySignature(b, p.Signature), p)
    BY <1>7, <2>1, <2>2 DEF verify
  <2>4. Here \in Seq(Byte)
    BY SerdeAssumption
  <2>5. b = Nil <=> ~ ValidateHash(p.Data)
    BY <1>3, <2>2, <2>4, ProposalSigned
  <2>6. CASE b = Nil
    <3>1. got.err = "panic"
      BY <2>3, <2>6 DEF fail
    <3> QED BY <1>11, <2>5, <2>6, <3>1 DEF UnderstoodAs
  <2>7. CASE b # Nil
    <3>1. /\ VerifySignature(b, p.Signature) => got = ok(p) /\ got.err = "none"
          /\ ~ VerifySignature(b, p.Signature) => got.err # "none"
      BY <2>3, <2>7 DEF validIf, ok, error, read, fail
    <3>2. VerifySignature(b, p.Signature) <=> p.Signature = Signature /\ b = signed
      BY DEF VerifySignature
    <3>3. acceptable => VerifySignature(b, p.Signature)
      BY <1>10, <1>11, <2>2, <3>2
    <3>4. VerifySignature(b, p.Signature) => acceptable
      BY <1>11, <1>13, <1>15, <2>5, <2>7, <3>1, <3>2
    <3> QED BY <1>1, <3>1, <3>3, <3>4 DEF UnderstoodAs
  <2> QED BY <2>6, <2>7
<1> QED BY <1>14, <1>15

(* What is no message is read as it was encoded. *)
LEMMA StructReceived ==
    ASSUME IInv, Plain, ~ isMessage, NEW T \in Types, NEW m \in Struct[T], encoded = Marshal(T, m)
    PROVE  Unmarshal(T, wire) = read(m, Len(wire))
<1>1. PICK c : c = Marshal(T, m)
  OBVIOUS
<1>2. c \in Seq(Byte) /\ c \o <<>> = c /\ <<>> \in Seq(Byte)
  BY <1>1, MarshalFillsSize
<1>3. \E u : Extra(u) /\ wire = c \o u
  <2>1. CASE how = {}
    <3>1. wire = c
      BY <1>1, <2>1, PlainFacts DEF History
    <3> QED BY <1>2, <3>1 DEF Extra
  <2>2. CASE how = {"extended"}
    <3>1. PICK u, v \in UnknownFields : wire = extendedBy(u, v)
      BY <2>2, PlainFacts DEF History
    <3>2. wire = c \o u
      BY <1>1, <3>1 DEF extendedBy
    <3>3. Extra(u)
      BY SerdeAssumption DEF Extra
    <3> QED BY <3>2, <3>3
  <2> QED BY <2>1, <2>2, PlainFacts
<1>4. PICK u : Extra(u) /\ wire = c \o u
  BY <1>3
<1>5. PICK b \in Data : b = wire
  BY PlainFacts
<1>6. b = Marshal(T, m) \o u
  BY <1>1, <1>4, <1>5
<1>7. Unmarshal(T, b) = read(m, Len(b))
  BY <1>4, <1>6, StructIsRead DEF Extra
<1> QED BY <1>5, <1>7

(* A commit that arrives whole is understood. *)
LEMMA CommitUnderstood == ASSUME IInv, Plain, sent.kind = "commit" PROVE UnderstoodAs(sent.value)
<1>1. PICK c : c = sent.value
  OBVIOUS
<1>2. ~ isMessage /\ sent # Nil
  BY DEF isMessage, Plain
<1>3. c \in CommitValue
  BY <1>1, <1>2, SerdeAssumption, PlainFacts DEF SentTyped
<1>4. PICK T : T = "Commit"
  OBVIOUS
<1>5. PICK m : m = CommitToProto(c)
  OBVIOUS
<1>6. T \in Types /\ m \in Struct[T]
  BY <1>3, <1>4, <1>5, CommitProto DEF Types, Types2, Struct
<1>7. encoded = Marshal(T, m)
  BY <1>1, <1>2, <1>4, <1>5 DEF encoded
<1>8. Unmarshal(T, wire) = read(m, Len(wire))
  BY <1>2, <1>6, <1>7, StructReceived
<1>9. PICK r : r = Unmarshal(T, wire)
  OBVIOUS
<1>10. r.err = "none" /\ r.v = m
  BY <1>8, <1>9 DEF read
<1>11. got = CommitFromProto(m)
  <2>1. received = decodeCommit(r)
    BY <1>2, <1>4, <1>9 DEF received
  <2> QED BY <1>10, <2>1, PlainFacts DEF decodeCommit
<1>12. m.DataHash.Hash = c.DataHash /\ m.Signatures = c.Signatures
  BY <1>5 DEF CommitToProto, DataHashToProto
<1>13. PICK s : s = c.Signatures
  OBVIOUS
<1>14. [i \in DOMAIN s |-> CommitSigFromProto(s[i])] = s
  <2>1. s \in Seq(CommitSigValue)
    BY <1>3, <1>13 DEF CommitValue
  <2>2. \A i \in DOMAIN s : s[i] \in CommitSigValue
    BY <2>1, LenProperties
  <2>3. \A x \in CommitSigValue : CommitSigFromProto(x) = x
    <3>1. SUFFICES ASSUME NEW x \in CommitSigValue PROVE CommitSigFromProto(x) = x
      OBVIOUS
    <3>2. x.DataHashFlag \in 0 .. 255
      BY DEF CommitSigValue, Byte
    <3>3. x.DataHashFlag % 256 = x.DataHashFlag
      <4>1. \A n \in 0 .. 255 : n % 256 = n
        OBVIOUS
      <4> QED BY <3>2, <4>1
    <3> QED BY <3>3 DEF CommitSigFromProto, CommitSigValue
  <2>4. s = [i \in DOMAIN s |-> s[i]]
    BY <2>1, LenProperties
  <2> QED BY <2>2, <2>3, <2>4
<1>15. c = [DataHash |-> c.DataHash, Signatures |-> s]
  BY <1>3, <1>13 DEF CommitValue
<1>16. got = IF ~ ValidateHash(c.DataHash) THEN error ELSE validIf(ValidateCommit(c), c)
  <2>1. DataHashFromProto(m.DataHash).err = IF ValidateHash(c.DataHash) THEN "none" ELSE "error"
    BY <1>12 DEF DataHashFromProto, validIf, ok, error, read, fail
  <2>2. PICK d : d = [DataHash |-> m.DataHash.Hash,
                      Signatures |-> [i \in DOMAIN m.Signatures |-> CommitSigFromProto(m.Signatures[i])]]
    OBVIOUS
  <2>3. d = c
    BY <1>12, <1>13, <1>14, <1>15, <2>2
  <2>4. CommitFromProto(m) = IF DataHashFromProto(m.DataHash).err # "none" THEN error
                             ELSE validIf(ValidateCommit(d), d)
    BY <2>2 DEF CommitFromProto
  <2> QED BY <1>11, <2>1, <2>3, <2>4
<1>17. acceptable <=> ValidateHash(c.DataHash) /\ ValidateCommit(c)
  BY <1>1 DEF acceptable
<1>18. error.err # "none"
  BY DEF error, fail
<1> QED BY <1>1, <1>16, <1>17, <1>18 DEF UnderstoodAs, validIf

(* A member of a set comes back from its proto. *)
LEMMA MemberBack ==
    ASSUME NEW v \in ProposerValue, Len(v.PubKey) = Len(Key), Nil \notin ValidatorStruct
    PROVE  ValidatorFromProto(ProposerToProto(v)) = ok(v)
<1>1. PICK p : p = ProposerToProto(v)
  OBVIOUS
<1>2. p \in ValidatorStruct /\ p.PubKey.Ed25519 = v.PubKey
  BY <1>1, ProposerProto DEF ProposerToProto, PubKeyToProto, ProposerValue
<1>3. p # Nil
  BY <1>2
<1>4. PubKeyFromProto(p.PubKey).err = "none"
  BY <1>2 DEF PubKeyFromProto, validIf, ok, read
<1>5. [p EXCEPT !.PubKey = p.PubKey.Ed25519] = v
  BY <1>1, <1>2 DEF ProposerToProto, ProposerValue
<1> QED BY <1>1, <1>3, <1>4, <1>5 DEF ValidatorFromProto

(* A proposer set that arrives whole is understood. *)
LEMMA SetUnderstood == ASSUME IInv, Plain, sent.kind = "set" PROVE UnderstoodAs(sent.value)
<1>1. PICK vals : vals = sent.value
  OBVIOUS
<1>2. ~ isMessage /\ sent # Nil
  BY DEF isMessage, Plain
<1>3. vals \in ProposerSets
  BY <1>1, <1>2, PlainFacts DEF SentTyped
<1>4. SetValue(vals)
  BY <1>3, SetValues
<1>5. PICK T : T = "ValidatorSet"
  OBVIOUS
<1>6. PICK m : m = ProposerSetToProto(vals)
  OBVIOUS
<1>7. T \in Types /\ m \in Struct[T]
  BY <1>4, <1>5, <1>6, SetProto DEF Types, Types2, Struct
<1>8. encoded = Marshal(T, m)
  BY <1>1, <1>2, <1>5, <1>6 DEF encoded
<1>9. Unmarshal(T, wire) = read(m, Len(wire))
  BY <1>2, <1>7, <1>8, StructReceived
<1>10. PICK r : r = Unmarshal(T, wire)
  OBVIOUS
<1>11. r.err = "none" /\ r.v = m
  BY <1>9, <1>10 DEF read
<1>12. got = ValidatorSetFromProto(m)
  <2>1. received = decodeProposerSet(r)
    BY <1>2, <1>5, <1>10 DEF received
  <2> QED BY <1>11, <2>1, PlainFacts DEF decodeProposerSet
<1>13. acceptable <=> ValidateProposerSet(vals) /\ vals.totalVotingPower # Nil
  BY <1>1 DEF acceptable
<1>14. error.err # "none" /\ fail("panic").err = "panic"
  BY DEF error, fail
<1>15. Nil \notin ValidatorStruct
  BY NilAssumption DEF Struct
<1>16. CASE vals.Proposers = <<>>
  <2>1. m = New(T)
    BY <1>5, <1>6, <1>16 DEF ProposerSetToProto
  <2>2. Zeros(m, T)
    BY <1>5, <2>1, NewZeros DEF Readable, Types, Types2
  <2>3. Expected[T][2] = Pointer(2, "Proposer", "Validator") /\ 2 \in DOMAIN Expected[T]
    BY <1>5 DEF Expected, UnmarshalValidatorSet
  <2>4. m.Proposer = Nil
    <3>1. PICK f : f = Expected[T][2]
      OBVIOUS
    <3>2. f.kind = "pointer" /\ f.name = "Proposer"
      BY <2>3, <3>1 DEF Pointer, field
    <3>3. m[f.name] = zeroOf(f)
      BY <2>2, <2>3, <3>1 DEF Zeros
    <3>4. zeroOf(f) = Nil
      BY <3>2 DEF zeroOf, WireType
    <3> QED BY <3>2, <3>3, <3>4
  <2>5. ValidatorFromProto(m.Proposer) = error
    BY <2>4 DEF ValidatorFromProto
  <2>6. got = error
    BY <1>12, <1>14, <2>5 DEF ValidatorSetFromProto
  <2>7. ~ acceptable
    BY <1>13, <1>16 DEF ValidateProposerSet
  <2> QED BY <1>14, <2>6, <2>7 DEF UnderstoodAs
<1>17. CASE vals.Proposers # <<>>
  <2>1. PICK s : s = vals.Proposers
    OBVIOUS
  <2>2. s \in Seq(ProposerValue) /\ vals.Proposer \in ProposerValue
        /\ \A v \in ToSet(s) \cup {vals.Proposer} : isMember(v)
    BY <1>4, <1>17, <2>1 DEF SetValue
  <2>3. PICK n \in Nat : n = Len(s) /\ DOMAIN s = 1 .. n
    BY <2>2, LenProperties
  <2>4. \A i \in 1 .. n : s[i] \in ProposerValue /\ Len(s[i].PubKey) = Len(Key)
    <3>1. SUFFICES ASSUME NEW i \in 1 .. n PROVE s[i] \in ProposerValue /\ Len(s[i].PubKey) = Len(Key)
      OBVIOUS
    <3>2. s[i] \in ProposerValue
      BY <2>2, <2>3, LenProperties
    <3>3. s[i] \in ToSet(s)
      BY <2>3 DEF ToSet
    <3>4. isMember(s[i])
      BY <2>2, <3>3
    <3> QED BY <3>2, <3>4 DEF isMember
  <2>5. /\ m.Validators = [i \in 1 .. n |-> ProposerToProto(s[i])]
        /\ m.Proposer = ProposerToProto(vals.Proposer)
    BY <1>6, <1>17, <2>1, <2>3 DEF ProposerSetToProto
  <2>6. ValidatorFromProto(m.Proposer) = ok(vals.Proposer)
    <3>1. isMember(vals.Proposer)
      BY <2>2
    <3>2. ValidatorFromProto(ProposerToProto(vals.Proposer)) = ok(vals.Proposer)
      BY <1>15, <2>2, <3>1, MemberBack DEF isMember
    <3> QED BY <2>5, <3>2
  <2>7. \A i \in 1 .. n : ValidatorFromProto(ProposerToProto(s[i])) = ok(s[i])
    BY <1>15, <2>4, MemberBack
  <2>8. PICK members : members = [i \in DOMAIN m.Validators |-> ValidatorFromProto(m.Validators[i])]
    OBVIOUS
  <2>9. members = [i \in 1 .. n |-> ok(s[i])]
    <3>1. DOMAIN m.Validators = 1 .. n
      BY <2>5
    <3>2. \A i \in 1 .. n : ValidatorFromProto(m.Validators[i]) = ok(s[i])
      BY <2>5, <2>7
    <3> QED BY <2>8, <3>1, <3>2
  <2>10. [i \in DOMAIN members |-> members[i].v] = s
    <3>1. DOMAIN members = 1 .. n
      BY <2>9
    <3>2. \A i \in 1 .. n : members[i].v = s[i]
      BY <2>9 DEF ok, read
    <3>3. s = [i \in 1 .. n |-> s[i]]
      BY <2>2, <2>3, LenProperties
    <3> QED BY <3>1, <3>2, <3>3
  <2>11. ~ \E i \in DOMAIN members : members[i].err # "none"
    BY <2>9 DEF ok, read
  <2>12. PICK proposer : proposer = ValidatorFromProto(m.Proposer)
    OBVIOUS
  <2>13. proposer.err = "none" /\ proposer.v = vals.Proposer
    BY <2>6, <2>12 DEF ok, read
  <2>14. PICK w : w = [Proposers        |-> [i \in DOMAIN members |-> members[i].v],
                       Proposer         |-> proposer.v,
                       totalVotingPower |-> TotalVotingPower([i \in DOMAIN members |-> members[i].v])]
    OBVIOUS
  <2>15. w = vals
    BY <1>4, <2>1, <2>10, <2>13, <2>14 DEF SetValue
  <2>16. ValidatorSetFromProto(m) =
            IF proposer.err # "none" \/ \E i \in DOMAIN members : members[i].err # "none" THEN error
            ELSE IF w.totalVotingPower = Nil THEN [fail("panic") EXCEPT !.v = w]
            ELSE validIf(ValidateProposerSet(w), w)
    BY <2>8, <2>12, <2>14 DEF ValidatorSetFromProto
  <2>17. got = IF vals.totalVotingPower = Nil THEN [fail("panic") EXCEPT !.v = vals]
               ELSE validIf(ValidateProposerSet(vals), vals)
    BY <1>12, <2>11, <2>13, <2>15, <2>16
  <2>18. CASE vals.totalVotingPower = Nil
    <3>1. got.err = "panic"
      BY <2>17, <2>18 DEF fail
    <3> QED BY <1>13, <2>18, <3>1 DEF UnderstoodAs
  <2>19. CASE vals.totalVotingPower # Nil
    BY <1>1, <1>13, <1>14, <2>17, <2>19 DEF UnderstoodAs, validIf
  <2> QED BY <2>18, <2>19
<1> QED BY <1>16, <1>17

(* The invariant implies that what arrives whole is understood. *)
LEMMA AllUnderstood == ASSUME IInv PROVE Understood
<1> SUFFICES ASSUME got # Nil, how \subseteq {"extended"} PROVE UnderstoodAs(sent.value)
  BY DEF Understood, UnderstoodAs
<1>1. Plain
  BY DEF IInv, Plain
<1>2. sent.kind \in {"vote", "proposal", "commit", "set"}
  BY <1>1, PlainFacts
<1> QED BY <1>1, <1>2, VoteUnderstood, ProposalUnderstood, CommitUnderstood, SetUnderstood

(* What is sound is understood as it was meant, through Size, Marshal,
   Unmarshal and the conversions, whether or not a newer version has put more
   fields into it; what is not is refused. *)
THEOREM SerdeUnderstood == Spec => []Understood
BY SerdeIInv, AllUnderstood, PTL

-----------------------------------------------------------------------------
(* What is cut off. *)

(* The invariant implies that what was cut is refused. *)
LEMMA Truncated == ASSUME IInv PROVE TruncationRejected
<1> SUFFICES ASSUME got # Nil, isMessage, how = {"truncated"}
             PROVE  got.err # "none" /\ got.err # "panic"
  BY DEF TruncationRejected
<1>1. PICK kind, m : kind = sent.kind /\ m = sent.value
  OBVIOUS
<1>2. sent # Nil /\ Kind(kind, m) /\ kind \in {"vote", "proposal"}
  BY <1>1, SentMessage DEF IInv, isMessage
<1>3. PICK key : key = keyOf(kind)
  OBVIOUS
<1>4. PICK e : e = bodyOf(kind, m)
  OBVIOUS
<1>5. PICK c : c = encoded
  OBVIOUS
<1>6. c = item(key, e) /\ e \in Seq(Byte) /\ key \in Byte
  <2>1. encoded = encodeMsg(kind, m)
    BY <1>1, <1>2 DEF encoded
  <2> QED BY <1>2, <1>3, <1>4, <1>5, <2>1, EncodedMessage
<1>7. c \in Data /\ c \in Seq(Byte) /\ Len(c) \in Nat
  BY <1>2, <1>5, DataFacts DEF IInv
<1>8. PICK n \in Nat : n < Len(c) /\ wire = SubSeq(c, 1, n)
  BY <1>2, <1>5 DEF IInv, History
<1>9. PICK b : b = wire
  OBVIOUS
<1>10. n <= Len(c)
  BY <1>7, <1>8
<1>11. b \in Seq(Byte) /\ Len(b) = n /\ \A k \in 1 .. n : b[k] = c[k]
  BY <1>7, <1>8, <1>9, <1>10, Prefix
<1>12. b \in Data
  BY <1>9 DEF IInv
<1>13. CutItem(b, key, e)
  BY <1>6, <1>7, <1>8, <1>11, <1>12 DEF CutItem
<1>14. key \in {10, 18}
  BY <1>3 DEF keyOf
<1>15. PICK o : o = Unmarshal("Message", b)
  OBVIOUS
<1>16. (o.err = "none" /\ o.v.Sum = Nil) \/ (o.err # "none" /\ o.err # "panic")
  BY <1>13, <1>14, <1>15, CutMessage
<1>17. got = handleMessage(o)
  <2>1. got = received
    BY DEF IInv
  <2>2. sent.kind # "commit" /\ sent.kind # "set"
    BY DEF isMessage
  <2>3. received = handle(wire)
    BY <2>2 DEF received
  <2> QED BY <1>9, <1>15, <2>1, <2>3 DEF handle
<1>18. CASE o.err = "none" /\ o.v.Sum = Nil
  <2>1. MsgFromProto(o.v) = error
    BY <1>18 DEF MsgFromProto
  <2>2. got = verify(o.v.Sum.case, error)
    BY <1>17, <1>18, <2>1 DEF handleMessage
  <2>3. error.err = "error"
    BY DEF error, fail
  <2>4. got = error
    BY <2>2, <2>3 DEF verify
  <2> QED BY <2>3, <2>4
<1>19. CASE o.err # "none" /\ o.err # "panic"
  <2>1. got = o
    BY <1>17, <1>19 DEF handleMessage
  <2> QED BY <1>19, <2>1
<1> QED BY <1>16, <1>18, <1>19

(* No proper prefix of a message passes for a message, and none makes its
   reader panic: Unmarshal refuses it, or finds no case in it. *)
THEOREM SerdeTruncationRejected == Spec => []TruncationRejected
BY SerdeIInv, Truncated, PTL
=============================================================================
