------------------------------ MODULE Protobuf ------------------------------
(***************************************************************************)
(* The generated code of concord/pb: Size, Marshal and Unmarshal of the    *)
(* messages that instances exchange, sign, hash and keep.                  *)
(*                                                                         *)
(* The three methods of a message were generated apart and are translated  *)
(* apart, each into its list of fields; what the generator repeats for     *)
(* every field of a kind is one operator here.  A message is a record of   *)
(* its Go fields, a byte string a sequence of 0 .. 255, nil and empty byte *)
(* strings are not told apart.  An index counts the bytes before it, as in *)
(* Go.  Widths are scaled down: 64 bits to WordBits, 32 bits to HalfBits.  *)
(***************************************************************************)
EXTENDS Integers, SequencesExt

CONSTANTS
    WordBits, HalfBits,     \* the widths of int64 and of int32
    EpochSeconds,           \* the seconds from the year 1 to the Unix epoch
    MaxSeconds,             \* the last second of a Timestamp
    NanosPerSecond,
    Nil                     \* a nil pointer

pow2[n \in Nat] == IF n = 0 THEN 1 ELSE 2 * pow2[n - 1]

ASSUME ProtobufAssumption ==
    /\ HalfBits \in Nat /\ WordBits \in Nat
    /\ HalfBits % 8 = 0 /\ WordBits % 8 = 0 /\ 8 < HalfBits /\ HalfBits < WordBits
    /\ EpochSeconds \in 1 .. pow2[WordBits - 1] - 1
    /\ MaxSeconds \in 1 .. pow2[WordBits - 1] - 1
    /\ NanosPerSecond \in 1 .. pow2[HalfBits - 1] - 1

-----------------------------------------------------------------------------
(* Integers. *)

Word == pow2[WordBits]
Half == pow2[HalfBits]

(* As many numbers of an int64, and of an int32, are negative as are not. *)
IntRange == pow2[WordBits - 1]
Int32Range == pow2[HalfBits - 1]

Int64s == -IntRange .. IntRange - 1
Int32s == -Int32Range .. Int32Range - 1
Byte == 0 .. 255

twosComplement(u, range) == IF u % range < range \div 2 THEN u % range ELSE (u % range) - range

uint64(x) == x % Word
int64(u) == twosComplement(u, Word)
int32(u) == twosComplement(u, Half)

(* bits.Len64 *)
Len64(x) == LET len[y \in 0 .. x] == IF y = 0 THEN 0 ELSE 1 + len[y \div 2] IN len[x]

(* The length of a varint; x|1 is as long as x, except for 0. *)
sov(x) == LET y == IF x = 0 THEN 1 ELSE x IN (Len64(y) + 6) \div 7

(* The groups a varint may have before the shift exceeds the width. *)
MaxGroups == (WordBits + 6) \div 7

(* v after k shifts by seven bits, and the first group with which the loop of
   encodeVarint ends. *)
shifted(v, k) == v \div pow2[7 * k]

lastGroup(v) ==
    CHOOSE n \in 1 .. MaxGroups :
        shifted(v, n - 1) < 128 /\ \A k \in 1 .. n - 1 : shifted(v, k - 1) >= 128

groups(v) ==
    LET last == lastGroup(v)
    IN  [k \in 1 .. last |->
            IF k < last THEN 128 + (shifted(v, k - 1) % 128) ELSE shifted(v, k - 1)]

(* A buffer is filled from its end; d is the filled part of it.  encodeVarint
   makes room by sov and fills it by its own loop. *)
encodeVarint(d, v) ==
    LET room == sov(v)
        s    == groups(v)
    IN  [k \in 1 .. room + Len(d) |->
            IF k \in DOMAIN s THEN s[k] ELSE IF k <= room THEN 0 ELSE d[k - room]]

(* s[1] + ... + s[n] *)
total(s, n) == LET upTo[k \in 0 .. n] == IF k = 0 THEN 0 ELSE upTo[k - 1] + s[k] IN upTo[n]

-----------------------------------------------------------------------------
(* The lists of fields.  The first argument is the key that Marshal writes
   before the field, the length of the key that Size counts, or the field
   number that Unmarshal looks for. *)

field(kind, key, name, of) == [kind |-> kind, key |-> key, name |-> name, of |-> of]

Int32(key, name) == field("int32", key, name, Nil)
Int64(key, name) == field("int64", key, name, Nil)
Fixed64(key, name) == field("sfixed64", key, name, Nil)
Bytes(key, name) == field("bytes", key, name, Nil)
Time(key, name) == field("stdtime", key, name, "Timestamp")
Value(key, name, of) == field("message", key, name, of)
Pointer(key, name, of) == field("pointer", key, name, of)
Each(key, name, of) == field("repeated", key, name, of)
Case(key, name, of) == field("case", key, name, of)

(* types.pb.go *)

MarshalDataHash == <<Bytes(10, "Hash")>>
SizeDataHash == <<Bytes(1, "Hash")>>
UnmarshalDataHash == <<Bytes(1, "Hash")>>

MarshalVote ==
    <<Bytes(66, "Signature"), Int32(56, "ValidatorIndex"), Bytes(50, "ValidatorAddress"),
      Time(42, "Timestamp"), Value(34, "DataHash", "DataHash"), Int32(24, "Round"),
      Int64(16, "Height"), Int32(8, "Type")>>

(* Mutant: the index was added to Vote and Size was not generated again. *)
SizeVoteBefore ==
    <<Int32(1, "Type"), Int64(1, "Height"), Int32(1, "Round"), Value(1, "DataHash", "DataHash"),
      Time(1, "Timestamp"), Bytes(1, "ValidatorAddress"), Bytes(1, "Signature")>>

SizeVote ==
    <<Int32(1, "Type"), Int64(1, "Height"), Int32(1, "Round"), Value(1, "DataHash", "DataHash"),
      Time(1, "Timestamp"), Bytes(1, "ValidatorAddress"), Int32(1, "ValidatorIndex"),
      Bytes(1, "Signature")>>

UnmarshalVote ==
    <<Int32(1, "Type"), Int64(2, "Height"), Int32(3, "Round"), Value(4, "DataHash", "DataHash"),
      Time(5, "Timestamp"), Bytes(6, "ValidatorAddress"), Int32(7, "ValidatorIndex"),
      Bytes(8, "Signature")>>

MarshalCommit ==
    <<Each(34, "Signatures", "CommitSig"), Value(26, "DataHash", "DataHash"),
      Int32(16, "Round"), Int64(8, "Height")>>

SizeCommit ==
    <<Int64(1, "Height"), Int32(1, "Round"), Value(1, "DataHash", "DataHash"),
      Each(1, "Signatures", "CommitSig")>>

UnmarshalCommit ==
    <<Int64(1, "Height"), Int32(2, "Round"), Value(3, "DataHash", "DataHash"),
      Each(4, "Signatures", "CommitSig")>>

MarshalCommitSig ==
    <<Bytes(34, "Signature"), Time(26, "Timestamp"), Bytes(18, "ValidatorAddress"),
      Int32(8, "DataHashFlag")>>

SizeCommitSig ==
    <<Int32(1, "DataHashFlag"), Bytes(1, "ValidatorAddress"), Time(1, "Timestamp"),
      Bytes(1, "Signature")>>

UnmarshalCommitSig ==
    <<Int32(1, "DataHashFlag"), Bytes(2, "ValidatorAddress"), Time(3, "Timestamp"),
      Bytes(4, "Signature")>>

MarshalProposal ==
    <<Bytes(50, "Signature"), Time(42, "Timestamp"), Bytes(34, "Data"),
      Int32(24, "PolRound"), Int32(16, "Round"), Int32(8, "Type")>>

SizeProposal ==
    <<Int32(1, "Type"), Int32(1, "Round"), Int32(1, "PolRound"), Bytes(1, "Data"),
      Time(1, "Timestamp"), Bytes(1, "Signature")>>

UnmarshalProposal ==
    <<Int32(1, "Type"), Int32(2, "Round"), Int32(3, "PolRound"), Bytes(4, "Data"),
      Time(5, "Timestamp"), Bytes(6, "Signature")>>

(* con_types.pb.go *)

MarshalMessage_Proposal == <<Pointer(10, "Proposal", "Proposal")>>
MarshalMessage_Vote == <<Pointer(18, "Vote", "Vote")>>

SizeMessage_Proposal == <<Pointer(1, "Proposal", "Proposal")>>
SizeMessage_Vote == <<Pointer(1, "Vote", "Vote")>>

UnmarshalMessage == <<Case(1, "Sum", "Proposal"), Case(2, "Sum", "Vote")>>

Message_Proposal(p) == [case |-> "Message_Proposal", Proposal |-> p]
Message_Vote(v) == [case |-> "Message_Vote", Vote |-> v]

(* canonical.pb.go *)

MarshalCanonicalDataHash == <<Bytes(10, "Hash")>>
SizeCanonicalDataHash == <<Bytes(1, "Hash")>>
UnmarshalCanonicalDataHash == <<Bytes(1, "Hash")>>

MarshalCanonicalProposal ==
    <<Bytes(58, "ChainID"), Time(50, "Timestamp"),
      Pointer(42, "DataHash", "CanonicalDataHash"), Int64(32, "POLRound"),
      Fixed64(25, "Round"), Fixed64(17, "Height"), Int32(8, "Type")>>

SizeCanonicalProposal ==
    <<Int32(1, "Type"), Fixed64(1, "Height"), Fixed64(1, "Round"), Int64(1, "POLRound"),
      Pointer(1, "DataHash", "CanonicalDataHash"), Time(1, "Timestamp"), Bytes(1, "ChainID")>>

UnmarshalCanonicalProposal ==
    <<Int32(1, "Type"), Fixed64(2, "Height"), Fixed64(3, "Round"), Int64(4, "POLRound"),
      Pointer(5, "DataHash", "CanonicalDataHash"), Time(6, "Timestamp"), Bytes(7, "ChainID")>>

MarshalCanonicalVote ==
    <<Bytes(50, "ChainID"), Time(42, "Timestamp"),
      Pointer(34, "DataHash", "CanonicalDataHash"), Fixed64(25, "Round"),
      Fixed64(17, "Height"), Int32(8, "Type")>>

SizeCanonicalVote ==
    <<Int32(1, "Type"), Fixed64(1, "Height"), Fixed64(1, "Round"),
      Pointer(1, "DataHash", "CanonicalDataHash"), Time(1, "Timestamp"), Bytes(1, "ChainID")>>

UnmarshalCanonicalVote ==
    <<Int32(1, "Type"), Fixed64(2, "Height"), Fixed64(3, "Round"),
      Pointer(4, "DataHash", "CanonicalDataHash"), Time(5, "Timestamp"), Bytes(6, "ChainID")>>

(* validator.pb.go *)

MarshalValidatorSet ==
    <<Int64(24, "TotalVotingPower"), Pointer(18, "Proposer", "Validator"),
      Each(10, "Validators", "Validator")>>

SizeValidatorSet ==
    <<Each(1, "Validators", "Validator"), Pointer(1, "Proposer", "Validator"),
      Int64(1, "TotalVotingPower")>>

UnmarshalValidatorSet ==
    <<Each(1, "Validators", "Validator"), Pointer(2, "Proposer", "Validator"),
      Int64(3, "TotalVotingPower")>>

MarshalValidator ==
    <<Int64(32, "ProposerPriority"), Int64(24, "VotingPower"),
      Value(18, "PubKey", "PublicKey"), Bytes(10, "Address")>>

SizeValidator ==
    <<Bytes(1, "Address"), Value(1, "PubKey", "PublicKey"), Int64(1, "VotingPower"),
      Int64(1, "ProposerPriority")>>

UnmarshalValidator ==
    <<Bytes(1, "Address"), Value(2, "PubKey", "PublicKey"), Int64(3, "VotingPower"),
      Int64(4, "ProposerPriority")>>

MarshalSimpleValidator == <<Int64(16, "VotingPower"), Pointer(10, "PubKey", "PublicKey")>>
SizeSimpleValidator == <<Pointer(1, "PubKey", "PublicKey"), Int64(1, "VotingPower")>>
UnmarshalSimpleValidator == <<Pointer(1, "PubKey", "PublicKey"), Int64(2, "VotingPower")>>

(* tendermint/crypto, of the keys it knows only ed25519. *)
MarshalPublicKey == <<Bytes(10, "Ed25519")>>
SizePublicKey == <<Bytes(1, "Ed25519")>>
UnmarshalPublicKey == <<Bytes(1, "Ed25519")>>

(* google.protobuf.Timestamp *)
MarshalTimestamp == <<Int32(16, "Nanos"), Int64(8, "Seconds")>>
SizeTimestamp == <<Int64(1, "Seconds"), Int32(1, "Nanos")>>
UnmarshalTimestamp == <<Int64(1, "Seconds"), Int32(2, "Nanos")>>

Written ==
    [DataHash |-> MarshalDataHash, Vote |-> MarshalVote, Commit |-> MarshalCommit,
     CommitSig |-> MarshalCommitSig, Proposal |-> MarshalProposal,
     Message_Proposal |-> MarshalMessage_Proposal,
     Message_Vote |-> MarshalMessage_Vote, CanonicalDataHash |-> MarshalCanonicalDataHash,
     CanonicalProposal |-> MarshalCanonicalProposal, CanonicalVote |-> MarshalCanonicalVote,
     ValidatorSet |-> MarshalValidatorSet, Validator |-> MarshalValidator,
     SimpleValidator |-> MarshalSimpleValidator, PublicKey |-> MarshalPublicKey,
     Timestamp |-> MarshalTimestamp]

Counted ==
    [DataHash |-> SizeDataHash, Vote |-> SizeVote, Commit |-> SizeCommit,
     CommitSig |-> SizeCommitSig, Proposal |-> SizeProposal,
     Message_Proposal |-> SizeMessage_Proposal,
     Message_Vote |-> SizeMessage_Vote, CanonicalDataHash |-> SizeCanonicalDataHash,
     CanonicalProposal |-> SizeCanonicalProposal, CanonicalVote |-> SizeCanonicalVote,
     ValidatorSet |-> SizeValidatorSet, Validator |-> SizeValidator,
     SimpleValidator |-> SizeSimpleValidator, PublicKey |-> SizePublicKey,
     Timestamp |-> SizeTimestamp]

Expected ==
    [DataHash |-> UnmarshalDataHash, Vote |-> UnmarshalVote, Commit |-> UnmarshalCommit,
     CommitSig |-> UnmarshalCommitSig, Proposal |-> UnmarshalProposal,
     Message |-> UnmarshalMessage, CanonicalDataHash |-> UnmarshalCanonicalDataHash,
     CanonicalProposal |-> UnmarshalCanonicalProposal,
     CanonicalVote |-> UnmarshalCanonicalVote, ValidatorSet |-> UnmarshalValidatorSet,
     Validator |-> UnmarshalValidator, SimpleValidator |-> UnmarshalSimpleValidator,
     PublicKey |-> UnmarshalPublicKey, Timestamp |-> UnmarshalTimestamp]

-----------------------------------------------------------------------------
(* The messages: the structs of the generated code. *)

(* A time is its seconds and nanoseconds; Go's zero time is the first one a
   Timestamp can hold. *)
ZeroTime == [Seconds |-> -EpochSeconds, Nanos |-> 0]

Times == [Seconds : -EpochSeconds .. MaxSeconds, Nanos : 0 .. NanosPerSecond - 1]

TimestampStruct == [Seconds : Int64s, Nanos : Int32s]
PublicKeyStruct == [Ed25519 : Seq(Byte)]
DataHashStruct == [Hash : Seq(Byte)]
CanonicalDataHashStruct == [Hash : Seq(Byte)]

VoteStruct ==
    [Type : Int32s, Height : Int64s, Round : Int32s, DataHash : DataHashStruct,
     Timestamp : Times, ValidatorAddress : Seq(Byte), ValidatorIndex : Int32s,
     Signature : Seq(Byte)]

CommitSigStruct ==
    [DataHashFlag : Int32s, ValidatorAddress : Seq(Byte), Timestamp : Times,
     Signature : Seq(Byte)]

ProposalStruct ==
    [Type : Int32s, Round : Int32s, PolRound : Int32s, Data : Seq(Byte), Timestamp : Times,
     Signature : Seq(Byte)]

CommitStruct ==
    [Height : Int64s, Round : Int32s, DataHash : DataHashStruct,
     Signatures : Seq(CommitSigStruct)]

CanonicalProposalStruct ==
    [Type : Int32s, Height : Int64s, Round : Int64s, POLRound : Int64s,
     DataHash : CanonicalDataHashStruct \cup {Nil}, Timestamp : Times, ChainID : Seq(Byte)]

CanonicalVoteStruct ==
    [Type : Int32s, Height : Int64s, Round : Int64s,
     DataHash : CanonicalDataHashStruct \cup {Nil}, Timestamp : Times, ChainID : Seq(Byte)]

ValidatorStruct ==
    [Address : Seq(Byte), PubKey : PublicKeyStruct, VotingPower : Int64s,
     ProposerPriority : Int64s]

ValidatorSetStruct ==
    [Validators : Seq(ValidatorStruct), Proposer : ValidatorStruct \cup {Nil},
     TotalVotingPower : Int64s]

SimpleValidatorStruct == [PubKey : PublicKeyStruct \cup {Nil}, VotingPower : Int64s]

Message_ProposalStruct == [case : {"Message_Proposal"}, Proposal : ProposalStruct]
Message_VoteStruct == [case : {"Message_Vote"}, Vote : VoteStruct]
MessageStruct == [Sum : Message_ProposalStruct \cup Message_VoteStruct \cup {Nil}]

Struct ==
    [DataHash |-> DataHashStruct, Vote |-> VoteStruct, Commit |-> CommitStruct,
     CommitSig |-> CommitSigStruct, Proposal |-> ProposalStruct,
     Message |-> MessageStruct, Message_Proposal |-> Message_ProposalStruct,
     Message_Vote |-> Message_VoteStruct, CanonicalDataHash |-> CanonicalDataHashStruct,
     CanonicalProposal |-> CanonicalProposalStruct, CanonicalVote |-> CanonicalVoteStruct,
     ValidatorSet |-> ValidatorSetStruct, Validator |-> ValidatorStruct,
     SimpleValidator |-> SimpleValidatorStruct, PublicKey |-> PublicKeyStruct,
     Timestamp |-> TimestampStruct]

(* A nil pointer points to no message, and a panic is no result. *)
ASSUME NilAssumption == Nil \notin Seq(Byte) /\ \A T \in DOMAIN Struct : Nil \notin Struct[T]

-----------------------------------------------------------------------------
(* Size and Marshal. *)

delimited(key, n) == key + n + sov(uint64(n))

(* The messages in a field, in their order. *)
parts(f, x) ==
    CASE f.kind \in {"stdtime", "message"} -> <<x>>
      [] f.kind = "pointer" -> IF x = Nil THEN <<>> ELSE <<x>>
      [] f.kind = "repeated" -> x
      [] OTHER -> <<>>

(* What Size adds for a field; sizes are those of the messages in it. *)
sizeOf(f, x, sizes) ==
    CASE f.kind \in {"int32", "int64"} -> IF x = 0 THEN 0 ELSE f.key + sov(uint64(x))
      [] f.kind = "sfixed64" -> IF x = 0 THEN 0 ELSE f.key + WordBits \div 8
      [] f.kind = "bytes" -> IF Len(x) = 0 THEN 0 ELSE delimited(f.key, Len(x))
      [] OTHER -> total([j \in DOMAIN sizes |-> delimited(f.key, sizes[j])], Len(parts(f, x)))

fixed64(x) == [k \in 1 .. WordBits \div 8 |-> (uint64(x) \div pow2[8 * (k - 1)]) % 256]

(* Nested messages, the last one first, each behind its key and its length. *)
putMessages(d, key, inner, n) ==
    LET put[j \in 0 .. n] ==
            IF j = 0 THEN d
            ELSE LET e    == inner[n + 1 - j]
                     body == e \o put[j - 1]
                 IN  <<key>> \o encodeVarint(body, uint64(Len(e)))
    IN  put[n]

(* The buffer after a field; inner is what the messages in it are marshalled to. *)
putField(d, f, x, inner) ==
    CASE f.kind \in {"int32", "int64"} ->
             IF x = 0 THEN d ELSE <<f.key>> \o encodeVarint(d, uint64(x))
      [] f.kind = "sfixed64" -> IF x = 0 THEN d ELSE <<f.key>> \o fixed64(x) \o d
      [] f.kind = "bytes" ->
             IF Len(x) = 0 THEN d ELSE <<f.key>> \o encodeVarint(x \o d, uint64(Len(x)))
      [] OTHER -> putMessages(d, f.key, inner, Len(parts(f, x)))

sizeWith(T, m, Inner(_, _)) ==
    LET sizes(f, x) == [j \in DOMAIN parts(f, x) |-> Inner(f.of, parts(f, x)[j])]
        size(f)     == sizeOf(f, m[f.name], sizes(f, m[f.name]))
        sum(fields) == total([k \in DOMAIN fields |-> size(fields[k])], Len(fields))
    IN  sum(Counted[T])

marshalWith(T, m, Inner(_, _)) ==
    LET inner(f, x) == [j \in DOMAIN parts(f, x) |-> Inner(f.of, parts(f, x)[j])]
        put(d, f)   == putField(d, f, m[f.name], inner(f, m[f.name]))
        all(fields) ==
            LET after[k \in 0 .. Len(fields)] ==
                    IF k = 0 THEN <<>> ELSE put(after[k - 1], fields[k])
            IN  after[Len(fields)]
    IN  all(Written[T])

(* No message contains itself.  The methods of the messages with nothing but
   numbers and bytes, of those with such messages in them, and so on. *)
Size0(T, m) == sizeWith(T, m, LAMBDA U, x : 0)
Size1(T, m) == sizeWith(T, m, Size0)
Size2(T, m) == sizeWith(T, m, Size1)

Marshal0(T, m) == marshalWith(T, m, LAMBDA U, x : <<>>)
Marshal1(T, m) == marshalWith(T, m, Marshal0)
MarshalToSizedBuffer(T, m) == marshalWith(T, m, Marshal1)

(* A buffer of n bytes filled with d from its end; Nil for a panic. *)
filled(n, d) ==
    IF Len(d) <= n THEN [k \in 1 .. n - Len(d) |-> 0] \o d ELSE Nil

(* Message, whose Sum is Nil or one of its cases, has no field of its own. *)
SizeMessage(m) == IF m.Sum = Nil THEN 0 ELSE Size2(m.Sum.case, m.Sum)

MarshalMessage(m) ==
    IF m.Sum = Nil THEN <<>>
    ELSE filled(Size2(m.Sum.case, m.Sum), MarshalToSizedBuffer(m.Sum.case, m.Sum))

Size(T, m) == IF T = "Message" THEN SizeMessage(m) ELSE Size2(T, m)

(* Marshal: dAtA[:n] where n bytes were written, or Nil for a panic. *)
Marshal(T, m) ==
    LET written(size, d) ==
            IF d = Nil \/ Len(d) > size THEN Nil ELSE SubSeq(filled(size, d), 1, Len(d))
    IN  written(Size(T, m),
                IF T = "Message" THEN MarshalMessage(m) ELSE MarshalToSizedBuffer(T, m))

-----------------------------------------------------------------------------
(* Unmarshal.  Reading yields a value and the index after it, or an error. *)

read(v, i) == [err |-> "none", v |-> v, i |-> i]
fail(e) == [err |-> e, v |-> Nil, i |-> 0]

(* The varint at i: the loop ends at the first byte below 128, gives up when
   the shift reaches the width, and otherwise runs out of bytes. *)
varintEnds(b, i) == {n \in 1 .. MaxGroups : i + n <= Len(b) /\ b[i + n] < 128}

varint(b, i, n) == uint64(total([k \in 1 .. n |-> (b[i + k] % 128) * pow2[7 * (k - 1)]], n))

readVarint(b, i) ==
    LET ends == varintEnds(b, i)
    IN  IF ends # {} THEN read(varint(b, i, Min(ends)), i + Min(ends))
        ELSE fail(IF Len(b) - i >= MaxGroups THEN "IntOverflow" ELSE "UnexpectedEOF")

(* b[low:high] *)
slice(b, low, high) ==
    IF low <= high /\ high <= Len(b) THEN read(SubSeq(b, low + 1, high), high) ELSE fail("panic")

(* The index behind as many bytes as the varint len says; it may wrap around. *)
endOf(len) == int64(uint64(len.i + int64(len.v)))

(* Mutant: the end of the buffer is not checked. *)
sliceOfUnchecked(b, len) ==
    IF len.err # "none" THEN len
    ELSE IF int64(len.v) < 0 \/ endOf(len) < 0 THEN fail("InvalidLength")
    ELSE slice(b, len.i, endOf(len))

(* Mutant: a length past the end means up to the end. *)
sliceOfToEnd(b, len) ==
    IF len.err # "none" THEN len
    ELSE IF int64(len.v) < 0 THEN fail("InvalidLength")
    ELSE slice(b, len.i, Min({len.i + int64(len.v), Len(b)}))

(* As many bytes as the varint len says. *)
sliceOf(b, len) ==
    IF len.err # "none" THEN len
    ELSE IF int64(len.v) < 0 \/ endOf(len) < 0 THEN fail("InvalidLength")
    ELSE IF endOf(len) > Len(b) THEN fail("UnexpectedEOF")
    ELSE slice(b, len.i, endOf(len))

readDelimited(b, i) == sliceOf(b, readVarint(b, i))

(* The index behind the rest of a field whose key ends at i, in skip; len is
   the varint at i. *)
skipValue(i, wireType, len) ==
    CASE wireType = 0 -> len
      [] wireType = 1 -> read(Nil, i + WordBits \div 8)
      [] wireType = 2 ->
             IF len.err # "none" THEN len
             ELSE IF int64(len.v) < 0 THEN fail("InvalidLength")
             ELSE read(Nil, endOf(len))
      [] wireType \in {3, 4} -> read(Nil, i)
      [] wireType = 5 -> read(Nil, i + HalfBits \div 8)
      [] OTHER -> fail("illegal wireType")

(* The depth after the start or the end of a group. *)
depthAfter(depth, wireType) ==
    CASE wireType = 3 -> depth + 1 [] wireType = 4 -> depth - 1 [] OTHER -> depth

(* One turn of the loop of skip, at s.i and s.v groups deep; it is done behind
   a value at depth 0. *)
skipTurn(b, s, key, value) ==
    LET depth == depthAfter(s.v, key.v % 8)
    IN  IF key.err # "none" THEN key
        ELSE IF key.v % 8 = 4 /\ s.v = 0 THEN fail("UnexpectedEndOfGroup")
        ELSE IF value.err # "none" THEN value
        ELSE IF value.i < 0 THEN fail("InvalidLength")
        ELSE [err |-> IF depth = 0 THEN "done" ELSE "none", v |-> depth, i |-> value.i]

(* A loop over the bytes b stops at its first error or at their end, and then
   stays as it is.  Most do so within eight turns, which are looked at first. *)
stopped(r, b) == r.err # "none" \/ r.i >= Len(b)
fewTurns(b) == IF Len(b) < 8 THEN Len(b) ELSE 8

(* The loop; every turn reads a byte at least, so that there are no more turns
   than bytes. *)
skipFrom(b) ==
    LET over(s, key) ==
            skipTurn(b, s, key, skipValue(key.i, key.v % 8, readVarint(b, key.i)))
        next(s) == IF stopped(s, b) THEN s ELSE over(s, readVarint(b, s.i))
        after[n \in 0 .. Len(b)] == IF n = 0 THEN read(0, 0) ELSE next(after[n - 1])
        end(few)   == IF stopped(few, b) THEN few ELSE after[Len(b)]
        whole(all) == IF all.err = "none" THEN fail("UnexpectedEOF") ELSE all
    IN  whole(end(after[fewTurns(b)]))

(* What the callers of skip check: n bytes from i on are passed over. *)
passOver(m, b, i, n) ==
    IF n.err # "done" THEN n
    ELSE IF int64(uint64(i + n.i)) < 0 THEN fail("InvalidLength")
    ELSE IF i + n.i > Len(b) THEN fail("UnexpectedEOF")
    ELSE read(m, i + n.i)

(* An unknown field leaves the message as it is. *)
skip(m, b, i) == passOver(m, b, i, skipFrom(SubSeq(b, i + 1, Len(b))))

WireType(f) ==
    CASE f.kind \in {"int32", "int64"} -> 0 [] f.kind = "sfixed64" -> 1 [] OTHER -> 2

(* The message before anything is read into it. *)
newWith(T, Inner(_)) ==
    LET zero(f) == CASE WireType(f) < 2 -> 0
                     [] f.kind \in {"bytes", "repeated"} -> <<>>
                     [] f.kind = "stdtime" -> ZeroTime
                     [] f.kind = "message" -> Inner(f.of)
                     [] OTHER -> Nil
        zeros(fields) ==
            [x \in {f.name : f \in fields} |-> zero(CHOOSE f \in fields : f.name = x)]
    IN  zeros(ToSet(Expected[T]))

New0(T) == newWith(T, LAMBDA U : Nil)
New(T) == newWith(T, New0)

readFixed64(b, i) ==
    IF i + WordBits \div 8 > Len(b) THEN fail("UnexpectedEOF")
    ELSE read(total([n \in 1 .. WordBits \div 8 |-> b[i + n] * pow2[8 * (n - 1)]], WordBits \div 8),
              i + WordBits \div 8)

(* types.StdTimeUnmarshal refuses what is no time. *)
validTimestamp(t) == t \in Times

(* m with field f set to the message inner; a list grows. *)
setMessage(m, f, inner) ==
    IF inner.err # "none" THEN inner
    ELSE IF f.kind = "stdtime" /\ ~ validTimestamp(inner.v) THEN fail("timestamp")
    ELSE read([m EXCEPT ![f.name] =
                  CASE f.kind = "repeated" -> Append(@, inner.v)
                    [] f.kind = "case" /\ f.of = "Proposal" -> Message_Proposal(inner.v)
                    [] f.kind = "case" /\ f.of = "Vote" -> Message_Vote(inner.v)
                    [] OTHER -> inner.v], 0)

(* m with field f set to what data says, or to the message in it. *)
setField(m, f, data, inner) ==
    LET set(x) == read([m EXCEPT ![f.name] = x], 0)
    IN  CASE f.kind = "int64" \/ f.kind = "sfixed64" -> set(int64(data))
          [] f.kind = "int32" -> set(int32(data))
          [] f.kind = "bytes" -> set(data)
          [] OTHER -> setMessage(m, f, inner)

(* What a message in field f is unmarshalled into: one that is there already is
   merged with it. *)
target(m, f) ==
    IF f.kind = "message" \/ (f.kind = "pointer" /\ m[f.name] # Nil) THEN m[f.name]
    ELSE New(f.of)

fieldNum(key) == int32(key.v \div 8)

known(T, num) == \E k \in DOMAIN Expected[T] : Expected[T][k].key = num

fieldOf(T, num) == CHOOSE f \in ToSet(Expected[T]) : f.key = num

(* A field with a number that no message has a field for (Vote has the most,
   eight), and nothing behind it. *)
unknownField(b) ==
    LET key == readVarint(b, 0)
    IN  /\ key.err = "none" /\ key.v % 8 # 4 /\ fieldNum(key) > 8
        /\ skipFrom(b).err = "done" /\ skipFrom(b).i = Len(b)

(* The value of field f at i as it stands in the bytes. *)
rawOf(f, b, i) ==
    CASE WireType(f) = 0 -> readVarint(b, i)
      [] WireType(f) = 1 -> readFixed64(b, i)
      [] WireType(f) = 2 -> readDelimited(b, i)

(* One turn of the loop of Unmarshal, with the field at r.i: its key, its raw
   value and what a message in it decodes to. *)
turn(T, b, r, key, raw, inner) ==
    LET into(f) ==
            IF key.v % 8 # WireType(f) THEN fail("wrong wireType")
            ELSE IF raw.err # "none" THEN raw
            ELSE [setField(r.v, f, raw.v, inner) EXCEPT !.i = raw.i]
    IN  IF key.err # "none" THEN key
        ELSE IF key.v % 8 = 4 \/ fieldNum(key) <= 0 THEN fail("illegal tag")
        ELSE IF ~ known(T, fieldNum(key)) THEN skip(r.v, b, r.i)
        ELSE into(fieldOf(T, fieldNum(key)))

(* The loop, which has no more turns than there are bytes. *)
unmarshalWith(T, m, b, Inner(_, _, _)) ==
    LET with(r, key, f, raw) == turn(T, b, r, key, raw, Inner(f.of, target(r.v, f), raw.v))
        into(r, key, f) == with(r, key, f, rawOf(f, b, key.i))
        behind(r, key)  == into(r, key, fieldOf(T, fieldNum(key)))
        next(r) == IF stopped(r, b) THEN r ELSE behind(r, readVarint(b, r.i))
        after[n \in 0 .. Len(b)] == IF n = 0 THEN read(m, 0) ELSE next(after[n - 1])
        end(few)   == IF stopped(few, b) THEN few ELSE after[Len(b)]
        whole(all) ==
            IF all.err = "none" /\ all.i > Len(b) THEN fail("UnexpectedEOF") ELSE all
    IN  whole(end(after[fewTurns(b)]))

Unmarshal0(T, m, b) == unmarshalWith(T, m, b, LAMBDA U, x, data : fail("no message"))
Unmarshal1(T, m, b) == unmarshalWith(T, m, b, Unmarshal0)
Unmarshal2(T, m, b) == unmarshalWith(T, m, b, Unmarshal1)

(* proto.Unmarshal *)
Unmarshal(T, b) == Unmarshal2(T, New(T), b)
=============================================================================
