# TLA+ models of iotwal

iotwal ("If Only Tendermint Was A Library") is a Go package, `concord`, in which
a known set of proposers agrees on a piece of data over a libp2p pubsub topic
and returns it with a *commit*: signatures of more than two thirds of the
voting power.  This directory holds TLA+ models of the package, the TLC runs
that check them and proofs checked by TLAPS.

## 1. Inventory

| Component | Source | State | Operations |
|---|---|---|---|
| Vote set | `vote_set.go` | canonical `votes`, `votesByBlock`, `sum`, `votesBitArray`, `maj23`, `peerMaj23s`, the `done` channel; all under `mtx` | `AddVote`, `SetPeerMaj23`, `MakeCommit`, readers |
| Votes, signatures | `vote.go`, `canonical.go`, `data_hash.go`, `validation.go`, `priv_validator.go` | none | `NewVote`, `SignVote`, `Verify`, `CommitSig`, basic validation |
| Commit | `commit.go` | hash and one `CommitSig` per proposer | `GetVote`, `ValidateBasic`, `CommitToVoteSet` |
| Commit verification | `proposer_set.go` 661-818 | none | `VerifyCommit`, `VerifyCommitLight`, `VerifyCommitLightTrusting` |
| Proposer set | `proposer_set.go`, `proposer.go` | members with power and priority, the proposer, the cached total | `NewValidatorSet`, `IncrementProposerPriority`, `UpdateWithChangeSet`, `ValidatorSetFromExistingValidators` |
| Agreement | `conciliator.go`, `round.go` | per instance: the current `round` with its `propCh` and two vote sets, two mutexes | `NewConcord`, `AgreeOn`, the validator `incoming`/`handle` |
| Proposals | `proposal.go` | none | `NewProposal`, `SignProposal`, basic validation |
| Topic (external) | libp2p pubsub | messages in transit, seen cache | `Publish`, delivery to validators |
| Message encoding | `msgs_serde.go`, `msgs.go` | none | `MsgToProto`, `MsgFromProto`, `encodeMsg`; the reactor messages of `msgs.go` are used by nobody |
| Generated protobuf code | `pb/*.pb.go` | none | `Size`, `Marshal`, `Unmarshal` of each message |
| Round state | `round_state.go`, `peer_round_state.go` | none in use | leftovers of Tendermint that no code reads; not modelled |

How they interact.  A caller makes one `concord` instance per proposer and
calls `AgreeOn(data, proposerSet)`.  The call makes a new round (two vote sets,
a channel of capacity one), publishes a proposal if it is the proposer's turn,
waits for a proposal, has the caller's `validate` callback check it, publishes
a prevote, waits until the prevote set is `Done()`, publishes a precommit, waits
again, and returns `MakeCommit()` of the precommits.  Meanwhile pubsub runs
`handle` in a goroutine per message, on whatever `c.round` is at that moment.
`Publish` runs the instance's own validator first, so an instance receives its
own messages through the same path.

What is hard: the caller's thread and the handlers meet in the vote sets and
in `propCh` in any order; messages are delayed, reordered, lost, and sent by
faulty proposers; a call may be cancelled at any wait and followed by another;
vote sets must stay consistent under equivocation and peer claims in any order;
proposer priorities are 64 bit integers that long histories of elections and
membership changes must not drive to their limits.  `PROJECT.json` lists each
hazard at its line, with the properties aimed at it.  On the way, messages are bytes
that code generated in three separate pieces writes and reads, and that anybody on
the topic may have written.

What makes each component correct: a vote set's tallies count each voter once,
its first majority is final, backed by a quorum of canonical votes and
signalled; a commit made from it verifies; a verifier accepts only what the
promised power has signed; one agreement decides at most one validated hash;
proposer priorities stay centred and bounded and everybody gets a turn; a message
is understood as it was meant or refused, and a signature stands for one statement.

## 2. Modules

| Module | What it is |
|---|---|
| `VotingPower` | proposers as indices, the power of a set of them, the total, the quorum |
| `VoteSetOps` | votes, signatures, and the vote set with `AddVote` and `SetPeerMaj23` as operators on a vote set value |
| `Commit` | commits, `MakeCommit`, `CommitToVoteSet`, the three verifiers |
| `VoteSet` | one vote set as a state machine, its properties |
| `Concord` | instances, rounds, handlers and the topic; composes two vote sets per instance |
| `Consensus` | the abstract specification of one agreement: a value is chosen at most once, nodes decide only the chosen value |
| `Instance` | one instance lock by lock: concurrent calls of `AgreeOn`, `agreeLk`, `roundMu`, the unlocked reads of `c.round`, handlers that wait |
| `Protobuf` | the generated `Size`, `Marshal`, `Unmarshal`: for each message its struct and three lists of fields, and one operator for what the generator repeats |
| `Serde` | the conversions to and from protobuf, the sign bytes, the basic checks, and the way of a value through bytes |
| `ProposerSet` | elections and membership, in scaled-down `int64` arithmetic |
| `CommitVerify` | a verifier that is handed arbitrary commits |
| `CommitProofs` | lemmas and theorems about the operators of `VotingPower`, `VoteSetOps` and `Commit`: power and quorums, vote sets, commits and their verifiers |
| `ProtobufProofs` | lemmas and theorems about the operators of `Protobuf`: varints, the two loops, and that what was written is read back |
| `VoteSetProofs`, `CommitVerifyProofs`, `ConcordProofs`, `InstanceProofs`, `ProposerSetProofs`, `SerdeProofs` | theorems about the state machines; `ConcordProofs` also that `Concord` implements `Consensus` |
| `MCVoteSet`, `MCConcord`, `MCInstance`, `MCSerde`, `MCProposerSet`, `MCCommitVerify` | instances for TLC |

Definitions whose comment starts with "Mutant:" are broken variants of the
definition that follows them.  No specification uses them; substituting one
must make the property it is meant for fail, which shows that the property can
tell the difference.

### How the models relate to the code

*Vote sets.*  `mtx` makes every call atomic, so a call is one operator
application and one step.  A data hash is a model value, the zero hash (a vote
for nil) is `NilBlock`.  A proposer's index, address and key correspond one to
one and are one number; a vote still carries index and address separately,
because `addVote` compares them.  A signature is the record of what
`CanonicalizeVote` signs and the key: type, hash, time.  Verification is
equality, so signatures cannot be forged and cover neither index nor address.
An entry of the map `votesByBlock` that does not exist has `tracked = FALSE`.
The error a call returns is part of the state (`ret`), panics included: both of
`AddVote`'s are translated, where it would reach them.

*Commits.*  A flag is one of the three that have names or `"unknown"`, which stands for
every other byte.  `DataHash` panics on such a flag and `ValidateBasic` refuses it;
`signedHash` gives `NoBlock` then, and whoever calls it says what becomes of that:
`VerifyCommit` returns `"panic"` if the first signature it cannot pass has such a
flag, `CommitToVoteSet` panics, and the light verifiers never get there.

*Power.*  `PowerOf(S)` counts units of power, so that facts about sums are facts
about cardinality, which TLAPS has a library for.  An assumption of `MCVoteSet`
makes TLC compare it with the sum.

*Agreement.*  `AgreeOn` is cut where it waits or publishes; `pc` is the position.
One handler invocation is one step: once it has read `c.round` it touches that
round only, and a replaced round is read by nobody.  A handler blocked on a
full `propCh` is a message not yet delivered.  `calls[n] = 0` is `c.round ==
nil`; a message in that state ends the instance (`pc = "crashed"`).  The call
number stands for the timestamp of a message.  Proposal data and its hash are
one value, as in the test, whose callback returns the data.  The topic gives a
validator each message of a correct instance at most once, at any time or
never.  Members of `Faulty` send any message of `FaultyMsgs`, to whomever they
like and as often as they like, and repeat what others sent.

*One instance.*  `Concord` takes for granted that calls of one instance do not
overlap, that a call's own messages pass through the round it made, and that
handlers come to an end.  `Instance` is where this is checked.  Its steps are
the stretches between two lock operations or waits: `AgreeOn` (the early return
for a nil set), `LockAgree`, `LockRound`, `NewRound` or `Panic`, and then three
times `Enter` (the unlocked read of `c.round`), `Publish` (the local validator
reads `c.round` under `roundMu`), `HandleOwn` and a wait.  A handler of a message
that arrives is `Deliver`, `ReadRound`, `Act`.  What arrives may be signed by anybody,
this instance included: heights and rounds are not signed, so a proposal or vote of an
earlier agreement can be sent again, before the call publishes its own or after.
A round is named by the call that made it, a vote set is a set of votes, one a
member, and powers are equal: how votes are counted is the business of `VoteSetOps`.
What a round refuses is what `rcvProposal` and `AddVote` return an error for: a proposal
not signed by the proposer, a vote from outside the set, and a second vote of a member,
for another block or with another signature; a call fails on the error that its
own message meets.  `Panic` releases `agreeLk` by the
deferred call and leaves `roundMu` locked, as the code does; the caller recovers.

*Bytes.*  A message is a record of its Go fields and its encoding a sequence of
numbers below 256.  Each generated method is its list of fields in the order of
the code: `MarshalVote` the keys from the last field to the first, `SizeVote` the
lengths of the keys, `UnmarshalVote` the field numbers of the `switch`.  They are
three translations, not one schema, so that they can disagree.  Marshalling fills
a buffer of `Size` bytes from its end and panics below index 0; reading goes by an
index that wraps at the width of a word.  The loops of the code (over fields, bytes of a
varint, items of a repeated field, turns of `Unmarshal` and of `skip`) are functions on
the number of turns.  A loop
that has stopped stays as it is, so `Unmarshal` and `skip` ask for its state after eight
turns before they ask for the last one; `StopsForGood` proves that this changes nothing,
and TLC has less deep recursions to evaluate.  Messages call the methods of the messages in them; since none
contains itself, there are three levels, and `Marshal0`, `Marshal1` and
`MarshalToSizedBuffer` (`Unmarshal0` to `Unmarshal2`) are the methods level by level.  Widths are constants: a word of 24
bits and a half of 16 in the runs, instead of 64 and 32.  In `Serde` a value is encoded
(`Publish`, `EncodeCommit`, `EncodeProposerSet`), its bytes may be extended by a
newer version (`Extend`), cut (`Truncate`), continued otherwise (`Follow`) or changed
(`Rewrite`), and are then read (`Receive`).  A signature verifies if it is the one the
signer made and the bytes are those it signed.  Keys, timestamps and delimiters of
libraries are marked external.

*Proposer set.*  A set is two functions of the address (power, priority), the
proposer and the cached total; the slice order is determined by power and
address, and no modelled operation depends on it.  `MaxInt64` is a parameter;
additions that the code clips are clipped, the ones it leaves unchecked wrap,
division truncates as in Go.  `updateWithChangeSet` verifies completely before
it changes anything, and so does `accepts`.

## 3. Runs

Bounds are the constants of the `.cfg` files.

| Run | Instance | Shows |
|---|---|---|
| `voteset_claims` | 4 proposers of power 2, 1, 1, 1 (quorum 4 of 5), two blocks and nil, two claiming peers, everybody may equivocate, one vote for each early return of `addVote` | tallies, majority, commits, memory bound, no panic, nothing taken back |
| `voteset_done` | one claiming peer | **violated**: `done` is not closed when a conflicting vote completes the quorum |
| `concord_byz_voter` | powers 3, 1, 1, a light one faulty: equivocates, forges, repeats; calls start at any time, everybody has data of its own, the proposer's may be invalid | one agreement implements `Consensus`; data and commit belong together and are validated; unless somebody has crashed, every call returns or refuses the proposal |
| `concord_byz_proposer` | powers 2, 2, 1, the last one faulty and the proposer; every instance is in `AgreeOn` (`ReadyInit`), one call may be cancelled at any wait | at most one hash decided although proposals differ |
| `concord_early` | calls start at any time | **violated**: an early message crashes the instance |
| `concord_stale` | powers 3, 1, two calls each | **violated**: late votes count in the next agreement |
| `instance` | four calls (as the only member, as one of two, from outside the set, without a set), a proposal from the other member, a proposal and a prevote the instance has signed before, cancellation at any wait | a call keeps its round; calls end if their waits do and handlers finish, but for two named cases |
| `codec` | 39 votes, 27 proposals, 17 commits, 29 proposer sets with every length of varint, unsound ones included; two concords; every prefix, seven values for every byte, eight tails, six kinds of unknown field at two levels | what is sound is understood, prefixes are refused, what is accepted was signed, sign bytes and leaves are unique, no index panics |
| `codec_odddata` | the same | **violated**: `handle` panics on a proposal whose data is no hash |
| `proposers` | `MaxInt64 = 127` (so `MaxTotalVotingPower` = 15), 3 addresses, three genesis sets, 64 change sets, elections of 1 or 2 rounds, rebuilds | total current, priorities centred, bounded, never clipped; a removed proposer is replaced; everybody is elected again and again |
| `proposers_rebuild` | as `proposers`, no changes | **violated**: a rebuilt set has another proposer |
| `commit_verify` | powers 3, 2, 1 (two thirds of 6 is a whole number and can be met exactly), lists of 2 to 4 slots out of eleven kinds, one with an unknown flag | accepted commits are signed by the promised power |

Why the bounds are enough to be interesting: powers are uneven, so counting
heads and counting power differ; totals include a multiple of three and one
that is not; every proposer can equivocate between two blocks, and two blocks
are what a disagreement takes; a single faulty proposer below a third of the
power can send everything it could ever send that the code tells apart; two
calls are what it takes for a message to be late.  In `proposers` the state
space is finite by itself (priorities are bounded, which is the point), so TLC
explores histories of any length.  In `codec` a word of 24 bits has varints of
one to four bytes, enough for a length that is negative as an `int` and for an
index that wraps, and two bytes of hash are enough for a hash that is too short,
right or too long.  In `instance` the old proposal can fill the channel of capacity
one before the call that leads publishes its own, or wait for room after it; the old
prevote can be in a round before the call's own or after; and the call from outside the
set can come before, between and after the others.
Deadlock checking is off in the `Concord`, `Instance` and `Serde` runs only: there
the calls and messages are bounded, and an instance stops when it has returned,
crashed or given up, a reader when it has read.  The symmetry of blocks is used where no
liveness is checked and both blocks are treated alike.

### Fairness

`Concord.LiveSpec` asks for weak fairness of each caller (it calls, and the Go
scheduler runs its thread) and of the delivery of what correct instances publish
(the topic delivers; the code has no retransmission of its own, so nothing weaker
would do).  Calls start at any time, so an early message may crash an instance, as
`concord_early` shows; `EveryCallReturns` is about the behaviours in which none does.

`Instance.LiveSpec` asks for weak fairness of calls that have begun and of handlers
that have started, and nothing else: callers need not call, messages need not arrive,
contexts need not end.  A lock is not assumed to be fair: with finitely many calls,
each of which takes each lock once, weak fairness is enough.  `CallsEnd` has as its
premise that waits inside a call end, by the context at the latest.  Publishing is no
such wait, since it does not look at the context of the call: that a call may be held
up there (`HeldUp`), by an old proposal of its own, is an outcome of its own in the
property, and so is `roundMu` left locked by a panic (`Deserted`).  Both properties are
about behaviours in which no early message has crashed the instance (`NeverEarly`).

`ProposerSet.FairSpec` asks for weak fairness of an election of one round; the
repository itself never calls `IncrementProposerPriority`, its users do.
`RemovedProposerIsReplaced` needs no more.  `EveryoneProposes` is about behaviours in
which membership changes stop at some point.

## 4. Proofs

All theorems hold for every value of the constants that satisfies the named
assumptions: any number of proposers, any powers, any blocks, peers, votes
offered and messages of the faulty.

`CommitProofs` starts with voting power: the power of a set grows by the power of a new member, is
monotone, and two quorums share more than a third of the total
(`QuorumsIntersect`), hence somebody outside any set with less than a third
(`QuorumsShareCorrect`).  `VoteSetInv` is the inductive invariant of a vote set: types;
`TalliesOK`, sums and bit arrays describe the lists, and a voter by block is a
canonical voter; `VotesGenuine`; `MajorityOK`, which is what `MakeCommit` needs.
None is inductive alone: that a tally counts a vote once needs that an accepted
vote is in neither storage area, which needs that votes sit under their own
block.  `AddVoteOK` and `SetPeerMaj23OK` show it is kept, `AddVoteExtends` that
nothing is taken back and neither panic is reached, `AddVoteSignals` that without
claims a conflicting vote never completes a quorum, `MakeCommitVerifies` that
commits verify.

Its second part is about the loops over the signatures of a commit.  `lightStep`,
`trustingStep` and `rebuildStep` are their bodies, `lightScan` and the like the
functions from the number of signatures read to the state of the loop.  That such a
function exists is shown first (`LightScanSteps` etc.); a loop invariant (`LightOK`:
the tally is the power of the signers read so far, and "ok" means it passed the
threshold; `TrustingOK`: the tally is the power of `seen`, whose members have signed;
`RebuildOK`: the set holds exactly the votes read so far) is kept by every step and
holds after any number of them by `Induction`, which is proved from the
well-foundedness of the naturals.  From these: what each verifier accepts is signed by the power it
promises (`LightAccepted`, `FullAccepted`, `TrustingAccepted`); the light verifier
accepts what the full one does, and the other way round but for a wrong signature or an
unknown flag further on
(`LightFollowsFull`, `FullFollowsLight`, `TrustingFollowsFull`), the flag only if
`ValidateBasic` refuses the commit (`ValidatedIsReadable`); a well signed commit
rebuilds (`CommitRebuilds`); `CommitToVoteSet` inverts `MakeCommit`
(`MakeCommitRoundTrips`).  All are for commits of any length and any list of powers.

`VoteSetProofs` turns these into theorems about `VoteSet`: `TypeCorrect`,
`TalliesCorrect`, `VotesCorrect`, `MajorityCorrect`, `CommitsCorrect`,
`LightClientsCorrect`, `RoundTripCorrect`, `NeverPanics`, `MajorityStays`,
`QuorumUnique`, `MemoryIsBounded` and, if nobody claims, `DoneIsReliable`.  The memory
bound has an invariant of its own, `BoundOK`: a step that tracks a block also adds a
canonical vote or a claim.

`CommitVerifyProofs` does the same for `CommitVerify`, where the commit is arbitrary:
`TwoThirdsProved`, `LightProved`, `TrustProved`, `RebuildProved`.  The only thing the
state machine adds is that the commit in hand is a finite list (`InHand`).

`ConcordProofs` proves, if the faulty hold less than a third of the power,
`TypeCorrect` and `CommitsCorrect` for any number of calls, and `AgreementHolds`
for one call per instance.  The invariant `IInv`: vote sets are consistent and
hold only votes that the faulty signed or that a correct instance has cast
(`SetsOK`, `SentOK`); correct instances cast votes for validated data only
(`OwnOK`, `PcOK`); a returned commit verifies and stands for a quorum of
precommits (`ReturnedOK`).  For agreement, `OnceOK` adds that within one call an
instance precommits one block: two commits then have a correct signer in
common, who signed one hash.  With several calls agreement is not expected:
calls of different agreements may decide different data.  `DataMatches`, that the data and
the commit a call returns belong together, needs a correct proposer besides
(`OneProposal`: it publishes one proposal, so everybody validates the same data): the
code compares nothing, and a faulty proposer can send different data to different
instances.

It ends with `ConcordImplementsConsensus`, for one call per instance.
A hash counts as chosen when the precommits on the topic, together with whatever the
faulty may sign, make a quorum for it.  The topic only grows, so what is chosen stays
chosen; two chosen hashes would share a correct instance that precommitted twice; so
every step chooses a first hash, returns the chosen one, or changes nothing of the
abstract state.  The invariant adds to that of agreement that a precommit set holds
nothing that was not on the topic (`HeldSent`) and that who has returned does not call
again (`ReturnedOnce`).

`InstanceProofs` proves `CallKeepsItsRoundHolds` for any number of concurrent calls,
members and messages, and `OwnMessagesTakenHolds`: a call fails on a vote it publishes,
or has to wait with its proposal, only if its round holds a message of that type that
the instance itself has signed before and that a handler has let in.  The invariant:
from `LockAgree` to its end, on every path, a call holds `agreeLk` (`LockOK`); a round
is made only for a set with the instance in it (`MemberOK`); and what a round holds is
either the message its own call has published or one whose handler is done, and a
proposal is the proposer's (`HeldOK`).  The proof does not use `roundMu`: for the calls
themselves `agreeLk` is enough, and `roundMu` matters only to the handlers.

`ProposerSetProofs` is about every width of `int64`, genesis set and list of changes.
`SumOf` is a fold over a set in no particular order, so that its recursion has a
solution, that the order does not matter, and how sums add up, split and map come first,
by `SetInduction`.  `TotalStaysCurrent`, for any number of elections per call, rests on
`NewTotal`: the powers after a change add up to the old total less what is removed and
with what the updates add, which is what `verifyUpdates` has bounded before anything is
applied.  `PrioritiesCentred`, `NothingIsClipped` and `PrioritiesStayClose` hold together
or not at all, with `SetInv` (powers, a centred sum, a distance of at most three totals)
as the inductive invariant: priorities that are centred and three totals apart are at
most three totals from zero; then no election clips and `diff + diffMax - 1` does not
overflow; then scaling and shifting do what they should (`Rescaled`, `Shifted`) and leave
the priorities centred and two totals apart (`Prepared`, `ChangeRanks`, the latter also
with newcomers at -1.125 totals); from there the first election (`OneElection`) and the
second (`TwoElections`) keep them within three.  These theorems, `ProposerSetTyped` and
`ChangesDoRescale` have the hypothesis `MaxTimes <= 2`, two elections per call of
`IncrementProposerPriority`: the one call in the repository holds one.  With the number
of elections the bound that this argument gives grows like a harmonic sum, past three
totals at the third election, so a `Window` for longer calls is not claimed.

`ProtobufProofs` proves `RoundTrip`: for every width of a word and a half, every type and
every message, `Unmarshal` reads back what `Marshal` wrote, and reads all of it.  The
argument goes as the code does.
- *Numbers.*  `pow2`, quotients and remainders; the conversions between the integer types
  (`Int64Back`, `Int32Back`: also a negative `int32` survives its varint of a word);
  `sov` is the number of groups of seven bits, which is where the loop of
  `encodeVarint` ends, so a varint fills just the room made for it and is
  read back (`ReadBack`).
- *Marshal.*  That the keys of `Marshal`, the lengths of `Size` and the field numbers of
  `Unmarshal` belong together is a fact about the fifteen tables (`Tables`, `Keys`,
  `Nesting`), proved table by table.  From it: a field adds to the buffer one item per
  number, byte string or message (`Items`), as many bytes as `Size` counts, so the buffer
  is full when the first field is written (`Coding0` to `Coding2`, one per level;
  `MarshalFillsSize`).
- *Unmarshal.*  Any bytes give a message of the type and an index within the bytes, or an
  error, and never a panic (`UnmarshalTyped`).  This takes that
  indices that wrap are negative, which each of the three checks of the code finds.
  One turn of the loop on an item sets the field to the item (`Item`); after the items of
  the first k fields the message agrees with the one written on these and holds zeros
  elsewhere (`Partial`), whatever follows in the buffer.
- *Beyond.*  A `Message` is also read with unknown fields behind it and behind the message
  in it (`Carried`), a `Message` that is cut off has no vote and no proposal in it
  (`CutMessage`), and canonical messages are known byte by byte as far as it takes to tell
  them apart (`CanonicalVoteBytes`, `CanonicalProposalBytes`).

`SerdeProofs` turns this into the properties of `Serde`, all six of them.  The invariant
`SerdeIInv` says that what was sent has its type, that the bytes are what was written and,
by `how`, extended, cut or changed since, and that what was received is what
reading these bytes gives.
- `SerdeKnownPanics`: from `UnmarshalTyped`, followed through the conversions and `verify`.
- `SerdeUnderstood`: from `RoundTrip` and `Carried`; the conversions invert each other.
- `SerdeTruncationRejected`: a cut message breaks off within the one item it consists of,
  so the turn that would read it fails; of no bytes at all there is a `Message` without a
  case, which `MsgFromProto` refuses.
- `SerdeAcceptedWasSigned`: what `verify` accepts has the sign bytes that were signed,
  so with the next theorem the same statement, whatever happened to the bytes.
- `SerdeSignBytesUnambiguous`: sign bytes begin with their length, so equal ones have equal
  bodies (`DelimitedOnce`).  Two messages of a kind with the same body state the same by
  `RoundTrip`.  A vote and a proposal never have the same body, even if the type of the
  vote is that of a proposal (`CanonicalsDiffer`): behind the type comes the hash or, if
  there is none, the time, under the keys 34 and 42 in a vote, 42 and 50 in a proposal.
  The same next byte would be 42, the time of a vote for nil and the hash of a proposal;
  but a time is empty or begins with the key 8 or 16, and a hash begins with 10.
- `SerdeLeavesUnique`: from `RoundTrip` for `SimpleValidator`.

The assumptions these rest on, besides the widths being whole bytes: the values sent are
of the Go types; a slice has a length that is an `int` (`Fits`), without which no length
could be read back; an unknown field is a field of its own, complete and with a number that
no message uses (`unknownField`); the members of a proposer set have keys of the one
length that ed25519 keys have (`isMember`).  TLC evaluates them in `codec`.

The assumptions of all this: those on the constants, which TLC evaluates in the runs,
and, where a theorem states them, `FaultyBound`, `MaxCalls = 1`,
`Proposer \in Correct` and `MaxTimes <= 2`.  The first three are needed: `concord_stale` shows what a second call does;
with powers 1, 1, 2 and the last faulty, TLC finds two hashes decided; with four
equal proposers of whom the faulty one proposes, it finds a call that returns one
hash's data with another's commit.

Only model-checked:

- liveness (`EveryCallReturns`, `CallsEnd`, `HandlersFinish`, `EveryoneProposes`,
  `RemovedProposerIsReplaced`): fairness and `ENABLED` are out of the prover's reach;
- the properties that do not hold, of the runs that TLC refutes (section 5).

Every invariant and every action property of a run that passes is a theorem.

## 5. Findings

Each is a run that TLC refutes; details and quotations are in `PROJECT.json`.

1. `vote_set.go:186`: a conflicting vote that completes a quorum returns its
   error before `done` is closed.  Needs a peer claim, which nothing in the
   package makes yet.
2. `conciliator.go:165`: a message before the first `AgreeOn` meets a nil round.
3. `round.go:121`: votes carry no height and no round, so a late vote of one
   agreement is counted in the next.  `AgreeOn` does not compare the majority
   with the proposal it validated either (`conciliator.go:135`), so after a late
   quorum the data and the commit it returns may differ.
4. `proposer_set.go:824`: the lowest priority need not be the previous proposer's,
   so a rebuilt set may name another proposer.
5. `proposal.go:42`: the basic validation of a proposal does not look at its data,
   and `CanonicalizeDataHash` panics on data that is neither empty nor of the size of
   a hash, in the handler of every receiver and before the signature is checked.

Five smaller observations without a run of their own.  A canonical vote may have
no entry in `votesByBlock`: a conflicting vote for the majority block replaces the
canonical one at `vote_set.go:234` and is forgotten at line 249, against the header
comment (45-46).  And a newcomer need not have the lowest priority, as the tests of
change sets have it (`proposer_set_test.go:1412`): members keep priorities earned at
a larger total, below the -1.125 times the new total of `proposer_set.go:492`.
After a panic of `AgreeOn` for a caller outside the set (`conciliator.go:109`),
`roundMu` stays locked: a caller that recovers leaves an instance whose handlers and
later calls all wait.  A proposal that the instance signed for an earlier agreement and
that somebody sends again between `newRound` and `Publish` fills `propCh`; `AgreeOn` then
waits in its own `rcvProposal` (`round.go:87-92`), under the context of the pubsub and
not that of its caller, and with `agreeLk` locked.  `CallsEnd` says that there is no
third way for calls never to end.  Last, `VerifyCommit` panics on a signature with an
unknown flag (`commit.go:332`), which `VerifyCommitLight` skips: `ValidateBasic` has to
come first, as it does in `CommitFromProto`.

## 6. Not modelled

The messages `Header`, `Data`, `Part`, `PartSetHeader` of `types.pb.go` and all messages
of `con_types.pb.go` but `Message`: no code of the repository makes or reads them, and
neither `msgs.go`, `round_state.go` nor `peer_round_state.go` is used.  Descriptors,
getters, registration, `String` methods and JSON.  Merkle trees (`Commit.Hash`,
`ProposerSet.Hash`): the leaves are modelled, the tree is tendermint's.  Keys other
than ed25519.  The limit that libp2p puts on concurrent validators.  The overflow check
on the numerator of a trust level.  Data races on a `ProposerSet` shared by instances:
the sets that the constructors return are only read.  A change of the proposer set
between two calls of one agreement: in `Concord` every instance is given one set, as in
the test; `Instance` has a set per call.

## 7. Plan

Done, in this order: `VotingPower`, `VoteSetOps`, `Commit`, `VoteSet` with proofs;
`Concord`, `Consensus` with proofs; `ProposerSet`; `CommitVerify`; `Protobuf`, `Serde`;
`Instance`; liveness merged into the runs that check safety.

Proved since: the refinement of `Consensus`, `DataMatchesCommit`, `CallKeepsItsRound`,
`MemoryBounded`, everything about commits and their verifiers, the safety of
`ProposerSet`, that the generated code reads back what it wrote, and the properties of
`Serde`.  For the last two `Protobuf` was rewritten without recursive operators.

Left open: a bound for longer calls of `IncrementProposerPriority`.  The sums of the k largest
priorities bound each other as those of two do in `TwoElections`, which gives at most
1/2 + 1/3 + ... totals above the largest priority at the start: enough for `NoClipping`
with up to 81 elections per call, though not for `Window`.
