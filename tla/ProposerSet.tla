---------------------------- MODULE ProposerSet ----------------------------
(***************************************************************************)
(* Proposer selection and membership: ProposerSet of                       *)
(* concord/proposer_set.go, with IncrementProposerPriority,                *)
(* UpdateWithChangeSet and ValidatorSetFromExistingValidators.             *)
(*                                                                         *)
(* A proposer is named by its address, a number, in byte order.  Each      *)
(* operation leaves the slice sorted by power and address, and none        *)
(* depends on the order, so the set is two functions of the address.       *)
(* Arithmetic is that of int64, scaled down: MaxInt64 is a parameter.      *)
(***************************************************************************)
EXTENDS Integers, Sequences, FiniteSetsExt

CONSTANTS
    MaxInt64,       \* the largest int64
    Addresses,      \* the addresses proposers may have
    Genesis,        \* what NewValidatorSet may be called with
    ChangeSets,     \* what UpdateWithChangeSet may be called with
    MaxTimes        \* bound: elections per IncrementProposerPriority

(* A change names a proposer and its new power; power 0 removes it. *)
Change == [addr : Addresses, power : Int]

MinInt64 == -MaxInt64 - 1

(* Mutant: no room is left for priorities. *)
HalfOfMaxInt64 == MaxInt64 \div 2

MaxTotalVotingPower == MaxInt64 \div 8
PriorityWindowSizeFactor == 2

ASSUME SetAssumption ==
    /\ MaxInt64 \in Nat /\ MaxInt64 > 8
    /\ Addresses \subseteq Nat
    /\ MaxTimes \in Nat
    /\ Genesis \cup ChangeSets \subseteq Seq(Change)

-----------------------------------------------------------------------------
(* int64 *)

Int64 == MinInt64 .. MaxInt64

wrap(x) == ((x - MinInt64) % (2 * (MaxInt64 + 1))) + MinInt64

(* safeAddClip and safeSubClip. *)
clip(x) == IF x > MaxInt64 THEN MaxInt64 ELSE IF x < MinInt64 THEN MinInt64 ELSE x

(* Division of Go truncates; b is positive. *)
quo(a, b) == IF a >= 0 THEN a \div b ELSE -((-a) \div b)

SumOf(f) == MapThenSumSet(LAMBDA x : f[x], DOMAIN f)

RangeOf(f) == {f[x] : x \in DOMAIN f}

-----------------------------------------------------------------------------
(* Priorities: operators on the function from members to priorities. *)

Members(vals) == DOMAIN vals.power

computeMaxMinPriorityDiff(prio) ==
    LET diff == wrap(Max(RangeOf(prio)) - Min(RangeOf(prio)))
    IN  IF diff < 0 THEN wrap(-diff) ELSE diff

(* Mutant: priorities are never rescaled. *)
RescaleNothing(prio, diffMax) == prio

(* Mutant: the ratio is rounded down. *)
RescaleRoundedDown(prio, diffMax) ==
    LET diff  == computeMaxMinPriorityDiff(prio)
        ratio == quo(diff, diffMax)
    IN  IF diffMax <= 0 \/ diff <= diffMax THEN prio
        ELSE [a \in DOMAIN prio |-> quo(prio[a], ratio)]

RescalePriorities(prio, diffMax) ==
    LET diff  == computeMaxMinPriorityDiff(prio)
        ratio == quo(wrap(diff + diffMax - 1), diffMax)
    IN  IF diffMax <= 0 \/ diff <= diffMax THEN prio
        ELSE [a \in DOMAIN prio |-> quo(prio[a], ratio)]

(* big.Int's Div rounds towards minus infinity here, as \div does. *)
computeAvgProposerPriority(prio) == SumOf(prio) \div Cardinality(DOMAIN prio)

shiftByAvgProposerPriority(prio) ==
    [a \in DOMAIN prio |-> clip(prio[a] - computeAvgProposerPriority(prio))]

(* Proposer.CompareProposerPriority: a is preferred to b. *)
precedes(prio, a, b) == prio[a] > prio[b] \/ (prio[a] = prio[b] /\ a <= b)

getValWithMostPriority(prio) ==
    CHOOSE a \in DOMAIN prio : \A b \in DOMAIN prio : precedes(prio, a, b)

(* Mutant: the winner pays its own power. *)
incrementPayingPower(vals) ==
    LET raised  == [a \in Members(vals) |-> clip(vals.prio[a] + vals.power[a])]
        mostest == getValWithMostPriority(raised)
    IN  [vals EXCEPT
            !.prio     = [raised EXCEPT ![mostest] = clip(@ - vals.power[mostest])],
            !.Proposer = mostest]

(* Mutant: the winner pays nothing. *)
incrementPayingNothing(vals) ==
    LET raised == [a \in Members(vals) |-> clip(vals.prio[a] + vals.power[a])]
    IN  [vals EXCEPT !.prio = raised, !.Proposer = getValWithMostPriority(raised)]

(* One election: everybody gains its power, the winner pays the total. *)
incrementProposerPriority(vals) ==
    LET raised  == [a \in Members(vals) |-> clip(vals.prio[a] + vals.power[a])]
        mostest == getValWithMostPriority(raised)
    IN  [vals EXCEPT
            !.prio     = [raised EXCEPT ![mostest] = clip(@ - vals.totalVotingPower)],
            !.Proposer = mostest]

(* The loop of IncrementProposerPriority: the set after i elections. *)
elections(vals, times) ==
    LET after[i \in 0 .. times] ==
            IF i = 0 THEN vals ELSE incrementProposerPriority(after[i - 1])
    IN  after

(* The priorities are scaled and centred before the first of them. *)
prepared(vals) ==
    LET window == PriorityWindowSizeFactor * vals.totalVotingPower
    IN  [vals EXCEPT !.prio = shiftByAvgProposerPriority(RescalePriorities(@, window))]

(* Mutant: with one member there is nothing to elect. *)
IncrementOfSeveral(vals, times) ==
    IF Cardinality(Members(vals)) = 1 THEN vals
    ELSE elections(prepared(vals), times)[times]

(* IncrementProposerPriority; only the last winner becomes the proposer. *)
IncrementProposerPriority(vals, times) == elections(prepared(vals), times)[times]

(* The last in the order of getValWithMostPriority. *)
findPreviousProposer(prio) ==
    CHOOSE a \in DOMAIN prio : \A b \in DOMAIN prio : precedes(prio, b, a)

-----------------------------------------------------------------------------
(* Membership. *)

updates(ch) == {c \in RangeOf(ch) : c.power > 0}
deletes(ch) == {c \in RangeOf(ch) : c.power = 0}
addrs(C) == {c.addr : c \in C}

(* processChanges finds no fault with the changes as such. *)
processChanges(ch) ==
    /\ \A i, j \in DOMAIN ch : i # j => ch[i].addr # ch[j].addr
    /\ \A i \in DOMAIN ch : ch[i].power \in 0 .. MaxTotalVotingPower

leavesEmpty(vals, ch) ==
    /\ addrs(updates(ch)) \subseteq Members(vals)
    /\ Cardinality(Members(vals)) = Cardinality(deletes(ch))

verifyRemovals(vals, ch) == addrs(deletes(ch)) \subseteq Members(vals)

removedPower(vals, ch) == SumOf([c \in deletes(ch) |-> vals.power[c.addr]])

delta(vals, c) ==
    IF c.addr \in Members(vals) THEN c.power - vals.power[c.addr] ELSE c.power

deltas(vals, C) == SumOf([c \in C |-> delta(vals, c)])

(* verifyUpdates applies the updates in the order of their deltas, and gives
   up when a prefix of them exceeds the maximum. *)
verifyUpdates(vals, ch) ==
    \A C \in (SUBSET updates(ch)) \ {{}} :
        (\A c \in C, d \in updates(ch) \ C : delta(vals, c) <= delta(vals, d)) =>
            vals.totalVotingPower - removedPower(vals, ch) + deltas(vals, C)
                <= MaxTotalVotingPower

tvpAfterUpdatesBeforeRemovals(vals, ch) ==
    vals.totalVotingPower + deltas(vals, updates(ch))

(* computeNewPriorities: a newcomer starts at -1.125 times the total. *)
newPriority(vals, ch, a) ==
    LET t == tvpAfterUpdatesBeforeRemovals(vals, ch)
    IN  IF a \in Members(vals) THEN vals.prio[a] ELSE -(t + t \div 8)

newPower(vals, ch, a) ==
    IF a \in addrs(updates(ch))
    THEN (CHOOSE c \in updates(ch) : c.addr = a).power
    ELSE vals.power[a]

(* Mutant: the cached total is not updated. *)
applyChangesStaleTotal(vals, ch) ==
    LET members == (Members(vals) \cup addrs(updates(ch))) \ addrs(deletes(ch))
        power   == [a \in members |-> newPower(vals, ch, a)]
        prio    == [a \in members |-> newPriority(vals, ch, a)]
    IN  [vals EXCEPT !.power = power,
                     !.prio = shiftByAvgProposerPriority(
                                  RescalePriorities(prio, 2 * vals.totalVotingPower))]

(* applyUpdates, applyRemovals, updateTotalVotingPower, then scale and centre.
   The proposer is not touched. *)
applyChanges(vals, ch) ==
    LET members == (Members(vals) \cup addrs(updates(ch))) \ addrs(deletes(ch))
        power   == [a \in members |-> newPower(vals, ch, a)]
        prio    == [a \in members |-> newPriority(vals, ch, a)]
        total   == SumOf(power)
        scaled  == RescalePriorities(prio, PriorityWindowSizeFactor * total)
    IN  [vals EXCEPT !.power = power,
                     !.prio = shiftByAvgProposerPriority(scaled),
                     !.totalVotingPower = total]

(* updateWithChangeSet goes through; in any other case it returns an error and
   has changed nothing. *)
accepts(vals, ch, allowDeletes) ==
    /\ processChanges(ch)
    /\ allowDeletes \/ deletes(ch) = {}
    /\ ~ leavesEmpty(vals, ch)
    /\ verifyRemovals(vals, ch)
    /\ verifyUpdates(vals, ch)

updateWithChangeSet(vals, ch, allowDeletes) ==
    IF Len(ch) > 0 /\ accepts(vals, ch, allowDeletes)
    THEN applyChanges(vals, ch)
    ELSE vals

EmptySet == [power |-> [a \in {} |-> 0], prio |-> [a \in {} |-> 0],
             Proposer |-> -1, totalVotingPower |-> 0]

(* Mutant: no election is held. *)
NewValidatorSetUnelected(ch) == updateWithChangeSet(EmptySet, ch, FALSE)

(* NewValidatorSet of a list it does not panic on. *)
NewValidatorSet(ch) ==
    IncrementProposerPriority(updateWithChangeSet(EmptySet, ch, FALSE), 1)

-----------------------------------------------------------------------------
VARIABLE vals       \* the proposer set

Init ==
    \E ch \in Genesis :
        /\ Len(ch) > 0
        /\ accepts(EmptySet, ch, FALSE)
        /\ vals = NewValidatorSet(ch)

Increment(times) == vals' = IncrementProposerPriority(vals, times)

UpdateWithChangeSet(ch) == vals' = updateWithChangeSet(vals, ch, TRUE)

(* ValidatorSetFromExistingValidators of the set's own list: the list says
   nothing about the proposer. *)
FromExistingValidators ==
    vals' = [vals EXCEPT !.Proposer         = findPreviousProposer(vals.prio),
                         !.totalVotingPower = SumOf(vals.power)]

Next ==
    \/ \E times \in 1 .. MaxTimes : Increment(times)
    \/ \E ch \in ChangeSets : UpdateWithChangeSet(ch)
    \/ FromExistingValidators

Spec == Init /\ [][Next]_vals

(* The caller holds elections again and again; nothing in the repository
   holds them by itself.  This is WF_vals(Increment(1)) written out: an
   election that changes nothing is not enabled. *)
WeaklyFairElections ==
    \/ []<>(vals = IncrementProposerPriority(vals, 1))
    \/ []<><<Increment(1)>>_vals

FairSpec == Spec /\ WeaklyFairElections

-----------------------------------------------------------------------------
(* Properties. *)

(* Type correctness. *)
TypeOK ==
    /\ Members(vals) \subseteq Addresses /\ Members(vals) # {}
    /\ vals.power \in [Members(vals) -> 1 .. MaxTotalVotingPower]
    /\ vals.prio \in [Members(vals) -> Int64]
    /\ vals.Proposer \in Addresses

(* The cached total is the sum of the powers and stays within the bound that
   the arithmetic of priorities and of quorums relies on: updateTotalVotingPower
   never panics. *)
TotalIsCurrent ==
    /\ vals.totalVotingPower = SumOf(vals.power)
    /\ vals.totalVotingPower <= MaxTotalVotingPower

(* Priorities are centred around zero, through elections and changes of the
   set: an election hands out what it takes.  A clipped addition breaks this. *)
Centred == SumOf(vals.prio) \in 0 .. Cardinality(Members(vals)) - 1

(* The comment on MaxTotalVotingPower: neither does an election clip, nor does
   diff + diffMax - 1 overflow. *)
NoClipping ==
    /\ \A a \in Members(vals) :
          /\ vals.prio[a] + vals.power[a] <= MaxInt64
          /\ vals.prio[a] - vals.totalVotingPower >= MinInt64
    /\ Max(RangeOf(vals.prio)) - Min(RangeOf(vals.prio))
         + PriorityWindowSizeFactor * vals.totalVotingPower - 1 <= MaxInt64

(* How far apart the priorities are. *)
Distance(prio) == Max(RangeOf(prio)) - Min(RangeOf(prio))

(* Elections do not spread the priorities: nobody is ever more than three
   times the total away from its turn, however the set has changed before. *)
Window == Distance(vals.prio) <= 3 * vals.totalVotingPower

(* verifyValidatorSet, "verify that priorities are scaled": a change of the set
   leaves the priorities within twice the new total. *)
ChangesRescale ==
    [][vals'.power # vals.power =>
          Distance(vals'.prio) <= PriorityWindowSizeFactor * vals'.totalVotingPower]_vals

(* The set is left alone but for one election a round. *)
Elections == [][vals'.power = vals.power /\ Increment(1)]_vals

(* Nobody starves: once the set is left alone but for its elections, whoever is
   in it is its proposer again and again, newcomers and those whose power a
   change cut down included, from whatever priorities the history of elections
   and changes has left. *)
EveryoneProposes ==
    \A a \in Addresses :
        <>Elections => []<>(a \in Members(vals) => vals.Proposer = a)

(* Rounds take proposals from vals.Proposer, member or not.  A change can
   remove the member it names; the removed proposer does not outlast the
   elections, also when a single member is left. *)
RemovedProposerIsReplaced ==
    vals.Proposer \notin Members(vals) ~> vals.Proposer \in Members(vals)

(* The comment on ValidatorSetFromExistingValidators, "rebuilds the exact same
   validator set that corresponds to it": the proposer that findPreviousProposer
   derives from the priorities is the set's proposer. *)
RebuildsSameSet == findPreviousProposer(vals.prio) = vals.Proposer
=============================================================================
