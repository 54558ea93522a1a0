------------------------------ MODULE Concord ------------------------------
(***************************************************************************)
(* Agreement: the concord instances of concord/conciliator.go and the      *)
(* rounds of concord/round.go, one instance per proposer, exchanging       *)
(* proposals and votes over a pubsub topic.                                *)
(*                                                                         *)
(* An instance is two kinds of threads.  AgreeOn is the caller's thread:   *)
(* its steps are the stretches between two points where it waits or        *)
(* publishes.  handle runs in pubsub validator goroutines, one per         *)
(* message.  A handler that has read c.round acts on that round only, and  *)
(* a round replaced by a later AgreeOn is read by nobody, so reading       *)
(* c.round and acting on it is one step.                                   *)
(*                                                                         *)
(* The topic (external): Publish first runs the local validator on the     *)
(* message and returns its error; a published message reaches any other    *)
(* instance after any delay, in any order, or never; a validator sees a    *)
(* message once.  Proposers in Faulty send what they like over their own   *)
(* signature, to whom they like, and may publish again what they received. *)
(*                                                                         *)
(* A proposal's data and its hash are in one to one correspondence and are *)
(* one value here.  Every instance is given the same proposer set.         *)
(***************************************************************************)
EXTENDS Commit

CONSTANTS
    Faulty,     \* the proposers that do not run this code
    FaultyMsgs, \* what they may send
    Proposer,   \* GetProposer of the set
    Valid,      \* the data the validate callback accepts
    Arg,        \* Arg[n]: the data n's caller may pass to AgreeOn (NoBlock: nil)
    MaxCalls,   \* bound: calls of AgreeOn per instance
    MayCancel   \* the instances whose context may expire

Correct == Vals \ Faulty

Proposal == [type : {"proposal"}, data : Blocks, time : Nat, key : Vals]

ASSUME ConcordAssumption ==
    /\ Faulty \subseteq Vals
    /\ Proposer \in Vals
    /\ Valid \subseteq Blocks
    /\ Arg \in [Correct -> SUBSET (Blocks \cup {NoBlock})]
    /\ Proposer \in Correct => Arg[Proposer] \subseteq Blocks
    /\ MaxCalls \in Nat
    /\ MayCancel \subseteq Correct
    (* No forgery: a faulty proposer has its own key only. *)
    /\ FaultyMsgs \subseteq Vote \cup Proposal
    /\ \A m \in FaultyMsgs :
          IF m.type = "proposal" THEN m.key \in Faulty
          ELSE m.sig = NoSig \/ m.sig.key \in Faulty

VARIABLES
    pc,         \* pc[n]: where AgreeOn is; "idle" outside a call
    calls,      \* calls[n]: calls of AgreeOn so far; 0 means c.round is nil
    prop,       \* prop[n]: the argument, then the proposal received
    propCh,     \* propCh[n]: the round's proposal channel, of capacity 1
    votes,      \* votes[n]: the round's vote sets, by vote type
    msgs,       \* the messages published by correct instances
    seen,       \* seen[n]: the messages n's validator has been given
    returned    \* history: what calls of AgreeOn returned without an error

vars == <<pc, calls, prop, propCh, votes, msgs, seen, returned>>

PCs == {"idle", "propose", "await proposal", "prevote", "await prevotes",
        "precommit", "await precommits", "make commit", "crashed"}

NewVotes == [t \in VoteTypes |-> NewVoteSet(t)]

Init ==
    /\ pc = [n \in Correct |-> "idle"]
    /\ calls = [n \in Correct |-> 0]
    /\ prop = [n \in Correct |-> NoBlock]
    /\ propCh = [n \in Correct |-> NoBlock]
    /\ votes = [n \in Correct |-> NewVotes]
    /\ msgs = {}
    /\ seen = [n \in Correct |-> {}]
    /\ returned = {}

-----------------------------------------------------------------------------
(* The caller's thread. *)

(* AgreeOn is called with data d; agreeLk admits one call at a time.  A new
   round replaces the old one, whatever the old one has received. *)
StartAgreeOn(n, d) ==
    /\ pc[n] = "idle"
    /\ calls[n] < MaxCalls
    /\ pc' = [pc EXCEPT ![n] = "propose"]
    /\ calls' = [calls EXCEPT ![n] = @ + 1]
    /\ prop' = [prop EXCEPT ![n] = d]
    /\ propCh' = [propCh EXCEPT ![n] = NoBlock]
    /\ votes' = [votes EXCEPT ![n] = NewVotes]
    /\ UNCHANGED <<msgs, seen, returned>>

(* round.Propose up to its wait, for the proposer: its proposal passes through
   its own handler, which waits for room in propCh, and then to the topic. *)
Propose(n) ==
    LET m == [type |-> "proposal", data |-> prop[n], time |-> calls[n], key |-> n]
    IN  /\ pc[n] = "propose"
        /\ n = Proposer
        /\ propCh[n] = NoBlock
        /\ propCh' = [propCh EXCEPT ![n] = prop[n]]
        /\ msgs' = msgs \cup {m}
        /\ seen' = [seen EXCEPT ![n] = @ \cup {m}]
        /\ pc' = [pc EXCEPT ![n] = "await proposal"]
        /\ UNCHANGED <<calls, prop, votes, returned>>

(* round.Propose up to its wait, for everybody else. *)
SkipPropose(n) ==
    /\ pc[n] = "propose"
    /\ n # Proposer
    /\ pc' = [pc EXCEPT ![n] = "await proposal"]
    /\ UNCHANGED <<calls, prop, propCh, votes, msgs, seen, returned>>

(* Mutant: the validate callback is not consulted. *)
TakeAnyProposal(n) ==
    /\ pc[n] = "await proposal"
    /\ propCh[n] # NoBlock
    /\ prop' = [prop EXCEPT ![n] = propCh[n]]
    /\ propCh' = [propCh EXCEPT ![n] = NoBlock]
    /\ pc' = [pc EXCEPT ![n] = "prevote"]
    /\ UNCHANGED <<calls, votes, msgs, seen, returned>>

(* Mutant: the call goes on with its argument. *)
TakeProposalKeepArg(n) ==
    /\ pc[n] = "await proposal"
    /\ propCh[n] # NoBlock
    /\ propCh' = [propCh EXCEPT ![n] = NoBlock]
    /\ pc' = [pc EXCEPT ![n] = IF prop[n] \in Valid THEN "prevote" ELSE "idle"]
    /\ UNCHANGED <<calls, prop, votes, msgs, seen, returned>>

(* round.Propose returns the proposal, and the validate callback accepts it or
   ends the call with an error. *)
TakeProposal(n) ==
    /\ pc[n] = "await proposal"
    /\ propCh[n] # NoBlock
    /\ prop' = [prop EXCEPT ![n] = propCh[n]]
    /\ propCh' = [propCh EXCEPT ![n] = NoBlock]
    /\ pc' = [pc EXCEPT ![n] = IF propCh[n] \in Valid THEN "prevote" ELSE "idle"]
    /\ UNCHANGED <<calls, votes, msgs, seen, returned>>

(* The vote n signs for the hash of its proposal. *)
ownVote(n, type) ==
    [type |-> type, block |-> prop[n], time |-> calls[n], addr |-> n, index |-> n,
     sig |-> Sign(n, type, prop[n], calls[n])]

(* round.vote: the vote passes through n's own handler, whose error ends the
   call, and then to the topic. *)
CastVote(n, type, next) ==
    LET v == ownVote(n, type)
        r == AddVote(votes[n][type], v)
    IN  /\ votes' = [votes EXCEPT ![n] = [@ EXCEPT ![type] = r.vs]]
        /\ seen' = [seen EXCEPT ![n] = @ \cup {v}]
        /\ msgs' = IF r.err = "ok" THEN msgs \cup {v} ELSE msgs
        /\ pc' = [pc EXCEPT ![n] = IF r.err = "ok" THEN next ELSE "idle"]
        /\ UNCHANGED <<calls, prop, propCh, returned>>

Prevote(n) == pc[n] = "prevote" /\ CastVote(n, "prevote", "await prevotes")

Precommit(n) == pc[n] = "precommit" /\ CastVote(n, "precommit", "await precommits")

(* round.Vote returns once the set's done channel is closed, whatever block
   the majority is for. *)
AwaitVotes(n, type, from, to) ==
    /\ pc[n] = from
    /\ votes[n][type].done
    /\ pc' = [pc EXCEPT ![n] = to]
    /\ UNCHANGED <<calls, prop, propCh, votes, msgs, seen, returned>>

AwaitPrevotes(n) == AwaitVotes(n, "prevote", "await prevotes", "precommit")

AwaitPrecommits(n) == AwaitVotes(n, "precommit", "await precommits", "make commit")

(* AgreeOn returns: the commit is made of the votes held by now. *)
ReturnCommit(n) ==
    /\ pc[n] = "make commit"
    /\ pc' = [pc EXCEPT ![n] = "idle"]
    /\ returned' = returned \cup {[node |-> n, call |-> calls[n], data |-> prop[n],
                                   commit |-> MakeCommit(votes[n]["precommit"])]}
    /\ UNCHANGED <<calls, prop, propCh, votes, msgs, seen>>

(* The context ends a wait, and with it the call.  Publishing does not look at
   the context. *)
Cancel(n) ==
    /\ n \in MayCancel
    /\ pc[n] \in {"await proposal", "await prevotes", "await precommits"}
    /\ pc' = [pc EXCEPT ![n] = "idle"]
    /\ UNCHANGED <<calls, prop, propCh, votes, msgs, seen, returned>>

-----------------------------------------------------------------------------
(* The handlers. *)

(* What the topic may give n's validator now. *)
Deliverable(n) ==
    (msgs \ seen[n]) \cup (IF Faulty = {} THEN {} ELSE msgs \cup FaultyMsgs)

(* Mutant: the channel carries the message instead of its data. *)
RcvProposalMessage(n, m) ==
    /\ IF m.key = Proposer
       THEN propCh[n] = NoBlock /\ propCh' = [propCh EXCEPT ![n] = m]
       ELSE UNCHANGED propCh
    /\ UNCHANGED votes

(* round.rcvProposal: the signature must be the proposer's; the send blocks
   while the channel is full, so the handler's step is the moment it finds
   room.  A proposal with no room yet is one the topic has not delivered. *)
RcvProposal(n, m) ==
    /\ IF m.key = Proposer
       THEN propCh[n] = NoBlock /\ propCh' = [propCh EXCEPT ![n] = m.data]
       ELSE UNCHANGED propCh
    /\ UNCHANGED votes

(* round.rcvVote *)
RcvVote(n, v) ==
    /\ votes' = [votes EXCEPT ![n] =
                    [@ EXCEPT ![v.type] = AddVote(votes[n][v.type], v).vs]]
    /\ UNCHANGED propCh

(* The topic does not give a validator the same message twice; a faulty
   proposer can publish what it likes again. *)
MarkSeen(n, m) == seen' = [seen EXCEPT ![n] = @ \cup ({m} \cap msgs)]

(* concord.handle, with a round to act on: the current one, or the one of the
   last call. *)
Handle(n, m) ==
    /\ pc[n] # "crashed"
    /\ calls[n] > 0
    /\ IF m.type = "proposal" THEN RcvProposal(n, m) ELSE RcvVote(n, m)
    /\ MarkSeen(n, m)
    /\ UNCHANGED <<pc, calls, prop, msgs, returned>>

(* concord.handle before the first AgreeOn: c.round is nil and the handler
   dereferences it, which ends the process. *)
HandleWithoutRound(n, m) ==
    /\ pc[n] # "crashed"
    /\ calls[n] = 0
    /\ pc' = [pc EXCEPT ![n] = "crashed"]
    /\ MarkSeen(n, m)
    /\ UNCHANGED <<calls, prop, propCh, votes, msgs, returned>>

-----------------------------------------------------------------------------
Start(n) == \E d \in Arg[n] : StartAgreeOn(n, d)

Step(n) ==
    \/ Propose(n) \/ SkipPropose(n) \/ TakeProposal(n)
    \/ Prevote(n) \/ AwaitPrevotes(n)
    \/ Precommit(n) \/ AwaitPrecommits(n) \/ ReturnCommit(n)

Next ==
    \E n \in Correct :
        \/ Start(n)
        \/ Step(n)
        \/ Cancel(n)
        \/ \E m \in Deliverable(n) : Handle(n, m) \/ HandleWithoutRound(n, m)

Spec == Init /\ [][Next]_vars

(* Every correct instance has entered AgreeOn before anybody publishes. *)
ReadyInit ==
    /\ pc = [n \in Correct |-> "propose"]
    /\ calls = [n \in Correct |-> 1]
    /\ prop \in [Correct -> Blocks \cup {NoBlock}]
    /\ \A n \in Correct : prop[n] \in Arg[n]
    /\ propCh = [n \in Correct |-> NoBlock]
    /\ votes = [n \in Correct |-> NewVotes]
    /\ msgs = {}
    /\ seen = [n \in Correct |-> {}]
    /\ returned = {}

ReadySpec == ReadyInit /\ [][Next]_vars

(* Every caller calls, its thread is scheduled, and the topic delivers what
   correct instances publish to correct instances that have a round. *)
HandlePublished(n) == \E m \in msgs \ seen[n] : Handle(n, m)

Fairness ==
    \A n \in Correct :
        WF_vars(Start(n)) /\ WF_vars(Step(n)) /\ WF_vars(HandlePublished(n))

LiveSpec == Spec /\ Fairness

-----------------------------------------------------------------------------
(* Properties. *)

(* Type correctness. *)
TypeOK ==
    /\ pc \in [Correct -> PCs]
    /\ calls \in [Correct -> 0 .. MaxCalls]
    /\ prop \in [Correct -> Blocks \cup {NoBlock}]
    /\ propCh \in [Correct -> Blocks \cup {NoBlock}]
    /\ votes \in [Correct -> [VoteTypes -> VoteSetType]]
    /\ msgs \subseteq Vote \cup Proposal
    /\ seen \in [Correct -> SUBSET (Vote \cup Proposal)]
    /\ \A r \in returned : r.node \in Correct /\ r.call \in Nat /\ r.data \in Blocks

(* Agreement: two calls of AgreeOn never return commits for two hashes, while
   the faulty hold less than a third of the power: Faulty may equivocate, and
   withhold or repeat messages. *)
Agreement == \A r, s \in returned : r.commit.hash = s.commit.hash

(* What AgreeOn returns can be handed to VerifyCommit by anybody, and a hash
   gets a commit only if the validate callback of a correct instance accepted
   it. *)
CommitsAreGood ==
    \A r \in returned :
        /\ ValidateBasic(r.commit) = "ok"
        /\ VerifyCommit(r.commit.hash, r.commit) = "ok"
        /\ r.commit.hash \in Valid

(* The data and the commit that one call returns belong together: the commit
   verifies against that data, as Test_AgreeOn requires. *)
DataMatchesCommit ==
    \A r \in returned : VerifyCommit(r.data, r.commit) = "ok"

(* No instance is brought down by a message. *)
NoCrash == \A n \in Correct : pc[n] # "crashed"

(* A returned commit counts only votes cast in the same agreement: the n-th
   calls of all instances are one agreement. *)
CommitsAreCurrent ==
    \A r \in returned : \A i \in Correct :
        ~ Absent(r.commit.sigs[i]) => r.commit.sigs[i].time = r.call

(* Every call ends, however late it is made and in whatever order messages
   arrive: it returns a commit, or its validate callback refused the proposal.
   Nobody waits for a proposal or a quorum forever, unless a message has
   brought an instance down before its first call. *)
EveryCallReturns ==
    []NoCrash => \A n \in Correct :
        <>(\/ \E r \in returned : r.node = n
           \/ pc[n] = "idle" /\ prop[n] \in Blocks \ Valid)

(* The blocks for which a quorum of precommits has been or can yet be shown:
   the faulty sign whatever is needed. *)
ChosenBlocks ==
    {k \in Keys :
        PowerOf({i \in Vals : \/ i \in Faulty
                              \/ \E m \in msgs : /\ m.type = "precommit"
                                                 /\ m.index = i
                                                 /\ m.block = k}) >= Quorum}

Abstract == INSTANCE Consensus WITH
    Node    <- Correct,
    Value   <- Valid,
    chosen  <- ChosenBlocks,
    decided <- [n \in Correct |-> {r.commit.hash : r \in {x \in returned : x.node = n}}]

(* One agreement of the instances implements Consensus: a value is chosen once
   and for all when a quorum of precommits for it exists, long before anybody
   knows, and whoever returns decides that value. *)
ImplementsConsensus == Abstract!Spec
=============================================================================
