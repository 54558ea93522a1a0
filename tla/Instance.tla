------------------------------ MODULE Instance ------------------------------
(***************************************************************************)
(* One concord instance of concord/conciliator.go, lock by lock.  Concord  *)
(* takes for granted that one call of AgreeOn runs at a time, that what a  *)
(* call publishes passes through its own round, and that handlers finish;  *)
(* this module says why.                                                   *)
(*                                                                         *)
(* Calls of AgreeOn, each in a goroutine of its caller's, contend for      *)
(* agreeLk.  c.round is written under roundMu and read by handlers under   *)
(* roundMu, but AgreeOn itself reads it three times without a lock.  A     *)
(* handler acts on the round it has read, which a later call may have      *)
(* replaced by then.  A round is named by the call that made it.           *)
(*                                                                         *)
(* The topic (external): Publish runs the local validator, concord.handle, *)
(* in the goroutine of the caller and under the context of the pubsub;     *)
(* messages that arrive are handled in goroutines of their own, when they  *)
(* arrive, if they arrive.  A message is handled once.                     *)
(*                                                                         *)
(* No height and no round is signed, so what arrives may be a message the  *)
(* instance itself signed for an earlier agreement, sent again by anyone   *)
(* who has it.  (What a call of this module has published may come back    *)
(* too: to a later round it is one of those, and in its own round a second *)
(* proposal acts like one and a second copy of a vote does nothing.)       *)
(***************************************************************************)
EXTENDS FiniteSets, Integers

CONSTANTS
    Calls,      \* the calls of AgreeOn
    Self,       \* this instance's proposer
    Others,     \* the other proposers
    PropSet,    \* PropSet[c]: what c passes to AgreeOn: members and proposer
    Prop,       \* Prop[c]: the data c passes to AgreeOn
    Messages,   \* what the topic may bring
    None        \* no set, no round, nobody holds the lock

VoteTypes == {"prevote", "precommit"}
Types == VoteTypes \cup {"proposal"}

Proposers == Others \cup {Self}

ASSUME InstanceAssumption ==
    /\ Self \notin Others
    /\ None \notin Calls
    /\ IsFiniteSet(Proposers)
    /\ \A c \in Calls :
          PropSet[c] # None =>
              /\ PropSet[c].members \subseteq Proposers
              /\ PropSet[c].proposer \in PropSet[c].members
    /\ \A m \in Messages :
          /\ m.type \in Types /\ m.from \in Proposers
          /\ m = [type |-> m.type, from |-> m.from, block |-> m.block, id |-> m.id]
          /\ m.from = Self => m.id \notin Calls

VARIABLES
    pc,         \* pc[c]: where the call is
    what,       \* what[c]: what the round's method is about
    prop,       \* prop[c]: the data c is about; the hash of it stands for it
    agreeLk,    \* the call that holds agreeLk
    roundMu,    \* the call that holds roundMu; handlers hold it for one step
    round,      \* c.round
    on,         \* on[c]: the receiver of the method of round that c is in
    own,        \* own[c]: the round that c's own handler has read
    propCh,     \* propCh[r]: the proposal in r's channel of capacity 1, or None
    votes,      \* votes[r][t]: the votes of type t the round holds, one a member
    handler,    \* handler[m]: where the handler of m is
    read,       \* read[m]: the round that it has read
    crashed     \* a handler has dereferenced a nil round

locks == <<agreeLk, roundMu>>
remote == <<handler, read>>
rcvd == <<propCh, votes>>
vars == <<pc, what, prop, locks, round, on, own, rcvd, remote, crashed>>

(* The stretches of round.Propose and round.Vote. *)
Stretches == {"enter", "publish", "handle", "wait"}

Ended == {"returned", "failed", "panicked"}

Init ==
    /\ pc = [c \in Calls |-> "outside"]
    /\ what = [c \in Calls |-> "proposal"]
    /\ prop = [c \in Calls |-> Prop[c]]
    /\ agreeLk = None
    /\ roundMu = None
    /\ round = None
    /\ on = [c \in Calls |-> None]
    /\ own = [c \in Calls |-> None]
    /\ propCh = [r \in Calls |-> None]
    /\ votes = [r \in Calls |-> [t \in VoteTypes |-> {}]]
    /\ handler = [m \in Messages |-> "none"]
    /\ read = [m \in Messages |-> None]
    /\ crashed = FALSE

-----------------------------------------------------------------------------
(* A round. *)

(* VoteSet.Done: those that voted for one block hold more than two thirds. *)
Done(r, t) ==
    \E v \in votes[r][t] :
        3 * Cardinality({w \in votes[r][t] : w.block = v.block})
            > 2 * Cardinality(PropSet[r].members)

(* rcvProposal refuses what the proposer of the round has not signed.  AddVote
   refuses a vote from outside the set, and one of a member whose vote it holds:
   as a conflicting vote, which is not kept, since nobody claims a majority, or
   as one with another signature for the same block. *)
Refused(r, m) ==
    IF m.type = "proposal" THEN m.from # PropSet[r].proposer
    ELSE \/ m.from \notin PropSet[r].members
         \/ \E v \in votes[r][m.type] : v.from = m.from /\ v # m

(* rcvProposal sends, and waits for room: nothing but the end of the pubsub
   would end the wait. *)
rcvProposal(r, m) ==
    /\ propCh[r] = None
    /\ propCh' = [propCh EXCEPT ![r] = m]
    /\ UNCHANGED votes

rcvVote(r, m) ==
    /\ votes' = [votes EXCEPT ![r][m.type] = @ \cup {m}]
    /\ UNCHANGED propCh

(* The last part of concord.handle; a message that is Refused is an error. *)
rcv(r, m) ==
    IF Refused(r, m) THEN UNCHANGED rcvd
    ELSE IF m.type = "proposal" THEN rcvProposal(r, m)
    ELSE rcvVote(r, m)

-----------------------------------------------------------------------------
(* AgreeOn. *)

Goto(c, where) == pc' = [pc EXCEPT ![c] = where]

(* A call without a set fails before it takes a lock. *)
AgreeOn(c) ==
    /\ pc[c] = "outside"
    /\ Goto(c, IF PropSet[c] = None THEN "failed" ELSE "agreeLk")
    /\ UNCHANGED <<what, prop, locks, round, on, own, rcvd, remote, crashed>>

(* Mutant: calls are not kept apart. *)
LockAgreeShared(c) ==
    /\ pc[c] = "agreeLk"
    /\ agreeLk' = c
    /\ Goto(c, "roundMu")
    /\ UNCHANGED <<what, prop, roundMu, round, on, own, rcvd, remote, crashed>>

LockAgree(c) ==
    /\ pc[c] = "agreeLk"
    /\ agreeLk = None
    /\ agreeLk' = c
    /\ Goto(c, "roundMu")
    /\ UNCHANGED <<what, prop, roundMu, round, on, own, rcvd, remote, crashed>>

LockRound(c) ==
    /\ pc[c] = "roundMu"
    /\ roundMu = None
    /\ roundMu' = c
    /\ Goto(c, "lookup")
    /\ UNCHANGED <<what, prop, agreeLk, round, on, own, rcvd, remote, crashed>>

(* The instance is not in the set: agreeLk is released by the deferred call,
   roundMu stays locked.  The caller recovers. *)
Panic(c) ==
    /\ pc[c] = "lookup"
    /\ Self \notin PropSet[c].members
    /\ Goto(c, "panicked")
    /\ agreeLk' = None
    /\ UNCHANGED <<what, prop, roundMu, round, on, own, rcvd, remote, crashed>>

NewRound(c) ==
    /\ pc[c] = "lookup"
    /\ Self \in PropSet[c].members
    /\ round' = c
    /\ roundMu' = None
    /\ Goto(c, "enter")
    /\ UNCHANGED <<what, prop, agreeLk, on, own, rcvd, remote, crashed>>

(* AgreeOn calls c.round.Propose or c.round.Vote; c.round is read unlocked.
   Only the proposer of the round has a proposal to publish. *)
Enter(c) ==
    /\ pc[c] = "enter"
    /\ on' = [on EXCEPT ![c] = round]
    /\ Goto(c, IF what[c] = "proposal" /\ PropSet[round].proposer # Self
               THEN "wait" ELSE "publish")
    /\ UNCHANGED <<what, prop, locks, round, own, rcvd, remote, crashed>>

(* Publish runs concord.handle, which reads c.round under the lock. *)
Publish(c) ==
    /\ pc[c] = "publish"
    /\ roundMu = None
    /\ own' = [own EXCEPT ![c] = round]
    /\ Goto(c, "handle")
    /\ UNCHANGED <<what, prop, locks, round, on, rcvd, remote, crashed>>

(* The call ends, and with it its hold on agreeLk. *)
End(c, how) == Goto(c, how) /\ agreeLk' = None

(* What c publishes. *)
OwnMessage(c) == [type |-> what[c], from |-> Self, block |-> prop[c], id |-> c]

(* The handler acts on what it has read; an error of its is Publish's. *)
HandleOwn(c) ==
    LET m == OwnMessage(c)
    IN  /\ pc[c] = "handle"
        /\ rcv(own[c], m)
        /\ IF Refused(own[c], m) THEN End(c, "failed")
           ELSE Goto(c, "wait") /\ UNCHANGED agreeLk
        /\ UNCHANGED <<what, prop, roundMu, round, on, own, remote, crashed>>

(* The next method of the round. *)
GoOn(c, next) == Goto(c, "enter") /\ what' = [what EXCEPT ![c] = next]

(* The call is about the proposal from here on: the validate callback accepts
   it, and gives its hash, or ends the call. *)
TakeProposal(c) ==
    /\ pc[c] = "wait" /\ what[c] = "proposal"
    /\ propCh[on[c]] # None
    /\ prop' = [prop EXCEPT ![c] = propCh[on[c]].block]
    /\ propCh' = [propCh EXCEPT ![on[c]] = None]
    /\ \/ GoOn(c, "prevote") /\ UNCHANGED agreeLk
       \/ End(c, "failed") /\ UNCHANGED what
    /\ UNCHANGED <<roundMu, round, on, own, votes, remote, crashed>>

TakePrevotes(c) ==
    /\ pc[c] = "wait" /\ what[c] = "prevote"
    /\ Done(on[c], "prevote")
    /\ GoOn(c, "precommit")
    /\ UNCHANGED <<prop, locks, round, on, own, rcvd, remote, crashed>>

TakePrecommits(c) ==
    /\ pc[c] = "wait" /\ what[c] = "precommit"
    /\ Done(on[c], "precommit")
    /\ End(c, "returned")
    /\ UNCHANGED <<what, prop, roundMu, round, on, own, rcvd, remote, crashed>>

(* Mutant: the call is abandoned without its deferred calls. *)
CancelKeepingLock(c) ==
    /\ pc[c] = "wait"
    /\ Goto(c, "failed")
    /\ UNCHANGED <<what, prop, locks, round, on, own, rcvd, remote, crashed>>

(* The context ends a wait, at any moment; locks and Publish do not look at
   it. *)
Cancel(c) ==
    /\ pc[c] = "wait"
    /\ End(c, "failed")
    /\ UNCHANGED <<what, prop, roundMu, round, on, own, rcvd, remote, crashed>>

-----------------------------------------------------------------------------
(* The handlers of messages that arrive. *)

(* The topic starts a handler, which decodes and validates the message. *)
Deliver(m) ==
    /\ handler[m] = "none"
    /\ handler' = [handler EXCEPT ![m] = "lock"]
    /\ UNCHANGED <<pc, what, prop, locks, round, on, own, rcvd, read, crashed>>

(* Mutant: the handler keeps the lock while it acts, and then forgets it. *)
ReadRoundKeepingLock(m) ==
    /\ handler[m] = "lock"
    /\ roundMu = None
    /\ roundMu' = m
    /\ handler' = [handler EXCEPT ![m] = "act"]
    /\ read' = [read EXCEPT ![m] = round]
    /\ UNCHANGED <<pc, what, prop, agreeLk, round, on, own, rcvd, crashed>>

(* lock, round := c.round, unlock *)
ReadRound(m) ==
    /\ handler[m] = "lock"
    /\ roundMu = None
    /\ handler' = [handler EXCEPT ![m] = "act"]
    /\ read' = [read EXCEPT ![m] = round]
    /\ UNCHANGED <<pc, what, prop, locks, round, on, own, rcvd, crashed>>

(* Before the first call there is no round: the process ends. *)
ActOnNil(m) ==
    /\ handler[m] = "act"
    /\ read[m] = None
    /\ crashed' = TRUE
    /\ UNCHANGED <<pc, what, prop, locks, round, on, own, rcvd, remote>>

Act(m) ==
    /\ handler[m] = "act"
    /\ read[m] # None
    /\ rcv(read[m], m)
    /\ handler' = [handler EXCEPT ![m] = "done"]
    /\ read' = [read EXCEPT ![m] = None]
    /\ UNCHANGED <<pc, what, prop, locks, round, on, own, crashed>>

-----------------------------------------------------------------------------
(* What a call does by itself, and a handler once it has started. *)
Step(c) ==
    \/ LockAgree(c) \/ LockRound(c) \/ Panic(c) \/ NewRound(c)
    \/ Enter(c) \/ Publish(c) \/ HandleOwn(c)
    \/ TakeProposal(c) \/ TakePrevotes(c) \/ TakePrecommits(c)

Handle(m) == ReadRound(m) \/ ActOnNil(m) \/ Act(m)

Next ==
    /\ ~ crashed
    /\ \/ \E c \in Calls : AgreeOn(c) \/ Step(c) \/ Cancel(c)
       \/ \E m \in Messages : Deliver(m) \/ Handle(m)

Spec == Init /\ [][Next]_vars

(* Goroutines that can run do run.  A call takes each lock once, so that with
   finitely many calls this is all that waiting for a lock needs.  Callers need
   not call, nothing need be delivered, and contexts need not end. *)
Fairness ==
    /\ \A c \in Calls : WF_vars(~ crashed /\ Step(c))
    /\ \A m \in Messages : WF_vars(~ crashed /\ Handle(m))

LiveSpec == Spec /\ Fairness

-----------------------------------------------------------------------------
(* Properties. *)

InRound(c) == pc[c] \in Stretches

(* A call keeps its round: while AgreeOn runs, c.round is the round it made, at
   each of the reads it makes without a lock and at those of its own handler,
   however calls and handlers interleave; and who waits for a quorum has the
   very vote it cast in the set it waits on. *)
CallKeepsItsRound ==
    \A c \in Calls :
        /\ InRound(c) =>
              /\ round = c
              /\ pc[c] # "enter" => on[c] = c
              /\ pc[c] = "handle" => own[c] = c
        /\ pc[c] = "wait" /\ what[c] # "proposal" =>
              OwnMessage(c) \in votes[c][what[c]]

(* The call cannot publish its proposal: its round already holds one that this
   instance signed for an earlier agreement, and only the call, once it has
   published, would take that out. *)
HeldUp(c) ==
    /\ pc[c] = "handle" /\ what[c] = "proposal"
    /\ propCh[own[c]] # None
    /\ propCh[own[c]].from = Self /\ propCh[own[c]].id # c

(* A call has panicked with roundMu locked. *)
Deserted == roundMu \in Calls /\ pc[roundMu] = "panicked"

(* No handler comes before there is a round. *)
NeverEarly == []~ crashed

(* Calls end although the votes they wait for may never come and there are no
   timeouts: if every wait inside a call ends, by its context at the latest,
   then every call ends, those included that wait for their turn behind
   others.  There are two ways for calls never to end, and no others: the
   proposal a call publishes waits for the room that an old one of its own
   takes, and a call has panicked and left roundMu locked. *)
CallsEnd ==
    NeverEarly /\ (\A c \in Calls : []<>(pc[c] # "wait")) =>
        \A c \in Calls :
            pc[c] = "agreeLk" ~>
                \/ pc[c] \in Ended
                \/ Deserted
                \/ \E d \in Calls : HeldUp(d)

(* Handlers finish: a vote is counted although the handler of a surplus proposal
   waits for room, perhaps for ever, although a call waits for room itself, and
   although calls come and go.  Only that handler does not finish, while its
   channel is full, and who wants roundMu once it is deserted. *)
HandlersFinish ==
    NeverEarly =>
        \A m \in Messages :
            handler[m] # "none" ~>
                \/ handler[m] = "done"
                \/ handler[m] = "lock" /\ Deserted
                \/ m.type = "proposal" /\ \E r \in Calls : read[m] = r /\ propCh[r] # None
=============================================================================
