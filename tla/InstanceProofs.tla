--------------------------- MODULE InstanceProofs ---------------------------
(***************************************************************************)
(* A call of AgreeOn keeps its round, for any number of calls, any sets    *)
(* they are given and any messages.                                        *)
(*                                                                         *)
(* The argument rests on agreeLk alone.  From LockAgree to its end a call  *)
(* holds agreeLk, on every path, so at most one call is past it; c.round   *)
(* is written by such a call only; hence the unlocked reads of AgreeOn,    *)
(* and the read of its own handler, find the round the call has made.      *)
(* roundMu plays no part in it: it keeps the handlers of others away from  *)
(* the assignment, no more.                                                *)
(***************************************************************************)
EXTENDS Instance, TLAPS

(* Where a call holds agreeLk. *)
Holding == {"roundMu", "lookup"} \cup Stretches

PCs == {"outside", "agreeLk"} \cup Holding \cup Ended

(* The data that is about, and everything a round may hold. *)
Data == {Prop[c] : c \in Calls} \cup {m.block : m \in Messages}

Known == Messages \cup [type : Types, from : {Self}, block : Data, id : Calls]

TypeOK ==
    /\ pc \in [Calls -> PCs]
    /\ what \in [Calls -> Types]
    /\ prop \in [Calls -> Data]
    /\ agreeLk \in Calls \cup {None}
    /\ roundMu \in Calls \cup {None}
    /\ round \in Calls \cup {None}
    /\ on \in [Calls -> Calls \cup {None}]
    /\ own \in [Calls -> Calls \cup {None}]
    /\ propCh \in [Calls -> Known \cup {None}]
    /\ votes \in [Calls -> [VoteTypes -> SUBSET Known]]
    /\ handler \in [Messages -> {"none", "lock", "act", "done"}]
    /\ read \in [Messages -> Calls \cup {None}]

(* agreeLk keeps calls apart. *)
LockOK == \A c \in Calls : pc[c] \in Holding => agreeLk = c

(* A round is made for a call that has a set with this instance in it. *)
MemberOK ==
    \A c \in Calls :
        /\ pc[c] \notin {"outside", "failed"} => PropSet[c] # None
        /\ InRound(c) => Self \in PropSet[c].members
        /\ pc[c] \in {"publish", "handle"} /\ what[c] = "proposal" =>
              PropSet[c].proposer = Self

(* The types of message that come before t in a call. *)
Before(t) ==
    {u \in Types : \/ t = "prevote" /\ u = "proposal"
                   \/ t = "precommit" /\ u # "precommit"}

(* Call r may have published its message of type t. *)
Published(r, t) ==
    \/ t \in Before(what[r])
    \/ what[r] = t /\ pc[r] \in {"wait"} \cup Ended

(* Where a message held by round r comes from: it is the call's own, or its
   handler is done. *)
Origin(r, m) ==
    \/ m \in Messages /\ handler[m] = "done"
    \/ m.from = Self /\ m.id = r /\ Published(r, m.type)

(* What a round holds is of the right type, from whom it should be, and from
   somewhere. *)
ProposalOK(r) ==
    propCh[r] # None =>
        /\ propCh[r].type = "proposal"
        /\ propCh[r].from = PropSet[r].proposer
        /\ Origin(r, propCh[r])

VotesOK(r) ==
    \A t \in VoteTypes : \A v \in votes[r][t] : v.type = t /\ Origin(r, v)

HeldOK == \A r \in Calls : ProposalOK(r) /\ VotesOK(r)

IInv == TypeOK /\ LockOK /\ MemberOK /\ CallKeepsItsRound /\ HeldOK

(* The round of call c holds message m. *)
Holds(c, m) ==
    IF m.type = "proposal" THEN propCh[c] = m ELSE m \in votes[c][m.type]

(* Nothing but the instance's own past stops what a call publishes: a call fails
   on a vote of its own, or waits for room with its own proposal, only where
   its round already holds a message of that type which the instance has
   signed before, and which a handler has let in. *)
OwnMessagesTaken ==
    \A c \in Calls :
        /\ pc[c] = "handle"
        /\ \/ Refused(own[c], OwnMessage(c))
           \/ what[c] = "proposal" /\ propCh[own[c]] # None
        => \E m \in Messages :
              /\ m.from = Self /\ m.type = what[c]
              /\ handler[m] = "done" /\ Holds(c, m)

-----------------------------------------------------------------------------
(* What a handler does to the round it acts on: votes are added, never taken
   back, and the channel may get the message. *)
LEMMA RcvGrows ==
    ASSUME TypeOK, NEW r \in Calls, NEW m \in Known, m.type \in Types, rcv(r, m)
    PROVE  /\ propCh' \in [Calls -> Known \cup {None}]
           /\ votes' \in [Calls -> [VoteTypes -> SUBSET Known]]
           /\ \A c \in Calls : \A t \in VoteTypes : votes[c][t] \subseteq votes'[c][t]
           /\ ~ Refused(r, m) /\ m.type \in VoteTypes => m \in votes'[r][m.type]
           /\ \A c \in Calls : propCh'[c] # propCh[c] =>
                 /\ c = r /\ propCh'[c] = m /\ m.type = "proposal"
                 /\ ~ Refused(r, m)
           /\ \A c \in Calls : \A t \in VoteTypes : \A v \in votes'[c][t] :
                 v \notin votes[c][t] => c = r /\ v = m /\ t = m.type /\ ~ Refused(r, m)
<1>1. CASE Refused(r, m)
  BY <1>1 DEF TypeOK, rcv, rcvd
<1>2. CASE ~ Refused(r, m) /\ m.type = "proposal"
  <2>1. propCh' = [propCh EXCEPT ![r] = m] /\ votes' = votes /\ m.type \notin VoteTypes
    BY <1>2 DEF rcv, rcvProposal, VoteTypes
  <2> QED BY <1>2, <2>1 DEF TypeOK
<1>3. CASE ~ Refused(r, m) /\ m.type \in VoteTypes
  <2>1. /\ votes' = [votes EXCEPT ![r] =
                       [votes[r] EXCEPT ![m.type] = votes[r][m.type] \cup {m}]]
        /\ propCh' = propCh
    BY <1>3 DEF rcv, rcvVote, VoteTypes
  <2> QED BY <1>3, <2>1 DEF TypeOK
<1> QED BY <1>1, <1>2, <1>3 DEF Types

(* What rounds hold stays in order when published stays published, done stays
   done, and whatever is new in a round is in order. *)
LEMMA HeldStays ==
    ASSUME HeldOK,
           \A r \in Calls : \A t \in Types : Published(r, t) => Published(r, t)',
           \A m \in Messages : handler[m] = "done" => handler'[m] = "done",
           \A r \in Calls : propCh'[r] # propCh[r] => ProposalOK(r)',
           \A r \in Calls : \A t \in VoteTypes : \A v \in votes'[r][t] :
              v \notin votes[r][t] => v.type = t /\ Origin(r, v)'
    PROVE  HeldOK'
<1>1. ASSUME NEW r \in Calls, NEW m, m.type \in Types, Origin(r, m)
      PROVE  Origin(r, m)'
  BY <1>1 DEF Origin
<1>2. ASSUME NEW r \in Calls PROVE ProposalOK(r)'
  <2>1. CASE propCh'[r] = propCh[r]
    BY <1>1, <2>1 DEF HeldOK, ProposalOK, Types
  <2> QED BY <2>1
<1>3. ASSUME NEW r \in Calls PROVE VotesOK(r)'
  <2> SUFFICES ASSUME NEW t \in VoteTypes, NEW v \in votes'[r][t]
               PROVE  v.type = t /\ Origin(r, v)'
    BY DEF VotesOK
  <2>1. CASE v \in votes[r][t]
    BY <1>1, <2>1 DEF HeldOK, VotesOK, Types
  <2> QED BY <2>1
<1> QED BY <1>2, <1>3 DEF HeldOK

(* Two calls are never both past agreeLk. *)
LEMMA OneHolder ==
    ASSUME LockOK, NEW c \in Calls, NEW d \in Calls,
           pc[c] \in Holding, pc[d] \in Holding
    PROVE  c = d
BY DEF LockOK

(* The instance starts without calls, round or votes. *)
LEMMA InitInv == Init => IInv
<1> SUFFICES ASSUME Init PROVE IInv
  OBVIOUS
<1>1. TypeOK
  BY DEF Init, TypeOK, PCs, Types, Data
<1>2. LockOK /\ MemberOK /\ CallKeepsItsRound
  BY DEF Init, LockOK, MemberOK, CallKeepsItsRound, InRound, Holding, Stretches
<1>3. HeldOK
  BY DEF Init, HeldOK, ProposalOK, VotesOK
<1> QED BY <1>1, <1>2, <1>3 DEF IInv

(* The steps of a call up to its round. *)
LEMMA LockingInv ==
    ASSUME IInv, NEW c \in Calls,
           \/ AgreeOn(c) \/ LockAgree(c) \/ LockRound(c) \/ Panic(c) \/ NewRound(c)
    PROVE  IInv'
<1> USE DEF IInv
<1>1. /\ \A d \in Calls : d # c => pc'[d] = pc[d]
      /\ UNCHANGED <<what, prop, on, own, propCh, votes, handler, read>>
      /\ TypeOK'
  BY DEF TypeOK, AgreeOn, LockAgree, LockRound, Panic, NewRound, Goto, remote,
         rcvd, locks, PCs, Holding, Stretches, Ended
<1>2. LockOK'
  <2>1. \A d \in Calls : d # c /\ pc[d] \in Holding => agreeLk = d /\ agreeLk' = d
    BY InstanceAssumption DEF LockOK, TypeOK, AgreeOn, LockAgree, LockRound, Panic,
       NewRound, locks, Holding
  <2>2. pc'[c] \in Holding => agreeLk' = c
    BY DEF LockOK, TypeOK, AgreeOn, LockAgree, LockRound, Panic, NewRound, Goto,
           locks, Holding, Stretches, Ended
  <2> QED BY <1>1, <2>1, <2>2 DEF LockOK
<1>3. MemberOK'
  <2>1. pc'[c] \notin {"outside", "failed"} => PropSet[c] # None
    BY DEF MemberOK, TypeOK, AgreeOn, LockAgree, LockRound, Panic, NewRound, Goto
  <2>2. InRound(c)' => Self \in PropSet[c].members
    BY DEF InRound, Stretches, TypeOK, AgreeOn, LockAgree, LockRound, Panic, NewRound, Goto
  <2>3. pc'[c] \notin {"publish", "handle"}
    BY DEF TypeOK, AgreeOn, LockAgree, LockRound, Panic, NewRound, Goto
  <2> QED BY <1>1, <2>1, <2>2, <2>3 DEF MemberOK, InRound
<1>4. CallKeepsItsRound'
  <2>1. \A d \in Calls : d # c /\ InRound(d) => round' = round
    BY OneHolder DEF InRound, Holding, Stretches, AgreeOn, LockAgree, LockRound,
       Panic, NewRound
  <2>2. InRound(c)' => round' = c /\ pc'[c] = "enter"
    BY DEF InRound, Stretches, TypeOK, AgreeOn, LockAgree, LockRound, Panic, NewRound, Goto
  <2>3. pc'[c] # "wait"
    BY DEF TypeOK, AgreeOn, LockAgree, LockRound, Panic, NewRound, Goto
  <2> QED BY <1>1, <2>1, <2>2, <2>3 DEF CallKeepsItsRound, InRound, Stretches, OwnMessage
<1>5. HeldOK'
  <2>1. pc[c] \notin {"wait"} \cup Ended
    BY DEF Ended, AgreeOn, LockAgree, LockRound, Panic, NewRound
  <2>2. \A r \in Calls : \A t \in Types : Published(r, t) => Published(r, t)'
    BY <1>1, <2>1 DEF Published
  <2> QED BY <1>1, <2>2, HeldStays
<1> QED BY <1>1, <1>2, <1>3, <1>4, <1>5

(* The steps of a call in its round. *)
LEMMA RoundInv ==
    ASSUME IInv, NEW c \in Calls,
           \/ Enter(c) \/ Publish(c) \/ HandleOwn(c) \/ TakeProposal(c)
           \/ TakePrevotes(c) \/ TakePrecommits(c) \/ Cancel(c)
    PROVE  IInv'
<1> USE DEF IInv
<1> DEFINE m == OwnMessage(c)
<1>1. InRound(c) /\ pc[c] \in Holding
  BY DEF InRound, Holding, Stretches, Enter, Publish, HandleOwn, TakeProposal,
         TakePrevotes, TakePrecommits, Cancel
<1>2. round = c /\ agreeLk = c /\ PropSet[c] # None /\ Self \in PropSet[c].members
  BY <1>1 DEF CallKeepsItsRound, LockOK, MemberOK, InRound, Stretches
<1>3. \A d \in Calls : d # c => pc[d] \notin Holding /\ pc'[d] = pc[d]
  <2>1. \A d \in Calls : d # c => pc[d] \notin Holding
    BY <1>1, OneHolder
  <2>2. \A d \in Calls : d # c => pc'[d] = pc[d]
    BY DEF TypeOK, Enter, Publish, HandleOwn, TakeProposal, TakePrevotes,
           TakePrecommits, Cancel, GoOn, End, Goto
  <2> QED BY <2>1, <2>2
<1>4. /\ propCh' \in [Calls -> Known \cup {None}]
      /\ votes' \in [Calls -> [VoteTypes -> SUBSET Known]]
      /\ pc[c] = "handle" /\ pc'[c] = "wait" /\ what[c] \in VoteTypes
            => m \in votes'[c][what[c]]
      /\ \A d \in Calls : propCh'[d] # propCh[d] => ProposalOK(d)'
      /\ \A d \in Calls : \A t \in VoteTypes : \A v \in votes'[d][t] :
            v \notin votes[d][t] => v.type = t /\ Origin(d, v)'
  <2>1. CASE HandleOwn(c)
    <3>0. PICK x : x = m
      OBVIOUS
    <3>1. /\ own[c] = c /\ rcv(c, x)
          /\ Refused(c, x) => pc'[c] = "failed"
          /\ ~ Refused(c, x) => pc'[c] = "wait" /\ what'[c] = what[c]
      BY <1>1, <2>1, <3>0 DEF HandleOwn, CallKeepsItsRound, End, Goto, TypeOK
    <3>2. /\ x \in Known /\ x.type \in Types
          /\ x.type = what[c] /\ x.from = Self /\ x.id = c
      BY <3>0 DEF TypeOK, OwnMessage, Known
    <3> HIDE DEF m
    <3>3. /\ propCh' \in [Calls -> Known \cup {None}]
          /\ votes' \in [Calls -> [VoteTypes -> SUBSET Known]]
          /\ ~ Refused(c, x) /\ x.type \in VoteTypes => x \in votes'[c][x.type]
          /\ \A d \in Calls : propCh'[d] # propCh[d] =>
                /\ d = c /\ propCh'[d] = x /\ x.type = "proposal"
                /\ ~ Refused(c, x)
          /\ \A d \in Calls : \A t \in VoteTypes : \A v \in votes'[d][t] :
                v \notin votes[d][t] => d = c /\ v = x /\ t = x.type /\ ~ Refused(c, x)
      BY <3>1, <3>2, RcvGrows
    <3>4. ~ Refused(c, x) => Origin(c, x)'
      BY <3>1, <3>2 DEF Origin, Published
    <3>5. x.type = "proposal" /\ ~ Refused(c, x) => x.from = PropSet[c].proposer
      BY DEF Refused
    <3>6. \A d \in Calls : propCh'[d] # propCh[d] => ProposalOK(d)'
      BY <3>3, <3>4, <3>5 DEF ProposalOK
    <3> QED BY <3>0, <3>1, <3>2, <3>3, <3>4, <3>6
  <2>2. CASE TakeProposal(c)
    <3>1. votes' = votes /\ pc[c] = "wait" /\ propCh' = [propCh EXCEPT ![c] = None]
      BY <1>1, <2>2 DEF TakeProposal, CallKeepsItsRound
    <3> QED BY <3>1 DEF TypeOK, ProposalOK
  <2>3. CASE ~ HandleOwn(c) /\ ~ TakeProposal(c)
    <3>1. UNCHANGED rcvd
      BY <2>3 DEF Enter, Publish, TakePrevotes, TakePrecommits, Cancel
    <3>2. ~ (pc[c] = "handle")
      BY <2>3 DEF Enter, Publish, TakePrevotes, TakePrecommits, Cancel
    <3> QED BY <3>1, <3>2 DEF rcvd, TypeOK
  <2> QED BY <2>1, <2>2, <2>3
<1>5. TypeOK'
  <2>1. pc' \in [Calls -> PCs] /\ what' \in [Calls -> Types]
    BY DEF TypeOK, Enter, Publish, HandleOwn, TakeProposal, TakePrevotes,
           TakePrecommits, Cancel, GoOn, End, Goto, PCs, Holding, Stretches, Ended,
           Types, VoteTypes
  <2>2. /\ agreeLk' \in Calls \cup {None} /\ UNCHANGED <<roundMu, round, handler, read>>
        /\ on' \in [Calls -> Calls \cup {None}] /\ own' \in [Calls -> Calls \cup {None}]
    BY DEF TypeOK, Enter, Publish, HandleOwn, TakeProposal, TakePrevotes,
           TakePrecommits, Cancel, GoOn, End, locks, remote
  <2>3. prop' \in [Calls -> Data]
    <3>1. CASE TakeProposal(c)
      <4>1. on[c] = c /\ propCh[c] \in Known
        BY <1>1, <3>1 DEF TakeProposal, CallKeepsItsRound, TypeOK
      <4>2. propCh[c].block \in Data
        BY <4>1 DEF Known, Data
      <4> QED BY <3>1, <4>1, <4>2 DEF TakeProposal, TypeOK
    <3>2. CASE ~ TakeProposal(c)
      BY <3>2 DEF TypeOK, Enter, Publish, HandleOwn, TakePrevotes, TakePrecommits, Cancel
    <3> QED BY <3>1, <3>2
  <2> QED BY <1>4, <2>1, <2>2, <2>3 DEF TypeOK
<1>6. LockOK'
  <2>1. pc'[c] \in Holding => agreeLk' = c
    BY <1>2 DEF TypeOK, Enter, Publish, HandleOwn, TakeProposal, TakePrevotes,
       TakePrecommits, Cancel, GoOn, End, Goto, Holding, Stretches, locks
  <2> QED BY <1>3, <2>1 DEF LockOK
<1>7. MemberOK'
  <2>1. /\ \A d \in Calls : d # c => what'[d] = what[d]
        /\ pc'[c] \in {"publish", "handle"} /\ what'[c] = "proposal"
              => PropSet[c].proposer = Self
    BY <1>2 DEF MemberOK, TypeOK, Enter, Publish, HandleOwn, TakeProposal,
       TakePrevotes, TakePrecommits, Cancel, GoOn, End, Goto
  <2> QED BY <1>2, <1>3, <2>1 DEF MemberOK, InRound
<1>8. CallKeepsItsRound'
  <2>1. /\ round' = c
        /\ InRound(c)' /\ pc'[c] # "enter" => on'[c] = c
        /\ pc'[c] = "handle" => own'[c] = c
    BY <1>1, <1>2 DEF CallKeepsItsRound, InRound, Stretches, TypeOK, Enter, Publish,
       HandleOwn, TakeProposal, TakePrevotes, TakePrecommits, Cancel, GoOn, End,
       Goto, locks
  <2>2. pc'[c] = "wait" /\ what'[c] # "proposal" =>
          pc[c] = "handle" /\ OwnMessage(c)' = m /\ what'[c] = what[c] /\ what[c] \in VoteTypes
    BY DEF TypeOK, Types, Enter, Publish, HandleOwn, TakeProposal, TakePrevotes,
           TakePrecommits, Cancel, GoOn, End, Goto, OwnMessage
  <2>3. \A d \in Calls : d # c => ~ InRound(d)' /\ pc'[d] # "wait"
    BY <1>3 DEF InRound, Holding, Stretches
  <2> QED BY <1>4, <2>1, <2>2, <2>3 DEF CallKeepsItsRound
<1>9. HeldOK'
  <2>1. \A d \in Calls : d # c => what'[d] = what[d]
    BY DEF TypeOK, Enter, Publish, HandleOwn, TakeProposal, TakePrevotes,
           TakePrecommits, Cancel, GoOn
  <2>2. \A t \in Types : Published(c, t) => Published(c, t)'
    BY <1>1 DEF Published, Before, Ended, Types, VoteTypes, TypeOK, Enter, Publish,
       HandleOwn, TakeProposal, TakePrevotes, TakePrecommits, Cancel, GoOn, End, Goto
  <2>3. \A r \in Calls : \A t \in Types : Published(r, t) => Published(r, t)'
    BY <1>3, <2>1, <2>2 DEF Published
  <2>4. UNCHANGED handler
    BY DEF Enter, Publish, HandleOwn, TakeProposal, TakePrevotes, TakePrecommits,
           Cancel, remote
  <2> HIDE DEF m
  <2> QED BY <1>4, <2>3, <2>4, HeldStays
<1> QED BY <1>5, <1>6, <1>7, <1>8, <1>9

(* The handlers of messages that arrive: they change no call and no lock, and
   what they add to a round, current or replaced, takes no vote away. *)
LEMMA HandlersInv ==
    ASSUME IInv, NEW m \in Messages, Deliver(m) \/ Handle(m)
    PROVE  IInv'
<1> USE DEF IInv
<1>1. /\ UNCHANGED <<pc, what, prop, agreeLk, roundMu, round, on, own>>
      /\ read' \in [Messages -> Calls \cup {None}]
      /\ handler' \in [Messages -> {"none", "lock", "act", "done"}]
      /\ \A n \in Messages : handler[n] = "done" => handler'[n] = "done"
  BY DEF TypeOK, Deliver, Handle, ReadRound, ActOnNil, Act, locks, remote
<1>2. /\ propCh' \in [Calls -> Known \cup {None}]
      /\ votes' \in [Calls -> [VoteTypes -> SUBSET Known]]
      /\ \A c \in Calls : \A t \in VoteTypes : votes[c][t] \subseteq votes'[c][t]
      /\ \A d \in Calls : propCh'[d] # propCh[d] => ProposalOK(d)'
      /\ \A d \in Calls : \A t \in VoteTypes : \A v \in votes'[d][t] :
            v \notin votes[d][t] => v.type = t /\ Origin(d, v)'
  <2>1. CASE Act(m)
    <3>1. PICK r \in Calls : r = read[m]
      BY <2>1 DEF Act, TypeOK
    <3>2. rcv(r, m) /\ handler'[m] = "done"
      BY <2>1, <3>1 DEF Act, TypeOK
    <3>3. m \in Known /\ m.type \in Types
      BY InstanceAssumption DEF Known
    <3>4. Origin(r, m)'
      BY <3>2 DEF Origin
    <3>5. m.type = "proposal" /\ ~ Refused(r, m) => m.from = PropSet[r].proposer
      BY DEF Refused
    <3>6. /\ propCh' \in [Calls -> Known \cup {None}]
          /\ votes' \in [Calls -> [VoteTypes -> SUBSET Known]]
          /\ \A c \in Calls : \A t \in VoteTypes : votes[c][t] \subseteq votes'[c][t]
          /\ \A d \in Calls : propCh'[d] # propCh[d] =>
                d = r /\ propCh'[d] = m /\ m.type = "proposal" /\ ~ Refused(r, m)
          /\ \A d \in Calls : \A t \in VoteTypes : \A v \in votes'[d][t] :
                v \notin votes[d][t] => d = r /\ v = m /\ t = m.type
      BY <3>2, <3>3, RcvGrows
    <3>7. \A d \in Calls : propCh'[d] # propCh[d] => ProposalOK(d)'
      BY <3>4, <3>5, <3>6 DEF ProposalOK
    <3> QED BY <3>4, <3>6, <3>7
  <2>2. CASE ~ Act(m)
    <3>1. UNCHANGED rcvd
      BY <2>2 DEF Deliver, Handle, ReadRound, ActOnNil
    <3> QED BY <3>1 DEF rcvd, TypeOK
  <2> QED BY <2>1, <2>2
<1>3. TypeOK' /\ LockOK' /\ MemberOK'
  BY <1>1, <1>2 DEF TypeOK, LockOK, MemberOK, InRound
<1>4. CallKeepsItsRound'
  BY <1>1, <1>2 DEF TypeOK, Types, CallKeepsItsRound, InRound, OwnMessage
<1>5. HeldOK'
  <2>1. \A r \in Calls : \A t \in Types : Published(r, t) => Published(r, t)'
    BY <1>1 DEF Published
  <2> QED BY <1>1, <1>2, <2>1, HeldStays
<1> QED BY <1>3, <1>4, <1>5

(* Every step keeps the invariant. *)
LEMMA NextInv == IInv /\ [Next]_vars => IInv'
<1> SUFFICES ASSUME IInv, [Next]_vars PROVE IInv'
  OBVIOUS
<1>1. CASE UNCHANGED vars
  <2>1. UNCHANGED <<pc, what, prop, agreeLk, roundMu, round, on, own, propCh, votes,
                    handler, read>>
    BY <1>1 DEF vars, locks, rcvd, remote
  <2>2. TypeOK' /\ LockOK' /\ MemberOK' /\ CallKeepsItsRound'
    BY <2>1 DEF IInv, TypeOK, LockOK, MemberOK, CallKeepsItsRound, InRound, OwnMessage
  <2>3. HeldOK'
    BY <2>1 DEF IInv, HeldOK, ProposalOK, VotesOK, Origin, Published
  <2> QED BY <2>2, <2>3 DEF IInv
<1>2. CASE \E c \in Calls : AgreeOn(c) \/ Step(c) \/ Cancel(c)
  BY <1>2, LockingInv, RoundInv DEF Step
<1>3. CASE \E m \in Messages : Deliver(m) \/ Handle(m)
  BY <1>3, HandlersInv
<1> QED BY <1>1, <1>2, <1>3 DEF Next

-----------------------------------------------------------------------------
(* The results. *)

(* While AgreeOn runs, c.round is the round the call has made, at each of its
   unlocked reads and at that of its own handler, and a call that waits for a
   quorum has its own vote in the set it waits on; for any number of concurrent
   calls, some of which fail, panic or are cancelled, and handlers that come
   late. *)
THEOREM CallKeepsItsRoundHolds == Spec => []CallKeepsItsRound
<1>1. IInv => CallKeepsItsRound
  BY DEF IInv
<1> QED BY <1>1, InitInv, NextInv, PTL DEF Spec

(* What a call publishes passes through its own round, whatever arrives and
   however late, unless the round already holds a message of the same type that
   the instance itself signed before and that was sent again: so it is no
   message of another's on which a call fails, or behind which it waits. *)
THEOREM OwnMessagesTakenHolds == Spec => []OwnMessagesTaken
<1>1. IInv => OwnMessagesTaken
  <2> SUFFICES ASSUME IInv, NEW c \in Calls, pc[c] = "handle",
                      \/ Refused(own[c], OwnMessage(c))
                      \/ what[c] = "proposal" /\ propCh[own[c]] # None
               PROVE  \E m \in Messages :
                         /\ m.from = Self /\ m.type = what[c]
                         /\ handler[m] = "done" /\ Holds(c, m)
    BY DEF OwnMessagesTaken
  <2>1. own[c] = c /\ Self \in PropSet[c].members /\ what[c] \in Types
    BY DEF IInv, TypeOK, CallKeepsItsRound, MemberOK, InRound, Stretches
  <2>2. ~ Published(c, what[c])
    BY DEF Published, Before, Ended
  <2>3. OwnMessage(c).type = what[c] /\ OwnMessage(c).from = Self
    BY DEF OwnMessage
  <2>4. CASE what[c] = "proposal"
    <3>1. PropSet[c].proposer = Self
      BY <2>4 DEF IInv, MemberOK
    <3>2. propCh[c] # None
      BY <2>1, <2>3, <2>4, <3>1 DEF Refused
    <3>3. ProposalOK(c)
      BY DEF IInv, HeldOK
    <3> QED BY <2>2, <2>4, <3>1, <3>2, <3>3 DEF ProposalOK, Origin, Holds
  <2>5. CASE what[c] \in VoteTypes
    <3>1. PICK v \in votes[c][what[c]] : v.from = Self
      BY <2>1, <2>3, <2>5 DEF Refused, VoteTypes
    <3>2. v.type = what[c] /\ Origin(c, v)
      BY <2>5, <3>1 DEF IInv, HeldOK, VotesOK
    <3> QED BY <2>2, <2>5, <3>1, <3>2 DEF Origin, Holds, VoteTypes
  <2> QED BY <2>1, <2>4, <2>5 DEF Types
<1> QED BY <1>1, InitInv, NextInv, PTL DEF Spec
=============================================================================
