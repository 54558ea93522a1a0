------------------------------- MODULE Commit -------------------------------
(***************************************************************************)
(* Commits (concord/commit.go), how a vote set makes one                   *)
(* (VoteSet.MakeCommit) and how a proposer set verifies one                *)
(* (ProposerSet.VerifyCommit, VerifyCommitLight,                           *)
(* VerifyCommitLightTrusting).                                             *)
(*                                                                         *)
(* A commit is a data hash and a list of signatures, one per proposer.     *)
(* sigs is a function on 0 .. n-1, n being the length of the list: the     *)
(* verifiers must cope with lists of the wrong length.                     *)
(***************************************************************************)
EXTENDS VoteSetOps

(* DataHashFlag is a byte; "unknown" is any of the 253 values without a name,
   which a CommitSig in memory may have. *)
Flags == {"absent", "commit", "nil"}

CommitSig == [flag : Flags \cup {"unknown"}, addr : Int, time : Nat,
              sig : Signatures]

(* A signature list is as long as some number of proposers. *)
CommitType == [hash : Keys, sigs : UNION {[0 .. n - 1 -> CommitSig] : n \in Nat}]

NewCommitSigAbsent ==
    [flag |-> "absent", addr |-> NoAddr, time |-> 0, sig |-> NoSig]

ForBlock(cs) == cs.flag = "commit"
Absent(cs) == cs.flag = "absent"
UnknownFlag(cs) == cs.flag \notin Flags

(* Vote.CommitSig; v may be nil. *)
voteCommitSig(v) ==
    IF v = NoVote
    THEN NewCommitSigAbsent
    ELSE [flag |-> IF v.block \in Blocks THEN "commit" ELSE "nil",
          addr |-> v.addr, time |-> v.time, sig |-> v.sig]

(* Mutant: votes for other blocks are left in. *)
MakeCommitOfAll(vs) ==
    [hash |-> vs.maj23, sigs |-> [i \in Vals |-> voteCommitSig(vs.votes[i])]]

(* VoteSet.MakeCommit of a precommit set with a majority (it panics on any
   other set). *)
MakeCommit(vs) ==
    [hash |-> vs.maj23,
     sigs |-> [i \in Vals |->
                 IF ForBlock(voteCommitSig(vs.votes[i])) /\ vs.votes[i].block # vs.maj23
                 THEN NewCommitSigAbsent
                 ELSE voteCommitSig(vs.votes[i])]]

-----------------------------------------------------------------------------
(* Reading a commit. *)

(* Mutant: a vote for nil is read as one for the commit's hash. *)
signedHashAlways(cs, hash) == hash

(* CommitSig.DataHash; NoBlock stands for its panic on an unknown flag, which is
   the panic of GetVote and of whoever calls GetVote. *)
signedHash(cs, hash) ==
    IF UnknownFlag(cs) THEN NoBlock
    ELSE IF ForBlock(cs) THEN hash ELSE NilBlock

(* Commit.GetVote *)
GetVote(c, i) ==
    [type |-> "precommit", block |-> signedHash(c.sigs[i], c.hash),
     time |-> c.sigs[i].time, addr |-> c.sigs[i].addr, index |-> i,
     sig |-> c.sigs[i].sig]

(* The i-th signature verifies over Commit.VoteSignBytes under the public key
   of proposer p. *)
sigVerifies(c, i, p) ==
    c.sigs[i].sig = Sign(p, "precommit", signedHash(c.sigs[i], c.hash), c.sigs[i].time)

(* CommitSig.ValidateBasic *)
sigValid(cs) ==
    IF UnknownFlag(cs) THEN FALSE
    ELSE IF Absent(cs)
    THEN cs.addr = NoAddr /\ cs.time = 0 /\ cs.sig = NoSig
    ELSE cs.addr # NoAddr /\ cs.sig # NoSig

(* Commit.ValidateBasic *)
ValidateBasic(c) ==
    IF c.hash = NilBlock THEN "commit cannot be for nil block"
    ELSE IF DOMAIN c.sigs = {} THEN "no signatures in commit"
    ELSE IF \E i \in DOMAIN c.sigs : ~ sigValid(c.sigs[i]) THEN "wrong CommitSig"
    ELSE "ok"

-----------------------------------------------------------------------------
(* Verifying a commit: "ok" is a nil error. *)

(* Mutant: off by one. *)
votingPowerAlmostNeeded == (TotalVotingPower * 2) \div 3 - 1

votingPowerNeeded == (TotalVotingPower * 2) \div 3

(* Where the loop of VerifyCommit cannot go on: it skips absent signatures only,
   VoteSignBytes panics on an unknown flag, and a wrong signature is an error. *)
badSlots(c) ==
    {i \in Vals : /\ ~ Absent(c.sigs[i])
                  /\ UnknownFlag(c.sigs[i]) \/ ~ sigVerifies(c, i, i)}

firstBadSlot(c) == CHOOSE i \in badSlots(c) : \A j \in badSlots(c) : i <= j

(* Mutant: exactly two thirds pass. *)
VerifyCommitTwoThirds(hash, c) ==
    IF DOMAIN c.sigs # Vals THEN "ErrInvalidCommitSignatures"
    ELSE IF hash # c.hash THEN "wrong block ID"
    ELSE IF badSlots(c) # {}
         THEN IF UnknownFlag(c.sigs[firstBadSlot(c)]) THEN "panic" ELSE "wrong signature"
    ELSE IF PowerOf({i \in Vals : ForBlock(c.sigs[i])}) < votingPowerNeeded
         THEN "ErrNotEnoughVotingPowerSigned"
    ELSE "ok"

(* Mutant: signatures on votes for nil are not verified. *)
VerifyCommitForBlock(hash, c) ==
    IF DOMAIN c.sigs # Vals THEN "ErrInvalidCommitSignatures"
    ELSE IF hash # c.hash THEN "wrong block ID"
    ELSE IF \E i \in badSlots(c) : ForBlock(c.sigs[i]) THEN "wrong signature"
    ELSE IF PowerOf({i \in Vals : ForBlock(c.sigs[i])}) <= votingPowerNeeded
         THEN "ErrNotEnoughVotingPowerSigned"
    ELSE "ok"

(* ProposerSet.VerifyCommit: the loop visits every signature and ends at the
   first bad one, whichever way that is; only a clean list is weighed. *)
VerifyCommit(hash, c) ==
    IF DOMAIN c.sigs # Vals THEN "ErrInvalidCommitSignatures"
    ELSE IF hash # c.hash THEN "wrong block ID"
    ELSE IF badSlots(c) # {}
         THEN IF UnknownFlag(c.sigs[firstBadSlot(c)]) THEN "panic" ELSE "wrong signature"
    ELSE IF PowerOf({i \in Vals : ForBlock(c.sigs[i])}) <= votingPowerNeeded
         THEN "ErrNotEnoughVotingPowerSigned"
    ELSE "ok"

(* The loop of VerifyCommitLight at signature i: what is not for the block is not
   looked at, unknown flags included, and ret # "" once the loop has returned. *)
lightStep(c, s, i) ==
    IF s.ret # "" \/ ~ ForBlock(c.sigs[i]) THEN s
    ELSE IF ~ sigVerifies(c, i, i) THEN [s EXCEPT !.ret = "wrong signature"]
    ELSE [tally |-> s.tally + Power[i],
          ret   |-> IF s.tally + Power[i] > votingPowerNeeded THEN "ok" ELSE ""]

(* lightScan(c)[n] is that loop after n signatures. *)
lightScan(c) ==
    LET scan[n \in 0 .. Size] ==
            IF n = 0 THEN [tally |-> 0, ret |-> ""]
            ELSE lightStep(c, scan[n - 1], n - 1)
    IN  scan

(* ProposerSet.VerifyCommitLight: it returns "ok" as soon as more than two
   thirds are tallied, with the rest of the list unread. *)
VerifyCommitLight(hash, c) ==
    IF DOMAIN c.sigs # Vals THEN "ErrInvalidCommitSignatures"
    ELSE IF hash # c.hash THEN "wrong block ID"
    ELSE IF lightScan(c)[Size].ret # "" THEN lightScan(c)[Size].ret
    ELSE "ErrNotEnoughVotingPowerSigned"

(* Mutant: a proposer that appears twice is counted twice. *)
VerifyCommitLightTrustingTwice(c, num, den) ==
    LET needed == (TotalVotingPower * num) \div den
        step(s, i) ==
            LET p == c.sigs[i].addr
            IN  IF s.ret # "" \/ ~ ForBlock(c.sigs[i]) \/ p \notin Vals THEN s
                ELSE IF ~ sigVerifies(c, i, p) THEN [s EXCEPT !.ret = "wrong signature"]
                ELSE [tally |-> s.tally + Power[p],
                      ret   |-> IF s.tally + Power[p] > needed THEN "ok" ELSE ""]
        len == Cardinality(DOMAIN c.sigs)
        scan[n \in 0 .. len] ==
            IF n = 0 THEN [tally |-> 0, ret |-> ""] ELSE step(scan[n - 1], n - 1)
    IN  IF den # 0 /\ scan[len].ret # "" THEN scan[len].ret
        ELSE "ErrNotEnoughVotingPowerSigned"

(* The loop of VerifyCommitLightTrusting at signature i: signers are found by
   address, and an address that is not in this set is skipped.  seen is
   seenVals. *)
trustingStep(c, needed, s, i) ==
    LET p == c.sigs[i].addr
    IN  IF s.ret # "" \/ ~ ForBlock(c.sigs[i]) \/ p \notin Vals THEN s
        ELSE IF p \in s.seen THEN [s EXCEPT !.ret = "double vote"]
        ELSE IF ~ sigVerifies(c, i, p) THEN [s EXCEPT !.ret = "wrong signature"]
        ELSE [tally |-> s.tally + Power[p],
              seen  |-> s.seen \cup {p},
              ret   |-> IF s.tally + Power[p] > needed THEN "ok" ELSE ""]

(* len(commit.Signatures) *)
numSigs(c) == Cardinality(DOMAIN c.sigs)

trustingScan(c, needed) ==
    LET scan[n \in 0 .. numSigs(c)] ==
            IF n = 0 THEN [tally |-> 0, seen |-> {}, ret |-> ""]
            ELSE trustingStep(c, needed, scan[n - 1], n - 1)
    IN  scan

(* ProposerSet.VerifyCommitLightTrusting with trust level num/den: the commit
   may come from another proposer set.  The code also refuses a numerator whose
   product with the total overflows an int64; with totals of at most MaxInt64/8
   that takes a numerator above 8. *)
VerifyCommitLightTrusting(c, num, den) ==
    LET last == trustingScan(c, (TotalVotingPower * num) \div den)[numSigs(c)]
    IN  IF den = 0 THEN "trustLevel has zero Denominator"
        ELSE IF last.ret # "" THEN last.ret
        ELSE "ErrNotEnoughVotingPowerSigned"

-----------------------------------------------------------------------------
(* The loop of CommitToVoteSet at signature i: it panics in GetVote, in AddVote
   and on a vote that is not added. *)
rebuildStep(c, s, i) ==
    IF s.panics \/ Absent(c.sigs[i]) THEN s
    ELSE IF UnknownFlag(c.sigs[i]) THEN [s EXCEPT !.panics = TRUE]
    ELSE LET r == AddVote(s.vs, GetVote(c, i))
         IN  [vs |-> r.vs, panics |-> ~ r.added \/ r.err # "ok"]

rebuildScan(c) ==
    LET scan[n \in 0 .. numSigs(c)] ==
            IF n = 0 THEN [vs |-> NewVoteSet("precommit"), panics |-> FALSE]
            ELSE rebuildStep(c, scan[n - 1], n - 1)
    IN  scan

(* CommitToVoteSet: the vote set rebuilt from a commit, or that it panics. *)
CommitToVoteSet(c) == rebuildScan(c)[numSigs(c)]
=============================================================================
