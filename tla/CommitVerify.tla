---------------------------- MODULE CommitVerify ----------------------------
(***************************************************************************)
(* A verifier that is handed commits from anywhere: any complete or zero   *)
(* hash, any list of flags, addresses and signatures, of any length, flags *)
(* without a meaning included.  What do VerifyCommit, VerifyCommitLight    *)
(* and VerifyCommitLightTrusting (proposer_set.go) promise of the commits  *)
(* they accept, and which commits make them panic?                         *)
(***************************************************************************)
EXTENDS Commit

CONSTANTS
    Commits,        \* the commits that turn up
    TrustLevels     \* the trust levels in use, as <<numerator, denominator>>

ASSUME CommitsAssumption ==
    /\ \A c \in Commits :
          /\ c.hash \in Keys
          /\ IsFiniteSet(DOMAIN c.sigs)
          /\ DOMAIN c.sigs = 0 .. numSigs(c) - 1
          /\ \A i \in DOMAIN c.sigs : c.sigs[i] \in CommitSig
    /\ TrustLevels \subseteq Nat \X Nat

VARIABLES
    commit,         \* the commit in hand
    wanted          \* the hash it is to be verified for

vars == <<commit, wanted>>

Init == commit \in Commits /\ wanted \in Blocks

(* The next commit arrives. *)
Receive(c, h) == commit' = c /\ wanted' = h

Next == \E c \in Commits, h \in Blocks : Receive(c, h)

Spec == Init /\ [][Next]_vars

-----------------------------------------------------------------------------
(* The proposers whose precommit for the commit's hash is in slot s. *)
SignedIn(s) == {p \in Vals : ForBlock(commit.sigs[s]) /\ sigVerifies(commit, s, p)}

Signers == UNION {SignedIn(s) : s \in DOMAIN commit.sigs}

(* An accepted commit was precommitted by more than two thirds of this very
   set: no proposer counts twice, and votes for nil or for another hash count
   for nothing.  Both verifiers that promise "+2/3 of the set" keep it, the one
   that stops early too. *)
TwoThirdsSigned ==
    \/ VerifyCommit(wanted, commit) = "ok"
    \/ VerifyCommitLight(wanted, commit) = "ok"
    => commit.hash = wanted /\ PowerOf(Signers) >= Quorum

(* The light verifier accepts whatever the full one accepts.  What it accepts
   beyond that has, in a slot that it does not reach or does not look at, a wrong
   signature or a flag without a meaning: the full verifier returns an error or
   panics, according to which of them comes first, and never finds too little
   power.  A commit that has passed ValidateBasic, as every one from the wire has,
   makes neither of them panic. *)
LightAgrees ==
    /\ VerifyCommit(wanted, commit) = "ok" => VerifyCommitLight(wanted, commit) = "ok"
    /\ VerifyCommitLight(wanted, commit) = "ok" =>
          VerifyCommit(wanted, commit) \in {"ok", "wrong signature", "panic"}
    /\ ValidateBasic(commit) = "ok" => VerifyCommit(wanted, commit) # "panic"

(* A commit accepted at a trust level carries precommits of proposers of this
   set with more than that share of its power, every one counted once, however
   the commit arranges and repeats addresses. *)
TrustedShareSigned ==
    \A t \in TrustLevels :
        VerifyCommitLightTrusting(commit, t[1], t[2]) = "ok" =>
            PowerOf(Signers) * t[2] > TotalVotingPower * t[1]

(* CommitToVoteSet rebuilds from a fully verified commit whose addresses are
   in place a vote set with the commit's majority; it panics on no such
   commit. *)
VerifiedCommitRebuilds ==
    /\ VerifyCommit(wanted, commit) = "ok"
    /\ \A i \in Vals : ~ Absent(commit.sigs[i]) => commit.sigs[i].addr = i
    => LET r == CommitToVoteSet(commit)
       IN  ~ r.panics /\ r.vs.maj23 = wanted /\ r.vs.done
=============================================================================
