--------------------------- MODULE MCCommitVerify ---------------------------
(***************************************************************************)
(* An instance of CommitVerify: three proposers with powers 3, 2, 1, total *)
(* 6, so that two thirds of the total are a whole number, reached exactly  *)
(* by proposers 0 and 2; lists one signature short and one too long.       *)
(***************************************************************************)
EXTENDS CommitVerify

CONSTANTS a, b

MCPower == [i \in 0 .. 2 |-> 3 - i]

cs(flag, addr, sig) == [flag |-> flag, addr |-> addr, time |-> 1, sig |-> sig]

by(p, k) == Sign(p, "precommit", k, 1)

(* What slot i may hold: nothing; its own proposer's precommit for a, for b or
   for nil, properly flagged and not; a prevote; another's precommit under
   either address; the right signature under a stranger's address; garbage. *)
Slot(i) ==
    LET j == (i + 1) % 3
        own == i % 3
    IN  {NewCommitSigAbsent,
         cs("commit", own, by(own, a)), cs("commit", own, by(own, b)),
         cs("nil", own, by(own, NilBlock)), cs("nil", own, by(own, a)),
         cs("unknown", own, by(own, a)),
         cs("commit", own, Sign(own, "prevote", a, 1)),
         cs("commit", j, by(j, a)), cs("commit", own, by(j, a)),
         cs("commit", 7, by(own, a)), cs("commit", own, NoSig)}

Lists(n) == {f \in [0 .. n - 1 -> UNION {Slot(i) : i \in 0 .. 2}] :
                \A i \in 0 .. n - 1 : f[i] \in Slot(i)}

(* Longer lists: precommits only, so that addresses repeat. *)
LongLists == [0 .. 3 -> {cs("commit", p, by(p, a)) : p \in Vals}
                            \cup {NewCommitSigAbsent}]

MCCommits ==
    {[hash |-> k, sigs |-> l] : k \in {a}, l \in Lists(3) \cup Lists(2) \cup LongLists}

MCTrustLevels == {<<1, 3>>, <<2, 3>>, <<1, 2>>, <<1, 0>>}
=============================================================================
