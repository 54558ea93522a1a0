----------------------------- MODULE MCInstance -----------------------------
(***************************************************************************)
(* An instance of Instance: calls as the proposer and as a mere voter, one *)
(* with a set the instance is not in, and one without a set.               *)
(***************************************************************************)
EXTENDS Instance

CONSTANTS leading, following, stranger, unset, other, mine, others, stale

MCPropSet ==
    [c \in Calls |->
        CASE c = leading   -> [members |-> {Self}, proposer |-> Self]
          [] c = following -> [members |-> {Self, other}, proposer |-> other]
          [] c = stranger  -> [members |-> {other}, proposer |-> other]
          [] c = unset     -> None]

MCProp == [c \in Calls |-> mine]

message(type, from, block, id) ==
    [type |-> type, from |-> from, block |-> block, id |-> id]

(* A proposal of the other's; and a proposal and a prevote that the instance has
   signed before: for the round it leads a surplus proposal, and in each a vote
   that comes before its own or after. *)
MCMessages ==
    {message("proposal", other, others, 1)}
    \cup {message(t, Self, stale, 2) : t \in {"proposal", "prevote"}}
=============================================================================
