-------------------------------- MODULE Chain --------------------------------
(***************************************************************************)
(* The chain that Yellowstone streams and the RPC answers from, outside    *)
(* the program: a sequence of confirmed slots and the tables as of each.   *)
(* A table written at slot s has the content s from then on, so that old   *)
(* content is recognised wherever it turns up.                             *)
(***************************************************************************)
EXTENDS Integers

CONSTANTS
  Key,        \* the pubkeys
  NoAccount,  \* the key has no table
  MaxSlot     \* bound: the last slot

VARIABLES
  ledger,     \* the tables as of each confirmed slot
  tip         \* the newest confirmed slot

Contents == (1 .. MaxSlot) \cup {NoAccount}

(* Before slot 1 there are no tables.                                      *)
ChainInit ==
  /\ tip = 1
  /\ ledger \in { [s \in 0 .. MaxSlot |-> IF s = 0 THEN [k \in Key |-> NoAccount] ELSE first] :
                    first \in [Key -> {1, NoAccount}] }

(* A slot is confirmed in which some tables are written and some closed.   *)
ConfirmSlot ==
  /\ tip < MaxSlot
  /\ tip' = tip + 1
  /\ \E next \in [Key -> Contents] :
       /\ \A k \in Key : next[k] \in {ledger[tip][k], tip + 1, NoAccount}
       /\ ledger' = [s \in 0 .. MaxSlot |-> IF s <= tip THEN ledger[s] ELSE next]

(* The keys written at a slot.                                             *)
Changed(s) == { k \in Key : ledger[s][k] # ledger[s - 1][k] }

(* Each of the tables is as of some slot of S.                             *)
AsOf(tables, S) == \A k \in Key : \E d \in S : tables[k] = ledger[d][k]
=============================================================================
