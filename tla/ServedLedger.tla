---------------------------- MODULE ServedLedger ----------------------------
(***************************************************************************)
(* What a copy of the ledger promises its readers, however it is kept: the *)
(* service to those who ask it for a snapshot, the client library to the   *)
(* program that uses it.  While there is something to read, each table is  *)
(* as of the stated slot or a later one, the stated slot does not go back, *)
(* and, if the copy began from one slot's tables, neither does any table.  *)
(* How soon anything is served, and why it is withdrawn, is left open.     *)
(***************************************************************************)
EXTENDS Chain

VARIABLES
  mixed,   \* the copy may have begun from tables of several slots
  served   \* what there is to read, or None

vars == <<ledger, tip, mixed, served>>

(* A view states its slot; its tables are of that slot up to `until'.      *)
Views == [slot: 1 .. MaxSlot, until: 1 .. MaxSlot, tables: [Key -> Contents]]

None == [none |-> TRUE]

Span(v) == { d \in v.slot .. v.until : d <= tip }

Promise(v) == v.slot <= tip /\ AsOf(v.tables, Span(v))

(* No table of w is as of an earlier slot than that of v.                  *)
NoTableGoesBack(v, w) ==
  \A k \in Key : \E d \in Span(w) : \E b \in Span(v) :
    b <= d /\ v.tables[k] = ledger[b][k] /\ w.tables[k] = ledger[d][k]

Init ==
  /\ ChainInit
  /\ mixed \in BOOLEAN
  /\ served = None

Confirm ==
  /\ ConfirmSlot
  /\ UNCHANGED <<mixed, served>>

Serve(v) ==
  /\ Promise(v)
  /\ served # None =>
       /\ served.slot <= v.slot
       /\ mixed \/ NoTableGoesBack(served, v)
  /\ served' = v
  /\ UNCHANGED <<ledger, tip, mixed>>

Withdraw ==
  /\ served' = None
  /\ UNCHANGED <<ledger, tip, mixed>>

Next ==
  \/ Confirm
  \/ \E v \in Views : Serve(v)
  \/ Withdraw

Spec == Init /\ [][Next]_vars
=============================================================================
