--------------------------- MODULE ConfirmedView ---------------------------
(***************************************************************************)
(* What the ALT state promises its readers, apart from how it keeps it:    *)
(* the visible map is a fetched base overlaid, key by key, with the newest *)
(* write among those made visible; writes become visible only all at once, *)
(* every accepted write up to a confirmed slot; the slot never goes back   *)
(* until a newly fetched base replaces everything.                         *)
(***************************************************************************)
EXTENDS AltState

VARIABLES
  base,   \* the fetched state the view is built on
  log,    \* the writes accepted since then
  shown,  \* those that are visible
  slot,   \* the confirmed slot of the view
  view    \* the visible accounts

vars == <<base, log, shown, slot, view>>

(* The map `accounts' is `from' overlaid with the newest of `writes'.      *)
IsView(accounts, from, writes) ==
  /\ \A k \in Key :
       (\A w \in writes : w.key # k) => accounts[k] = from[k]
  /\ \A w \in writes :
       (\A v \in writes : v.key = w.key => ~ Older(w, v))
          => accounts[w.key] = w.account

Init ==
  /\ base = [slot |-> 0, accounts |-> [k \in Key |-> NoAccount]]
  /\ log = {}
  /\ shown = {}
  /\ slot = 0
  /\ view = base.accounts

Accept(w) ==
  /\ w.slot >= base.slot
  /\ \A v \in log : v.key = w.key => Older(v, w)
  /\ log' = log \cup {w}
  /\ UNCHANGED <<base, shown, slot, view>>

Reveal(s) ==
  /\ s >= slot
  /\ slot' = s
  /\ shown' = { w \in log : w.slot <= s }
  /\ view' \in Accounts
  /\ IsView(view', base.accounts, shown')
  /\ UNCHANGED <<base, log>>

Rebase(b) ==
  /\ base' = b
  /\ log' = {}
  /\ shown' = {}
  /\ slot' = b.slot
  /\ view' = b.accounts

Next ==
  \/ \E w \in Write : Accept(w)
  \/ \E s \in Slot : Reveal(s)
  \/ \E b \in FetchedAltStates : Rebase(b)

Spec == Init /\ [][Next]_vars
=============================================================================
