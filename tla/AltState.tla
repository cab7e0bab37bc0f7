------------------------------ MODULE AltState ------------------------------
(***************************************************************************)
(* The in-memory ALT state of the service: the StateUpdater object of      *)
(* state_updater.rs and the publishing half of the Store of store.rs, as   *)
(* operators on records.  One record is one StateUpdater object; the       *)
(* service builds a second one while it refreshes, so the methods take the *)
(* object as an argument and return its new value.                         *)
(*                                                                         *)
(* Slots and write versions are u64 in the code and are only compared, so  *)
(* MaxSlot and Version stand for that range.  A pubkey and the content of  *)
(* an account are opaque.                                                  *)
(***************************************************************************)
EXTENDS Integers, Sequences, FiniteSetsExt

CONSTANTS
  Key,        \* the pubkeys of lookup tables
  Account,    \* the possible contents of a table (Arc<Account>)
  NoAccount,  \* None: the account is absent or is to be removed
  Source,     \* the configured Yellowstone sources
  NoSource,   \* the active URL before the first publication
  MaxSlot,    \* the largest slot number
  Version     \* the write versions a validator assigns within a slot

ASSUME NoAccountAssumption == NoAccount \notin Account
ASSUME NoSourceAssumption == NoSource \notin Source
ASSUME MaxSlotAssumption == MaxSlot \in Nat
ASSUME VersionAssumption == Version \subseteq Nat

Slot == 0 .. MaxSlot
MaybeAccount == Account \cup {NoAccount}
Accounts == [Key -> MaybeAccount]

(***************************************************************************)
(* A Mutation of the code holds the key and the account.  The slot and the *)
(* version of the write it came from are kept as history: no method below  *)
(* reads them.                                                             *)
(***************************************************************************)
Write == [key: Key, slot: Slot, version: Version, account: MaybeAccount]

(* A map without an entry for a key holds this pair, below every version.  *)
Unversioned == [slot |-> -1, version |-> -1]

Versions ==
  [Key -> [slot: Slot, version: Version] \cup {Unversioned}]

StateUpdaters ==
  [ bootstrapSlot: Slot,
    confirmedSlot: Slot,
    source:        Source \cup {NoSource},
    accounts:      Accounts,
    pending:       [Slot -> Seq(Write)],
    versions:      Versions,
    recovering:    BOOLEAN ]

Stores ==
  [ slot:     Slot,
    accounts: Accounts,
    ready:    BOOLEAN,
    source:   Source \cup {NoSource} ]

(* What fetch_full_alt_state returns: a context slot and the accounts.     *)
FetchedAltStates == [slot: Slot, accounts: Accounts]

-----------------------------------------------------------------------------
(* The order of (slot, write_version) pairs: lexicographic.                *)
Older(a, b) ==
  \/ a.slot < b.slot
  \/ a.slot = b.slot /\ a.version < b.version

-----------------------------------------------------------------------------
(* Store                                                                   *)

NewStore ==
  [ slot     |-> 0,
    accounts |-> [k \in Key |-> NoAccount],
    ready    |-> FALSE,
    source   |-> NoSource ]

(* Mutant: the store stays ready.                                          *)
InvalidateForgotten(st) == st

Invalidate(st) == [st EXCEPT !.ready = FALSE]

(* A snapshot replaces the served one only when it has another slot: two   *)
(* different maps are never served under one slot number in a row.         *)
Publish(st, source, slot, accounts) ==
  [ slot     |-> slot,
    accounts |-> IF st.slot # slot \/ st.slot = 0 THEN accounts ELSE st.accounts,
    ready    |-> TRUE,
    source   |-> source ]

-----------------------------------------------------------------------------
(* StateUpdater                                                            *)

NewUpdater ==
  [ bootstrapSlot |-> 0,
    confirmedSlot |-> 0,
    source        |-> NoSource,
    accounts      |-> [k \in Key |-> NoAccount],
    pending       |-> [s \in Slot |-> << >>],
    versions      |-> [k \in Key |-> Unversioned],
    recovering    |-> TRUE ]

FromFetchedAltState(source, fetched) ==
  [ bootstrapSlot |-> fetched.slot,
    confirmedSlot |-> fetched.slot,
    source        |-> source,
    accounts      |-> fetched.accounts,
    pending       |-> [s \in Slot |-> << >>],
    versions      |-> [k \in Key |-> Unversioned],
    recovering    |-> TRUE ]

(* Mutant: the version of the last write of the key is not looked at.      *)
AcceptsAnyVersion(u, w) == w.slot >= u.bootstrapSlot

(* queue drops writes older than the fetched state and writes that are not *)
(* newer than the last one it took for the key.                            *)
Accepts(u, w) ==
  /\ w.slot >= u.bootstrapSlot
  /\ Older(u.versions[w.key], w)

(* Mutant: the version of the staged write is not remembered.              *)
QueueForgetsVersion(u, w) ==
  IF Accepts(u, w) THEN [u EXCEPT !.pending[w.slot] = Append(@, w)] ELSE u

Queue(u, w) ==
  IF Accepts(u, w)
  THEN [u EXCEPT
          !.versions[w.key] = [slot |-> w.slot, version |-> w.version],
          !.pending[w.slot] = Append(@, w)]
  ELSE u

(***************************************************************************)
(* apply_pending_through walks the staged slots up to `slot' in ascending  *)
(* order and each slot's mutations in arrival order, inserting or removing *)
(* the key.  What is left for a key is its last mutation in that order:    *)
(* the last one of the highest slot that has any.                          *)
(***************************************************************************)
StagedSlots(u, k, slot) ==
  { s \in Slot : s <= slot /\ \E i \in DOMAIN u.pending[s] : u.pending[s][i].key = k }

PositionsOf(q, k) == { i \in DOMAIN q : q[i].key = k }

(* Mutant: the first mutation of a slot wins.                              *)
FirstMutation(u, k, slot) ==
  LET q == u.pending[Max(StagedSlots(u, k, slot))]
  IN  q[Min(PositionsOf(q, k))]

LastMutation(u, k, slot) ==
  LET q == u.pending[Max(StagedSlots(u, k, slot))]
  IN  q[Max(PositionsOf(q, k))]

ApplyPendingThrough(u, slot) ==
  [u EXCEPT
     !.accounts = [k \in Key |-> IF StagedSlots(u, k, slot) = {}
                                 THEN u.accounts[k]
                                 ELSE LastMutation(u, k, slot).account],
     !.pending  = [s \in Slot |-> IF s <= slot THEN << >> ELSE u.pending[s]]]

(* Mutant: the slot after the confirmed one is recorded.                   *)
ConfirmOffByOne(u, slot) ==
  IF slot <= u.confirmedSlot
  THEN u
  ELSE [ApplyPendingThrough(u, slot) EXCEPT !.confirmedSlot = slot + 1]

(* Mutant: an old slot is confirmed again.                                 *)
ConfirmAnySlot(u, slot) == [ApplyPendingThrough(u, slot) EXCEPT !.confirmedSlot = slot]

(* confirm changes the object and, unless it is recovering, the store.     *)
Confirm(u, slot) ==
  IF slot <= u.confirmedSlot
  THEN u
  ELSE [ApplyPendingThrough(u, slot) EXCEPT !.confirmedSlot = slot]

(* Mutant: a recovering object publishes too.                              *)
ConfirmStoreAlways(u, st, slot) ==
  IF slot <= u.confirmedSlot
  THEN st
  ELSE Publish(st, u.source, slot, ApplyPendingThrough(u, slot).accounts)

(* Mutant: the slot is published before its mutations are applied.         *)
ConfirmStoreUnapplied(u, st, slot) ==
  IF slot <= u.confirmedSlot \/ u.recovering
  THEN st
  ELSE Publish(st, u.source, slot, u.accounts)

ConfirmStore(u, st, slot) ==
  IF slot <= u.confirmedSlot \/ u.recovering
  THEN st
  ELSE Publish(st, u.source, slot, ApplyPendingThrough(u, slot).accounts)

(* Mutant: everything staged is applied, confirmed or not.                 *)
FinishRecoveryAppliesAll(u) == [ApplyPendingThrough(u, MaxSlot) EXCEPT !.recovering = FALSE]

FinishRecovery(u) ==
  [ApplyPendingThrough(u, u.confirmedSlot) EXCEPT !.recovering = FALSE]

FinishRecoveryStore(u, st) ==
  Publish(st, u.source, u.confirmedSlot,
          ApplyPendingThrough(u, u.confirmedSlot).accounts)
=============================================================================
