---------------------------- MODULE SnapshotStore ----------------------------
(***************************************************************************)
(* The Store of store.rs as its threads share it, without a lock around    *)
(* the whole.  The updater thread publishes and invalidates; the JSON-RPC  *)
(* thread answers getHealth; any API thread captures the snapshot it       *)
(* serves with read_snapshot.  Each atomic load or store of the code is an *)
(* action of its own.                                                      *)
(***************************************************************************)
EXTENDS Integers, FiniteSetsExt

CONSTANTS
  Key,         \* the pubkeys
  Account,     \* the contents of a table
  NoAccount,   \* the key has no entry
  Source,      \* the Yellowstone sources
  NoSource,    \* the active URL before the first publication
  MaxSlot,     \* the largest slot number
  MayRegress   \* recovery may publish a lower slot than was served before

ASSUME SlotAssumption == MaxSlot \in Nat /\ MayRegress \in BOOLEAN
ASSUME NoSourceAssumption == NoSource \notin Source
ASSUME StepAssumption == {"idle", "flag"} \cap Source = {}

VARIABLES
  current,   \* the served snapshot (ArcSwap)
  ready,     \* AtomicBool
  url,       \* active_yellowstone_url (RwLock)
  writer,    \* the updater thread: outside publish, or its next store
  reader,    \* the API thread inside read_snapshot, and what it captured
  probe,     \* the JSON-RPC thread inside health
  health     \* the last getHealth answer

store == <<current, ready, url, writer>>
readers == <<reader, probe, health>>
vars == <<store, readers>>

Slot == 0 .. MaxSlot
Snapshots == [slot: Slot, accounts: [Key -> Account \cup {NoAccount}]]

None == [none |-> TRUE]

(* The snapshot of a new Store.  No snapshot is published under slot 0.    *)
Empty == [slot |-> 0, accounts |-> [k \in Key |-> NoAccount]]

Healths == [ready: BOOLEAN, source: Source \cup {NoSource}, slot: Slot]

StoreInit ==
  /\ current = Empty
  /\ ready = FALSE
  /\ url = NoSource
  /\ writer = "idle"

Init ==
  /\ StoreInit
  /\ reader = [step |-> "check", snapshot |-> None]
  /\ probe = [step |-> "slot", slot |-> 0, ready |-> FALSE]
  /\ health = None

-----------------------------------------------------------------------------
(* publish: the snapshot, then the URL, then the flag.  While it serves,   *)
(* the updater never publishes a lower slot.                               *)

MayPublish(snapshot) ==
  /\ snapshot.slot > 0
  /\ ready \/ ~ MayRegress => snapshot.slot >= current.slot

(* Mutant: the flag is raised in the place of the snapshot.                *)
PublishFlagFirst(y, snapshot) ==
  /\ writer = "idle"
  /\ snapshot.slot > 0
  /\ ready' = TRUE
  /\ writer' = y
  /\ UNCHANGED <<current, url>>

PublishCurrent(y, snapshot) ==
  /\ writer = "idle"
  /\ MayPublish(snapshot)
  /\ current' = IF current.slot # snapshot.slot \/ current.slot = 0 THEN snapshot ELSE current
  /\ writer' = y
  /\ UNCHANGED <<ready, url>>

(* Mutant: the flag is raised in the place of the URL.                     *)
PublishFlagBeforeUrl ==
  /\ writer \in Source
  /\ ready' = TRUE
  /\ writer' = "flag"
  /\ UNCHANGED <<current, url>>

PublishUrl ==
  /\ writer \in Source
  /\ url' = writer
  /\ writer' = "flag"
  /\ UNCHANGED <<current, ready>>

PublishReady ==
  /\ writer = "flag"
  /\ ready' = TRUE
  /\ writer' = "idle"
  /\ UNCHANGED <<current, url>>

InvalidateReady ==
  /\ writer = "idle"
  /\ ready' = FALSE
  /\ UNCHANGED <<current, url, writer>>

WriterStep ==
  \/ \E y \in Source, s \in Snapshots : PublishCurrent(y, s)
  \/ PublishUrl
  \/ PublishReady
  \/ InvalidateReady

-----------------------------------------------------------------------------
(* read_snapshot, for a gRPC stream or getProgramAccounts.                 *)

ReadChecksReady ==
  /\ reader.step = "check"
  /\ ready
  /\ reader' = [reader EXCEPT !.step = "load"]
  /\ UNCHANGED <<store, probe, health>>

ReadLoadsCurrent ==
  /\ reader.step = "load"
  /\ reader' = [step |-> "check", snapshot |-> current]
  /\ UNCHANGED <<store, probe, health>>

(* health reads the snapshot, then the flag, then the URL.                 *)
HealthLoadsCurrent ==
  /\ probe.step = "slot"
  /\ probe' = [probe EXCEPT !.step = "ready", !.slot = current.slot]
  /\ UNCHANGED <<store, reader, health>>

HealthLoadsReady ==
  /\ probe.step = "ready"
  /\ probe' = [probe EXCEPT !.step = "url", !.ready = ready]
  /\ UNCHANGED <<store, reader, health>>

(* Mutant: the slot after the served one is reported.                      *)
HealthOffByOne ==
  /\ probe.step = "url"
  /\ health' = [ready |-> probe.ready, source |-> url, slot |-> probe.slot + 1]
  /\ probe' = [step |-> "slot", slot |-> 0, ready |-> FALSE]
  /\ UNCHANGED <<store, reader>>

HealthLoadsUrl ==
  /\ probe.step = "url"
  /\ health' = [ready |-> probe.ready, source |-> url, slot |-> probe.slot]
  /\ probe' = [step |-> "slot", slot |-> 0, ready |-> FALSE]
  /\ UNCHANGED <<store, reader>>

Next ==
  \/ WriterStep /\ UNCHANGED readers
  \/ ReadChecksReady
  \/ ReadLoadsCurrent
  \/ HealthLoadsCurrent
  \/ HealthLoadsReady
  \/ HealthLoadsUrl

Spec == Init /\ [][Next]_vars

-----------------------------------------------------------------------------
(* Properties                                                              *)

(* The types of the variables.                                             *)
TypeOK ==
  /\ current \in Snapshots
  /\ ready \in BOOLEAN
  /\ url \in Source \cup {NoSource}
  /\ writer \in Source \cup {"idle", "flag"}
  /\ reader \in [step: {"check", "load"}, snapshot: Snapshots \cup {None}]
  /\ probe \in [step: {"slot", "ready", "url"}, slot: Slot, ready: BOOLEAN]
  /\ health \in Healths \cup {None}

(* read_snapshot never hands out the empty snapshot a store starts with,   *)
(* although it reads the flag and the snapshot separately and the flag may *)
(* change in between.                                                      *)
ReadIsPublished == reader.snapshot # None => reader.snapshot.slot > 0

(* A health answer that says ready names the source that serves, whatever  *)
(* publish and invalidate did between its reads.                           *)
HealthNamesSource == health # None => (health.ready => health.source # NoSource)

(* The Store as its writer knows it: the record that AltState works on.    *)
Atomic == INSTANCE AltState WITH Version <- {}

Record ==
  [ slot     |-> current.slot,
    accounts |-> current.accounts,
    ready    |-> ready \/ writer # "idle",
    source   |-> IF writer \in Source THEN writer ELSE url ]

RecordStep ==
  \/ Record' = Atomic!Invalidate(Record)
  \/ \E y \in Source, s \in Snapshots :
       MayPublish(s) /\ Record' = Atomic!Publish(Record, y, s.slot, s.accounts)

(* The three stores of publish are one Publish of the record, whatever     *)
(* they are interleaved with, and nothing else changes it but Invalidate.  *)
PublishIsAtomic == Record = Atomic!NewStore /\ [][RecordStep]_Record

-----------------------------------------------------------------------------
(* The inductive strengthening: a snapshot has been published wherever the *)
(* flag is up, is about to go up, or has been seen up by a reader; and a   *)
(* source has been named wherever the flag is up or its seen value is.     *)
Inv ==
  /\ TypeOK
  /\ ready \/ writer # "idle" \/ reader.step = "load" => current.slot > 0
  /\ ready \/ writer = "flag" => url # NoSource
  /\ probe.step = "url" /\ probe.ready => url # NoSource
  /\ ReadIsPublished
  /\ HealthNamesSource
=============================================================================
