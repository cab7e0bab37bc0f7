------------------------ MODULE SnapshotStoreProofs ------------------------
(***************************************************************************)
(* What the order of the loads and stores in publish, read_snapshot and    *)
(* health guarantees, for every set of keys, accounts, slots and sources.  *)
(***************************************************************************)
EXTENDS SnapshotStore, TLAPS

(* A new Store, which has published nothing, satisfies the invariant.      *)
LEMMA InitInv == Init => Inv
<1> SUFFICES ASSUME Init PROVE Inv
  OBVIOUS
<1>1. Empty \in Snapshots
  BY SlotAssumption DEF Empty, Snapshots, Slot
<1>2. 0 \in Slot
  BY SlotAssumption DEF Slot
<1>3. TypeOK
  BY <1>1, <1>2 DEF Init, StoreInit, TypeOK
<1> QED BY <1>3 DEF Init, StoreInit, Inv, ReadIsPublished, HealthNamesSource

(* The steps of publish and invalidate.                                    *)
LEMMA WriterInv ==
  ASSUME Inv, WriterStep, UNCHANGED readers
  PROVE  Inv'
<1> USE DEF Inv, TypeOK, readers, ReadIsPublished, HealthNamesSource
<1>1. ASSUME NEW y \in Source, NEW s \in Snapshots, PublishCurrent(y, s)
      PROVE  Inv'
  <2>1. s.slot > 0 /\ current' \in {current, s}
    BY <1>1 DEF PublishCurrent, MayPublish
  <2>2. current'.slot > 0
    <3>1. s.slot \in Int /\ current.slot \in Int /\ current.slot >= 0
      BY SlotAssumption DEF Snapshots, Slot
    <3> QED BY <1>1, <3>1 DEF PublishCurrent, MayPublish
  <2>3. writer' # "flag"
    BY <1>1, StepAssumption DEF PublishCurrent
  <2>4. TypeOK'
    BY <1>1, <2>1 DEF PublishCurrent
  <2> QED BY <1>1, <2>2, <2>3, <2>4 DEF PublishCurrent
<1>2. ASSUME PublishUrl
      PROVE  Inv'
  <2>1. url' # NoSource /\ current' = current
    BY <1>2, NoSourceAssumption DEF PublishUrl
  <2>2. current.slot > 0
    BY <1>2, StepAssumption DEF PublishUrl
  <2> QED BY <1>2, <2>1, <2>2 DEF PublishUrl
<1>3. ASSUME PublishReady
      PROVE  Inv'
  BY <1>3 DEF PublishReady
<1>4. ASSUME InvalidateReady
      PROVE  Inv'
  BY <1>4 DEF InvalidateReady
<1> QED BY <1>1, <1>2, <1>3, <1>4 DEF WriterStep

(* Every step keeps the invariant.                                         *)
LEMMA InvStep ==
  ASSUME Inv, [Next]_vars
  PROVE  Inv'
<1> USE DEF Inv, TypeOK, store, ReadIsPublished, HealthNamesSource
<1>1. ASSUME WriterStep, UNCHANGED readers
      PROVE  Inv'
  BY <1>1, WriterInv
<1>2. ASSUME ReadChecksReady
      PROVE  Inv'
  BY <1>2 DEF ReadChecksReady
<1>3. ASSUME ReadLoadsCurrent
      PROVE  Inv'
  BY <1>3 DEF ReadLoadsCurrent
<1>4. ASSUME HealthLoadsCurrent
      PROVE  Inv'
  BY <1>4 DEF HealthLoadsCurrent, Snapshots
<1>5. ASSUME HealthLoadsReady
      PROVE  Inv'
  BY <1>5 DEF HealthLoadsReady
<1>6. ASSUME HealthLoadsUrl
      PROVE  Inv'
  <2>1. 0 \in Slot
    BY SlotAssumption DEF Slot
  <2> QED BY <1>6, <2>1 DEF HealthLoadsUrl, Healths
<1>7. ASSUME UNCHANGED vars
      PROVE  Inv'
  BY <1>7 DEF vars, readers
<1> QED BY <1>1, <1>2, <1>3, <1>4, <1>5, <1>6, <1>7 DEF Next

(* The invariant holds between any two loads or stores of the threads.     *)
THEOREM InvHolds == Spec => []Inv
<1>1. Init => Inv
  BY InitInv
<1>2. Inv /\ [Next]_vars => Inv'
  BY InvStep
<1> QED BY <1>1, <1>2, PTL DEF Spec

(* The variables of the store keep their types.                            *)
THEOREM TypeCorrect == Spec => []TypeOK
<1>1. Inv => TypeOK
  BY DEF Inv
<1> QED BY <1>1, InvHolds, PTL

(* No reader is ever handed the empty snapshot of a store that has         *)
(* published nothing.                                                      *)
THEOREM OnlyPublishedIsRead == Spec => []ReadIsPublished
<1>1. Inv => ReadIsPublished
  BY DEF Inv
<1> QED BY <1>1, InvHolds, PTL

(* A health answer that says ready names a source.                         *)
THEOREM ReadyHealthNamesSource == Spec => []HealthNamesSource
<1>1. Inv => HealthNamesSource
  BY DEF Inv
<1> QED BY <1>1, InvHolds, PTL

(* The first store of publish makes the whole change to the record; the    *)
(* other two bring the URL and the flag up to it.                          *)
LEMMA WriterKeepsRecord ==
  ASSUME Inv, WriterStep
  PROVE  RecordStep \/ UNCHANGED Record
<1>1. "idle" \notin Source /\ "flag" \notin Source
  BY StepAssumption
<1>2. ASSUME NEW y \in Source, NEW s \in Snapshots, PublishCurrent(y, s)
      PROVE  MayPublish(s) /\ Record' = Atomic!Publish(Record, y, s.slot, s.accounts)
  <2>1. /\ writer' = y /\ y # "idle"
        /\ current' = IF current.slot # s.slot \/ current.slot = 0 THEN s ELSE current
    BY <1>1, <1>2 DEF PublishCurrent
  <2>2. /\ current'.slot = s.slot
        /\ current'.accounts = IF current.slot # s.slot \/ current.slot = 0
                               THEN s.accounts ELSE current.accounts
    BY <2>1
  <2>3. Record' = [slot |-> current'.slot, accounts |-> current'.accounts, ready |-> TRUE, source |-> y]
    BY <2>1 DEF Record
  <2> QED BY <1>2, <2>2, <2>3 DEF PublishCurrent, Record, Atomic!Publish
<1>3. ASSUME PublishUrl
      PROVE  UNCHANGED Record
  BY <1>1, <1>3 DEF PublishUrl, Record
<1>4. ASSUME PublishReady
      PROVE  UNCHANGED Record
  BY <1>1, <1>4 DEF PublishReady, Record
<1>5. ASSUME InvalidateReady
      PROVE  Record' = Atomic!Invalidate(Record)
  <2>1. writer = "idle" /\ writer' = "idle" /\ ready \in BOOLEAN /\ ready' = FALSE
    BY <1>5 DEF InvalidateReady, Inv, TypeOK
  <2>2. (ready' \/ writer' # "idle") = FALSE
    BY <2>1
  <2>3. Record' = [slot |-> current.slot, accounts |-> current.accounts, ready |-> FALSE, source |-> url]
    BY <1>1, <1>5, <2>1, <2>2 DEF InvalidateReady, Record
  <2>4. PICK r : r = (ready \/ writer # "idle")
    OBVIOUS
  <2>5. Record = [slot |-> current.slot, accounts |-> current.accounts, ready |-> r, source |-> url]
    BY <1>1, <2>1, <2>4 DEF Record
  <2>6. PICK off : off = FALSE
    OBVIOUS
  <2>7. [Record EXCEPT !.ready = off] =
          [slot |-> current.slot, accounts |-> current.accounts, ready |-> off, source |-> url]
    BY <2>5
  <2> QED BY <2>3, <2>6, <2>7, Zenon DEF Atomic!Invalidate
<1> QED BY <1>2, <1>3, <1>4, <1>5 DEF WriterStep, RecordStep

LEMMA RecordInit == StoreInit => Record = Atomic!NewStore
<1> SUFFICES ASSUME StoreInit PROVE Record = Atomic!NewStore
  OBVIOUS
<1>1. writer = "idle" /\ writer \notin Source /\ (ready \/ writer # "idle") = FALSE
  BY StepAssumption DEF StoreInit
<1> QED BY <1>1 DEF StoreInit, Record, Empty, Atomic!NewStore

(* publish, three stores that readers come between, is to the updater      *)
(* thread the one step that the models of that thread take it for.         *)
THEOREM PublishRefines == Spec => PublishIsAtomic
<1>1. Init => Record = Atomic!NewStore
  BY RecordInit DEF Init
<1>2. Inv /\ [Next]_vars => [RecordStep]_Record
  <2>1. ASSUME UNCHANGED store
        PROVE  UNCHANGED Record
    BY <2>1 DEF store, Record
  <2>2. ASSUME Next
        PROVE  WriterStep \/ UNCHANGED store
    BY <2>2 DEF Next, ReadChecksReady, ReadLoadsCurrent, HealthLoadsCurrent, HealthLoadsReady, HealthLoadsUrl
  <2> QED BY <2>1, <2>2, WriterKeepsRecord DEF vars
<1> QED BY <1>1, <1>2, InvHolds, PTL DEF Spec, PublishIsAtomic
=============================================================================
