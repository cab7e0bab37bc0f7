--------------------------- MODULE AltStateProofs ---------------------------
(***************************************************************************)
(* What the methods of the StateUpdater object and of the Store leave in   *)
(* each of their fields: facts about the operators of AltState, used       *)
(* wherever they are applied, by the updater alone or by the service.      *)
(***************************************************************************)
EXTENDS AltState, DataLemmas

(* The mutation at position i of slot t is the last one of key k in        *)
(* application order among those staged up to slot s.                      *)
IsLastStaged(u, k, s, t, i) ==
  /\ LastMutation(u, k, s) = u.pending[t][i]
  /\ u.pending[t][i].key = k
  /\ t <= s
  /\ \A r \in Slot : \A j \in DOMAIN u.pending[r] :
       r <= s /\ u.pending[r][j].key = k => r < t \/ (r = t /\ j <= i)

(* LastMutation picks the last mutation of a key in application order.     *)
LEMMA LastMutationIsLast ==
  ASSUME NEW u \in StateUpdaters, NEW k, NEW s \in Slot, StagedSlots(u, k, s) # {}
  PROVE  \E t \in Slot : \E i \in DOMAIN u.pending[t] : IsLastStaged(u, k, s, t, i)
<1> DEFINE S == StagedSlots(u, k, s)
           t == Max(S)
           q == u.pending[t]
           P == PositionsOf(q, k)
           i == Max(P)
<1>1. t \in S /\ \A n \in S : n <= t
  <2>1. S \in SUBSET (0 .. MaxSlot)
    BY DEF StagedSlots, Slot
  <2> QED BY <2>1, MaxIsUpperBound, MaxSlotAssumption
<1>2. t \in Slot /\ t <= s /\ \E j \in DOMAIN q : q[j].key = k
  BY <1>1 DEF StagedSlots
<1>3. q \in Seq(Write)
  BY <1>2 DEF StateUpdaters
<1>4. P \in SUBSET (0 .. Len(q)) /\ Len(q) \in Nat /\ P # {}
  BY <1>2, <1>3 DEF PositionsOf
<1>5. i \in P /\ \A j \in P : j <= i
  BY <1>4, MaxIsUpperBound
<1>6. i \in DOMAIN q /\ q[i].key = k
  BY <1>5 DEF PositionsOf
<1>7. LastMutation(u, k, s) = q[i]
  BY DEF LastMutation
<1>8. ASSUME NEW r \in Slot, NEW j \in DOMAIN u.pending[r],
             r <= s, u.pending[r][j].key = k
      PROVE  r < t \/ (r = t /\ j <= i)
  <2>1. r \in S
    BY <1>8 DEF StagedSlots
  <2>2. r <= t
    BY <2>1, <1>1
  <2>3. CASE r = t
    BY <2>3, <1>8, <1>5 DEF PositionsOf
  <2>4. CASE r # t
    BY <2>2, <2>4, <1>2, MaxSlotAssumption DEF Slot
  <2> QED BY <2>3, <2>4
<1> HIDE DEF i, P, q, t, S
<1>9. /\ LastMutation(u, k, s) = u.pending[t][i]
      /\ u.pending[t][i].key = k
      /\ i \in DOMAIN u.pending[t]
  BY <1>6, <1>7 DEF q
<1> QED BY <1>2, <1>8, <1>9 DEF IsLastStaged

(* Applying staged mutations keeps the object well formed.                 *)
LEMMA ApplyType ==
  ASSUME NEW u \in StateUpdaters, NEW s \in Slot
  PROVE  /\ ApplyPendingThrough(u, s) \in StateUpdaters
         /\ ApplyPendingThrough(u, s).accounts \in Accounts
<1>1. ASSUME NEW k \in Key, StagedSlots(u, k, s) # {}
      PROVE  LastMutation(u, k, s).account \in MaybeAccount
  <2>1. PICK t \in Slot :
          \E i \in DOMAIN u.pending[t] : LastMutation(u, k, s) = u.pending[t][i]
    BY <1>1, LastMutationIsLast DEF IsLastStaged
  <2>2. u.pending[t] \in Seq(Write)
    BY DEF StateUpdaters
  <2>3. \A i \in DOMAIN u.pending[t] : u.pending[t][i] \in Write
    BY <2>2
  <2> QED BY <2>1, <2>3 DEF Write
<1> DEFINE a == [k \in Key |-> IF StagedSlots(u, k, s) = {}
                               THEN u.accounts[k]
                               ELSE LastMutation(u, k, s).account]
           p == [t \in Slot |-> IF t <= s THEN << >> ELSE u.pending[t]]
<1>2. a \in Accounts
  BY <1>1 DEF StateUpdaters, Accounts
<1>3. p \in [Slot -> Seq(Write)]
  BY DEF StateUpdaters
<1>4. ApplyPendingThrough(u, s) = [u EXCEPT !.accounts = a, !.pending = p]
  BY DEF ApplyPendingThrough
<1> HIDE DEF a, p
<1>5. ApplyPendingThrough(u, s).accounts = a
  BY <1>4 DEF StateUpdaters
<1> QED BY <1>2, <1>3, <1>4, <1>5 DEF StateUpdaters

(* What the steps of the object change, field by field.                    *)
LEMMA ApplyFields ==
  ASSUME NEW u \in StateUpdaters, NEW s \in Slot
  PROVE  LET v == ApplyPendingThrough(u, s)
         IN  /\ v.bootstrapSlot = u.bootstrapSlot
             /\ v.confirmedSlot = u.confirmedSlot
             /\ v.source = u.source
             /\ v.versions = u.versions
             /\ v.recovering = u.recovering
             /\ v.pending = [t \in Slot |-> IF t <= s THEN << >> ELSE u.pending[t]]
             /\ \A k \in Key :
                  v.accounts[k] = IF StagedSlots(u, k, s) = {}
                                  THEN u.accounts[k]
                                  ELSE LastMutation(u, k, s).account
BY DEF ApplyPendingThrough, StateUpdaters

(* What confirm leaves in each field of the object.                        *)
LEMMA ConfirmFields ==
  ASSUME NEW u \in StateUpdaters, NEW s \in Slot, s > u.confirmedSlot
  PROVE  /\ Confirm(u, s) \in StateUpdaters
         /\ Confirm(u, s).confirmedSlot = s
         /\ Confirm(u, s).accounts = ApplyPendingThrough(u, s).accounts
         /\ Confirm(u, s).pending = ApplyPendingThrough(u, s).pending
         /\ Confirm(u, s).versions = u.versions
         /\ Confirm(u, s).bootstrapSlot = u.bootstrapSlot
         /\ Confirm(u, s).recovering = u.recovering
<1> DEFINE v == ApplyPendingThrough(u, s)
<1>1. v \in StateUpdaters
  BY ApplyType
<1>2. Confirm(u, s) = [v EXCEPT !.confirmedSlot = s]
  BY MaxSlotAssumption DEF Confirm, StateUpdaters, Slot
<1>3. /\ v.versions = u.versions
      /\ v.bootstrapSlot = u.bootstrapSlot
      /\ v.recovering = u.recovering
  BY ApplyFields
<1> HIDE DEF v
<1>4. /\ Confirm(u, s) \in StateUpdaters
      /\ Confirm(u, s).confirmedSlot = s
      /\ Confirm(u, s).accounts = v.accounts
      /\ Confirm(u, s).pending = v.pending
      /\ Confirm(u, s).versions = v.versions
      /\ Confirm(u, s).bootstrapSlot = v.bootstrapSlot
      /\ Confirm(u, s).recovering = v.recovering
  BY <1>1, <1>2 DEF StateUpdaters
<1> QED BY <1>3, <1>4 DEF v

(* What finish_recovery leaves in each field of the object.                *)
LEMMA FinishFields ==
  ASSUME NEW u \in StateUpdaters
  PROVE  LET s == u.confirmedSlot
             f == FinishRecovery(u)
         IN  /\ s \in Slot
             /\ f \in StateUpdaters
             /\ f.confirmedSlot = s
             /\ f.accounts = ApplyPendingThrough(u, s).accounts
             /\ f.pending = ApplyPendingThrough(u, s).pending
             /\ f.versions = u.versions
             /\ f.bootstrapSlot = u.bootstrapSlot
             /\ f.recovering = FALSE
<1> DEFINE s == u.confirmedSlot
           v == ApplyPendingThrough(u, s)
<1>1. s \in Slot
  BY DEF StateUpdaters
<1>2. v \in StateUpdaters
  BY <1>1, ApplyType
<1>3. FinishRecovery(u) = [v EXCEPT !.recovering = FALSE]
  BY DEF FinishRecovery
<1>4. /\ v.versions = u.versions
      /\ v.bootstrapSlot = u.bootstrapSlot
      /\ v.confirmedSlot = s
  BY <1>1, ApplyFields
<1> HIDE DEF v
<1>5. /\ FinishRecovery(u) \in StateUpdaters
      /\ FinishRecovery(u).confirmedSlot = v.confirmedSlot
      /\ FinishRecovery(u).accounts = v.accounts
      /\ FinishRecovery(u).pending = v.pending
      /\ FinishRecovery(u).versions = v.versions
      /\ FinishRecovery(u).bootstrapSlot = v.bootstrapSlot
      /\ FinishRecovery(u).recovering = FALSE
  BY <1>2, <1>3 DEF StateUpdaters
<1> QED BY <1>1, <1>4, <1>5 DEF v

(* What queue leaves in each field of the object.                          *)
LEMMA QueueFields ==
  ASSUME NEW u \in StateUpdaters, NEW w \in Write, Accepts(u, w)
  PROVE  /\ Queue(u, w) \in StateUpdaters
         /\ Queue(u, w).bootstrapSlot = u.bootstrapSlot
         /\ Queue(u, w).confirmedSlot = u.confirmedSlot
         /\ Queue(u, w).accounts = u.accounts
         /\ Queue(u, w).recovering = u.recovering
         /\ Queue(u, w).pending =
              [u.pending EXCEPT ![w.slot] = Append(u.pending[w.slot], w)]
         /\ Queue(u, w).versions =
              [u.versions EXCEPT ![w.key] = [slot |-> w.slot, version |-> w.version]]
<1> DEFINE p == [u.pending EXCEPT ![w.slot] = Append(u.pending[w.slot], w)]
           n == [u.versions EXCEPT ![w.key] = [slot |-> w.slot, version |-> w.version]]
<1>1. p \in [Slot -> Seq(Write)]
  <2>1. w.slot \in Slot
    BY DEF Write
  <2>2. u.pending \in [Slot -> Seq(Write)]
    BY DEF StateUpdaters
  <2>3. Append(u.pending[w.slot], w) \in Seq(Write)
    BY <2>1, <2>2
  <2> QED BY <2>2, <2>3
<1>2. n \in Versions
  BY DEF StateUpdaters, Write, Versions
<1>3. Queue(u, w) = [u EXCEPT !.versions = n, !.pending = p]
  BY DEF Queue, StateUpdaters
<1> HIDE DEF p, n
<1>4. /\ Queue(u, w) \in StateUpdaters
      /\ Queue(u, w).bootstrapSlot = u.bootstrapSlot
      /\ Queue(u, w).confirmedSlot = u.confirmedSlot
      /\ Queue(u, w).accounts = u.accounts
      /\ Queue(u, w).recovering = u.recovering
      /\ Queue(u, w).pending = p
      /\ Queue(u, w).versions = n
  BY <1>1, <1>2, <1>3 DEF StateUpdaters
<1> QED BY <1>4 DEF p, n

(* An object stays that of the source it was built from.                   *)
LEMMA SourceStays ==
  ASSUME NEW u \in StateUpdaters, NEW s \in Slot, NEW w
  PROVE  /\ Confirm(u, s).source = u.source
         /\ FinishRecovery(u).source = u.source
         /\ Queue(u, w).source = u.source
<1>1. ApplyPendingThrough(u, s).source = u.source /\ ApplyPendingThrough(u, s) \in StateUpdaters
  BY ApplyFields, ApplyType
<1>2. /\ ApplyPendingThrough(u, u.confirmedSlot).source = u.source
      /\ ApplyPendingThrough(u, u.confirmedSlot) \in StateUpdaters
  BY ApplyFields, ApplyType DEF StateUpdaters
<1>3. Confirm(u, s).source = u.source
  BY <1>1 DEF Confirm, StateUpdaters
<1>4. FinishRecovery(u).source = u.source
  BY <1>2 DEF FinishRecovery, StateUpdaters
<1>5. Queue(u, w).source = u.source
  BY DEF Queue, StateUpdaters
<1> QED BY <1>3, <1>4, <1>5

(* A publication leaves the store well formed.                             *)
LEMMA PublishType ==
  ASSUME NEW st \in Stores, NEW y \in Source \cup {NoSource},
         NEW s \in Slot, NEW a \in Accounts
  PROVE  Publish(st, y, s, a) \in Stores
BY DEF Publish, Stores

-----------------------------------------------------------------------------
(* The order of (slot, version) pairs, on the types it is used with.       *)
LEMMA OlderIsAnOrder ==
  ASSUME NEW a \in Write, NEW b \in Write,
         NEW o \in [slot: Slot, version: Version] \cup {Unversioned}
  PROVE  /\ Older(a, b) => ~ Older(b, a)
         /\ ~ Older(a, a)
         /\ a.slot < b.slot => Older(a, b)
         /\ ~ Older(o, a) /\ Older(o, b) => Older(a, b)
         /\ o.slot = a.slot /\ o.version = a.version => ~ Older(o, a)
         /\ a.slot \in Int /\ a.version \in Int
         /\ o.slot \in Int /\ o.version \in Int
<1>0. (\A x \in Slot : x \in Int) /\ (\A x \in Version : x \in Int)
  BY VersionAssumption, MaxSlotAssumption DEF Slot
<1>1. /\ a.slot \in Int /\ a.version \in Int
      /\ b.slot \in Int /\ b.version \in Int
  BY <1>0 DEF Write
<1>2. o.slot \in Int /\ o.version \in Int
  <2>1. CASE o \in [slot: Slot, version: Version]
    BY <2>1, <1>0
  <2>2. CASE o = Unversioned
    BY <2>2 DEF Unversioned
  <2> QED BY <2>1, <2>2
<1> QED BY <1>1, <1>2 DEF Older
=============================================================================
