------------------------- MODULE StateUpdaterProofs -------------------------
(***************************************************************************)
(* The StateUpdater object keeps the confirmed view for every set of keys, *)
(* accounts, slots and versions.                                           *)
(***************************************************************************)
EXTENDS StateUpdater, AltStateProofs

(* The heart of the matter: applying everything staged up to a slot yields *)
(* the fetched state overlaid with the newest accepted write of each key   *)
(* up to that slot, visible before or not.                                 *)
LEMMA ApplyIsView ==
  ASSUME Inv, NEW s \in Slot, s >= updater.confirmedSlot
  PROVE  View!IsView(ApplyPendingThrough(updater, s).accounts,
                     fetched.accounts, { w \in log : w.slot <= s })
<1> DEFINE a == ApplyPendingThrough(updater, s).accounts
           L == { w \in log : w.slot <= s }
<1>1. /\ updater \in StateUpdaters /\ log \subseteq Write
      /\ updater.pending \in [Slot -> Seq(Write)]
      /\ updater.confirmedSlot \in Slot
  BY DEF Inv, TypeOK, StateUpdaters
<1>2. \A k \in Key : a[k] = IF StagedSlots(updater, k, s) = {}
                            THEN updater.accounts[k]
                            ELSE LastMutation(updater, k, s).account
  BY <1>1, ApplyFields
<1>3. \A w \in Shown : w \in L
  <2> SUFFICES ASSUME NEW w \in Shown PROVE w \in L
    OBVIOUS
  <2>1. w \in log /\ w.slot <= updater.confirmedSlot /\ w \in Write
    BY <1>1 DEF Inv, VisibleIsConfirmed, Shown
  <2> QED BY <2>1, <1>1, MaxSlotAssumption DEF Write, Slot
<1>4. \A w \in L : w \in Shown \/ (IsStaged(updater, w) /\ w.slot \in Slot /\ w.slot <= s)
  BY <1>1 DEF Shown, Write
<1>5. ASSUME NEW k \in Key, \A w \in L : w.key # k
      PROVE  a[k] = fetched.accounts[k]
  <2>1. \A w \in Shown : w.key # k
    BY <1>3, <1>5
  <2>2. updater.accounts[k] = fetched.accounts[k]
    BY <2>1 DEF Inv, NewestWins, View!IsView
  <2>3. StagedSlots(updater, k, s) = {}
    <3> SUFFICES ASSUME NEW t \in Slot, t <= s, NEW i \in DOMAIN updater.pending[t],
                        updater.pending[t][i].key = k
                 PROVE  FALSE
      BY DEF StagedSlots
    <3>1. updater.pending[t][i] \in log /\ updater.pending[t][i].slot = t
      BY DEF Inv, StagedIsLogged
    <3> QED BY <3>1, <1>5
  <2> QED BY <2>2, <2>3, <1>2
<1>6. ASSUME NEW w \in L, \A v \in L : v.key = w.key => ~ Older(w, v)
      PROVE  a[w.key] = w.account
  <2>0. w \in Write /\ w.key \in Key
    BY <1>1 DEF Write
  <2>1. CASE StagedSlots(updater, w.key, s) = {}
    <3>1. w \in Shown
      <4> SUFFICES ASSUME IsStaged(updater, w), w.slot \in Slot, w.slot <= s
                   PROVE  FALSE
        BY <1>4
      <4> QED BY <2>1 DEF IsStaged, StagedSlots
    <3>2. \A v \in Shown : v.key = w.key => ~ Older(w, v)
      BY <1>3, <1>6
    <3>3. updater.accounts[w.key] = w.account
      BY <3>1, <3>2 DEF Inv, NewestWins, View!IsView, View!Older, Older
    <3> QED BY <3>3, <2>1, <2>0, <1>2
  <2>2. CASE StagedSlots(updater, w.key, s) # {}
    <3> DEFINE k == w.key
    <3>0. k = w.key /\ StagedSlots(updater, k, s) # {}
      BY <2>2
    <3> HIDE DEF k
    <3>1. PICK t \in Slot :
            \E i \in DOMAIN updater.pending[t] : IsLastStaged(updater, k, s, t, i)
      BY <1>1, <3>0, LastMutationIsLast
    <3>2. PICK i \in DOMAIN updater.pending[t] : IsLastStaged(updater, k, s, t, i)
      BY <3>1
    <3> DEFINE m == updater.pending[t][i]
    <3>3. m \in log /\ m.slot = t /\ m \in L /\ m \in Write /\ m.key = k
      BY <3>2, <1>1 DEF Inv, StagedIsLogged, IsLastStaged
    <3>4. ~ Older(w, m)
      BY <3>0, <3>3, <1>6
    <3>5. IsStaged(updater, m)
      BY <3>3 DEF IsStaged
    <3>6. IsStaged(updater, w)
      <4> SUFFICES ASSUME ~ IsStaged(updater, w) PROVE FALSE
        OBVIOUS
      <4>1. w \in log
        OBVIOUS
      <4>2. Older(w, m)
        BY <3>0, <4>1, <3>3, <3>5 DEF Inv, ShownBeforeStaged
      <4> QED BY <4>2, <3>4
    <3>7. PICK j \in DOMAIN updater.pending[w.slot] : updater.pending[w.slot][j] = w
      BY <3>6 DEF IsStaged
    <3>8. w.slot \in Slot /\ w.slot <= s
      BY <2>0 DEF Write
    <3>9. w.slot < t \/ (w.slot = t /\ j <= i)
      BY <3>0, <3>2, <3>7, <3>8 DEF IsLastStaged
    <3>10. w.slot = t /\ j <= i
      BY <3>9, <3>4, <3>3, <2>0, OlderIsAnOrder
    <3>11. j = i
      <4> SUFFICES ASSUME j # i PROVE FALSE
        OBVIOUS
      <4>1. i \in Int /\ j \in Int
        BY <1>1, <3>7, <3>10
      <4>2. j < i
        BY <4>1, <3>10
      <4>3. Older(w, m)
        BY <3>0, <4>2, <3>3, <3>7, <3>10 DEF Inv, StagedInOrder
      <4> QED BY <4>3, <3>4
    <3>12. w = m
      BY <3>7, <3>10, <3>11
    <3> QED BY <3>0, <3>12, <3>2, <2>2, <2>0, <1>2 DEF IsLastStaged
  <2> QED BY <2>1, <2>2
<1> HIDE DEF a, L
<1>7. View!IsView(a, fetched.accounts, L)
  BY <1>5, <1>6 DEF View!IsView, View!Older, Older
<1> QED BY <1>7 DEF a, L

(* Both confirm and finish_recovery apply what is staged up to a slot that *)
(* is not below the confirmed one.                                         *)
AppliesThrough(s) ==
  /\ updater' \in StateUpdaters
  /\ updater'.confirmedSlot = s
  /\ updater'.accounts = ApplyPendingThrough(updater, s).accounts
  /\ updater'.pending = ApplyPendingThrough(updater, s).pending
  /\ updater'.versions = updater.versions
  /\ updater'.bootstrapSlot = updater.bootstrapSlot
  /\ UNCHANGED <<fetched, log>>

(* Applying makes exactly the accepted writes up to the slot visible.      *)
LEMMA ApplyShows ==
  ASSUME Inv, NEW s \in Slot, s >= updater.confirmedSlot, AppliesThrough(s)
  PROVE  /\ \A w \in log : IsStaged(updater', w) <=> IsStaged(updater, w) /\ w.slot > s
         /\ Shown' = { w \in log : w.slot <= s }
<1>1. /\ updater \in StateUpdaters /\ log \subseteq Write
      /\ updater.confirmedSlot \in Slot
  BY DEF Inv, TypeOK, StateUpdaters
<1>2. updater'.pending = [t \in Slot |-> IF t <= s THEN << >> ELSE updater.pending[t]]
  BY <1>1, ApplyFields DEF AppliesThrough
<1>3. ASSUME NEW w \in log
      PROVE  IsStaged(updater', w) <=> IsStaged(updater, w) /\ w.slot > s
  <2>1. w.slot \in Slot
    BY <1>1 DEF Write
  <2>2. CASE w.slot <= s
    <3>1. updater'.pending[w.slot] = << >>
      BY <1>2, <2>1, <2>2
    <3>2. ~ (w.slot > s)
      BY <2>1, <2>2, MaxSlotAssumption DEF Slot
    <3> QED BY <3>1, <3>2 DEF IsStaged
  <2>3. CASE ~ (w.slot <= s)
    <3>1. updater'.pending[w.slot] = updater.pending[w.slot]
      BY <1>2, <2>1, <2>3
    <3>2. w.slot > s
      BY <2>1, <2>3, MaxSlotAssumption DEF Slot
    <3> QED BY <3>1, <3>2 DEF IsStaged
  <2> QED BY <2>2, <2>3
<1>4. ASSUME NEW w \in log
      PROVE  ~ IsStaged(updater', w) <=> w.slot <= s
  <2>1. w.slot \in Slot
    BY <1>1 DEF Write
  <2>2. w.slot > s <=> ~ (w.slot <= s)
    BY <2>1, MaxSlotAssumption DEF Slot
  <2>3. ~ IsStaged(updater, w) => w.slot <= updater.confirmedSlot
    BY DEF Inv, VisibleIsConfirmed, Shown
  <2>4. ~ IsStaged(updater, w) => w.slot <= s
    BY <2>1, <2>3, <1>1, MaxSlotAssumption DEF Slot
  <2> QED BY <2>2, <2>4, <1>3
<1>5. Shown' = { w \in log : ~ IsStaged(updater', w) }
  BY DEF Shown, AppliesThrough
<1> QED BY <1>3, <1>4, <1>5

(* An applying step keeps the invariant.                                   *)
LEMMA ApplyKeepsInv ==
  ASSUME Inv, NEW s \in Slot, s >= updater.confirmedSlot, AppliesThrough(s), TypeOK'
  PROVE  Inv'
<1>1. /\ updater \in StateUpdaters /\ log \subseteq Write
      /\ log' = log /\ fetched' = fetched
      /\ updater'.confirmedSlot = s
  BY DEF Inv, TypeOK, AppliesThrough
<1>2. updater'.pending = [t \in Slot |-> IF t <= s THEN << >> ELSE updater.pending[t]]
  BY <1>1, ApplyFields DEF AppliesThrough
<1>3. BaseIsFetched'
  BY <1>1 DEF Inv, BaseIsFetched, AppliesThrough
<1>4. VersionsCoverLog'
  BY <1>1 DEF Inv, VersionsCoverLog, AppliesThrough
<1>5. StagedIsLogged'
  BY <1>1, <1>2 DEF Inv, StagedIsLogged
<1>6. StagedInOrder'
  BY <1>1, <1>2 DEF Inv, StagedInOrder
<1>7. VisibleIsConfirmed'
  BY <1>1, ApplyShows DEF VisibleIsConfirmed
<1>8. ShownBeforeStaged'
  <2> SUFFICES ASSUME NEW v \in log, NEW w \in log, v.key = w.key,
                      ~ IsStaged(updater', v), IsStaged(updater', w)
               PROVE  Older(v, w)
    BY <1>1 DEF ShownBeforeStaged
  <2>1. v \in Write /\ w \in Write /\ v.slot \in Slot /\ w.slot \in Slot
    BY <1>1 DEF Write
  <2>2. w.slot > s
    BY ApplyShows
  <2>3. v \in Shown'
    BY <1>1 DEF Shown
  <2>4. v.slot <= s
    BY <2>3, ApplyShows
  <2>5. v.slot < w.slot
    BY <2>1, <2>2, <2>4, MaxSlotAssumption DEF Slot
  <2> QED BY <2>1, <2>5, OlderIsAnOrder
<1>9. NewestWins'
  <2>1. View!IsView(ApplyPendingThrough(updater, s).accounts,
                    fetched.accounts, { w \in log : w.slot <= s })
    BY ApplyIsView
  <2>2. View!IsView(updater'.accounts, fetched'.accounts, Shown')
    BY <2>1, <1>1, ApplyShows DEF AppliesThrough
  <2> QED BY <2>2 DEF NewestWins, View!IsView, View!Older
<1> QED BY <1>3, <1>4, <1>5, <1>6, <1>7, <1>8, <1>9 DEF Inv

(* queue stages a write that was not in the log and that is newer than     *)
(* every logged write of its key, so nothing visible changes.              *)
LEMMA QueueStages ==
  ASSUME Inv, NEW w \in Write, Accepts(updater, w),
         updater' = Queue(updater, w), log' = log \cup {w}
  PROVE  /\ \A v \in log : v.key = w.key => Older(v, w)
         /\ w \notin log
         /\ IsStaged(updater', w)
         /\ \A v \in log : IsStaged(updater', v) <=> IsStaged(updater, v)
         /\ Shown' = Shown
<1>1. /\ updater \in StateUpdaters /\ log \subseteq Write
      /\ updater.pending \in [Slot -> Seq(Write)]
      /\ updater.versions \in Versions
      /\ w.slot \in Slot /\ w.key \in Key
  BY DEF Inv, TypeOK, StateUpdaters, Write
<1>2. updater'.pending =
        [updater.pending EXCEPT ![w.slot] = Append(updater.pending[w.slot], w)]
  BY <1>1, QueueFields
<1>3. \A v \in log : v.key = w.key => Older(v, w)
  <2> SUFFICES ASSUME NEW v \in log, v.key = w.key PROVE Older(v, w)
    OBVIOUS
  <2> DEFINE o == updater.versions[w.key]
  <2>1. o \in [slot: Slot, version: Version] \cup {Unversioned}
    BY <1>1 DEF Versions
  <2>2. ~ Older(o, v) /\ Older(o, w)
    BY DEF Inv, VersionsCoverLog, Accepts
  <2> HIDE DEF o
  <2> QED BY <2>1, <2>2, <1>1, OlderIsAnOrder
<1>4. w \notin log
  <2>1. Unversioned \in [slot: Slot, version: Version] \cup {Unversioned}
    OBVIOUS
  <2>2. ~ Older(w, w)
    BY <2>1, OlderIsAnOrder
  <2> QED BY <2>2, <1>3
<1>5. updater'.pending[w.slot] = Append(updater.pending[w.slot], w)
  BY <1>1, <1>2
<1>6. updater.pending[w.slot] \in Seq(Write)
  BY <1>1
<1>7. IsStaged(updater', w)
  <2> DEFINE q == updater.pending[w.slot]
  <2>1. /\ Len(q) + 1 \in DOMAIN Append(q, w)
        /\ Append(q, w)[Len(q) + 1] = w
    BY <1>6
  <2> QED BY <2>1, <1>5 DEF IsStaged
<1>8. ASSUME NEW v \in log PROVE IsStaged(updater', v) <=> IsStaged(updater, v)
  <2>1. v.slot \in Slot /\ v # w
    BY <1>1, <1>4 DEF Write
  <2>2. CASE v.slot # w.slot
    <3>1. updater'.pending[v.slot] = updater.pending[v.slot]
      BY <1>1, <1>2, <2>1, <2>2
    <3> QED BY <3>1 DEF IsStaged
  <2>3. CASE v.slot = w.slot
    <3> DEFINE q == updater.pending[w.slot]
    <3>1. /\ \A i \in DOMAIN q : i \in DOMAIN Append(q, w) /\ Append(q, w)[i] = q[i]
          /\ \A i \in DOMAIN Append(q, w) :
               Append(q, w)[i] # w => i \in DOMAIN q /\ Append(q, w)[i] = q[i]
      BY <1>6
    <3> HIDE DEF q
    <3>2. (\E i \in DOMAIN Append(q, w) : Append(q, w)[i] = v)
            <=> (\E i \in DOMAIN q : q[i] = v)
      BY <3>1, <2>1
    <3> QED BY <3>2, <2>3, <1>5 DEF IsStaged, q
  <2> QED BY <2>2, <2>3
<1>9. Shown' = { v \in log \cup {w} : ~ IsStaged(updater', v) }
  BY DEF Shown
<1>10. Shown' = Shown
  BY <1>7, <1>8, <1>9 DEF Shown
<1> QED BY <1>3, <1>4, <1>7, <1>8, <1>10

(* Staging a write keeps the invariant.                                    *)
LEMMA QueueKeepsInv ==
  ASSUME Inv, NEW w \in Write, Accepts(updater, w),
         updater' = Queue(updater, w), log' = log \cup {w},
         UNCHANGED fetched, TypeOK'
  PROVE  Inv'
<1>1. /\ updater \in StateUpdaters /\ log \subseteq Write
      /\ updater.pending \in [Slot -> Seq(Write)]
      /\ updater.versions \in Versions
      /\ w.slot \in Slot /\ w.key \in Key
  BY DEF Inv, TypeOK, StateUpdaters, Write
<1>2. /\ updater'.bootstrapSlot = updater.bootstrapSlot
      /\ updater'.confirmedSlot = updater.confirmedSlot
      /\ updater'.accounts = updater.accounts
      /\ updater'.pending =
           [updater.pending EXCEPT ![w.slot] = Append(updater.pending[w.slot], w)]
      /\ updater'.versions =
           [updater.versions EXCEPT ![w.key] = [slot |-> w.slot, version |-> w.version]]
  BY <1>1, QueueFields
<1>3. BaseIsFetched'
  BY <1>2 DEF Inv, BaseIsFetched
<1>4. VersionsCoverLog'
  <2> SUFFICES ASSUME NEW v \in log \cup {w}
               PROVE  ~ Older(updater'.versions[v.key], v)
    BY DEF VersionsCoverLog
  <2> DEFINE o == [slot |-> w.slot, version |-> w.version]
  <2>1. o \in [slot: Slot, version: Version] \cup {Unversioned}
    BY DEF Write
  <2>2. CASE v = w
    <3>1. updater'.versions[w.key] = o
      BY <1>1, <1>2 DEF Versions
    <3> QED BY <2>1, <2>2, <3>1, OlderIsAnOrder
  <2>3. CASE v # w /\ v.key = w.key
    <3>1. updater'.versions[v.key] = o /\ v \in log /\ v \in Write
      BY <1>1, <1>2, <2>3 DEF Versions
    <3>2. Older(v, w)
      BY <3>1, <2>3, QueueStages
    <3>3. ~ Older(w, v)
      BY <3>1, <3>2, <2>1, OlderIsAnOrder
    <3> QED BY <3>1, <3>3 DEF Older
  <2>4. CASE v.key # w.key
    <3>1. updater'.versions[v.key] = updater.versions[v.key] /\ v \in log
      BY <1>1, <1>2, <2>4 DEF Versions, Write
    <3> QED BY <3>1 DEF Inv, VersionsCoverLog
  <2> QED BY <2>2, <2>3, <2>4
<1> DEFINE q == updater.pending[w.slot]
<1>5. /\ q \in Seq(Write)
      /\ updater'.pending[w.slot] = Append(q, w)
      /\ \A s \in Slot : s # w.slot => updater'.pending[s] = updater.pending[s]
  BY <1>1, <1>2
<1>6. /\ DOMAIN Append(q, w) = DOMAIN q \cup {Len(q) + 1}
      /\ \A i \in DOMAIN q : Append(q, w)[i] = q[i] /\ i \in Nat /\ i < Len(q) + 1
      /\ Append(q, w)[Len(q) + 1] = w
      /\ Len(q) \in Nat
  BY <1>5, AppendFacts
<1>7. \A i \in DOMAIN q : q[i] \in log /\ q[i].slot = w.slot
  BY <1>1 DEF Inv, StagedIsLogged
<1> HIDE DEF q
<1>8. StagedIsLogged'
  <2> SUFFICES ASSUME NEW s \in Slot, NEW i \in DOMAIN updater'.pending[s]
               PROVE  /\ updater'.pending[s][i] \in log \cup {w}
                      /\ updater'.pending[s][i].slot = s
    BY DEF StagedIsLogged
  <2>1. CASE s # w.slot
    BY <2>1, <1>5 DEF Inv, StagedIsLogged
  <2>2. CASE s = w.slot
    BY <2>2, <1>5, <1>6, <1>7
  <2> QED BY <2>1, <2>2
<1>9. StagedInOrder'
  <2> SUFFICES ASSUME NEW s \in Slot,
                      NEW i \in DOMAIN updater'.pending[s],
                      NEW j \in DOMAIN updater'.pending[s],
                      i < j,
                      updater'.pending[s][i].key = updater'.pending[s][j].key
               PROVE  Older(updater'.pending[s][i], updater'.pending[s][j])
    BY DEF StagedInOrder
  <2>1. CASE s # w.slot
    BY <2>1, <1>5 DEF Inv, StagedInOrder
  <2>2. CASE s = w.slot /\ j \in DOMAIN q
    <3>1. i \in DOMAIN q
      BY <2>2, <1>5, <1>6
    <3>2. Append(q, w)[i] = q[i] /\ Append(q, w)[j] = q[j]
      BY <3>1, <2>2, <1>6
    <3> QED BY <3>1, <3>2, <2>2, <1>5, <1>1, SMTT(30) DEF Inv, StagedInOrder, q
  <2>3. CASE s = w.slot /\ j = Len(q) + 1
    <3>1. i \in DOMAIN q
      BY <2>3, <1>5, <1>6
    <3>2. updater'.pending[s][i] = q[i] /\ updater'.pending[s][j] = w
      BY <3>1, <2>3, <1>5, <1>6
    <3>3. q[i] \in log
      BY <3>1, <1>7
    <3> QED BY <3>2, <3>3, QueueStages
  <2> QED BY <2>1, <2>2, <2>3, <1>5, <1>6
<1>10. ShownBeforeStaged'
  <2> SUFFICES ASSUME NEW u \in log \cup {w}, NEW v \in log \cup {w}, u.key = v.key,
                      ~ IsStaged(updater', u), IsStaged(updater', v)
               PROVE  Older(u, v)
    BY DEF ShownBeforeStaged
  <2>1. u \in log
    BY QueueStages
  <2>2. CASE v = w
    BY <2>1, <2>2, QueueStages
  <2>3. CASE v \in log
    BY <2>1, <2>3, QueueStages DEF Inv, ShownBeforeStaged
  <2> QED BY <2>2, <2>3
<1>11. VisibleIsConfirmed'
  BY <1>2, QueueStages DEF Inv, VisibleIsConfirmed
<1>12. NewestWins'
  <2>1. View!IsView(updater'.accounts, fetched'.accounts, Shown')
    BY <1>2, QueueStages DEF Inv, NewestWins
  <2> QED BY <2>1 DEF NewestWins, View!IsView, View!Older
<1> QED BY <1>3, <1>4, <1>8, <1>9, <1>10, <1>11, <1>12 DEF Inv

-----------------------------------------------------------------------------
(* confirm either applies what is staged up to a new slot, or does nothing. *)
LEMMA ConfirmCases ==
  ASSUME TypeOK, NEW s \in Slot, ConfirmSlot(s)
  PROVE  \/ /\ s > updater.confirmedSlot
            /\ AppliesThrough(s)
            /\ updater'.recovering = updater.recovering
            /\ store' = IF updater.recovering THEN store
                        ELSE Publish(store, updater.source, s,
                                     ApplyPendingThrough(updater, s).accounts)
            /\ UNCHANGED inUse
         \/ UNCHANGED vars
<1>1. updater \in StateUpdaters /\ updater.confirmedSlot \in Slot
  BY DEF TypeOK, StateUpdaters
<1>2. CASE s <= updater.confirmedSlot
  BY <1>2 DEF ConfirmSlot, Confirm, ConfirmStore, vars
<1>3. CASE ~ (s <= updater.confirmedSlot)
  <2>1. s > updater.confirmedSlot
    BY <1>1, <1>3, MaxSlotAssumption DEF Slot
  <2>2. AppliesThrough(s) /\ updater'.recovering = updater.recovering
    BY <1>1, <2>1, ConfirmFields DEF ConfirmSlot, AppliesThrough
  <2> QED BY <1>3, <2>1, <2>2 DEF ConfirmSlot, ConfirmStore
<1> QED BY <1>2, <1>3

(* finish_recovery applies what is staged up to the confirmed slot.        *)
LEMMA FinishApplies ==
  ASSUME TypeOK, Finish
  PROVE  /\ updater.confirmedSlot \in Slot
         /\ AppliesThrough(updater.confirmedSlot)
         /\ store' = Publish(store, updater.source, updater.confirmedSlot,
                             ApplyPendingThrough(updater, updater.confirmedSlot).accounts)
<1>1. updater \in StateUpdaters
  BY DEF TypeOK
<1> QED BY <1>1, FinishFields DEF Finish, AppliesThrough, FinishRecoveryStore

(* Every step keeps the types.                                             *)
LEMMA TypeStep ==
  ASSUME TypeOK, [Next]_vars
  PROVE  TypeOK'
<1> USE DEF TypeOK
<1>1. ASSUME NEW y \in Source, NEW f \in FetchedAltStates, Build(y, f)
      PROVE  TypeOK'
  <2>1. FromFetchedAltState(y, f) \in StateUpdaters
    <3>1. f.slot \in Slot /\ f.accounts \in Accounts
      BY DEF FetchedAltStates
    <3>2. [t \in Slot |-> << >>] \in [Slot -> Seq(Write)]
      OBVIOUS
    <3>3. [k \in Key |-> Unversioned] \in Versions
      BY DEF Versions
    <3> QED BY <3>1, <3>2, <3>3 DEF FromFetchedAltState, StateUpdaters
  <2> QED BY <1>1, <2>1 DEF Build
<1>2. ASSUME NEW w \in Write, QueueWrite(w)
      PROVE  TypeOK'
  <2>1. CASE Accepts(updater, w)
    BY <1>2, <2>1, QueueFields DEF QueueWrite
  <2>2. CASE ~ Accepts(updater, w)
    BY <1>2, <2>2 DEF QueueWrite, Queue
  <2> QED BY <2>1, <2>2
<1>3. ASSUME NEW s \in Slot, ConfirmSlot(s)
      PROVE  TypeOK'
  <2>1. CASE UNCHANGED vars
    BY <2>1 DEF vars
  <2>2. CASE ~ UNCHANGED vars
    <3>1. ApplyPendingThrough(updater, s).accounts \in Accounts /\ updater.source \in Source \cup {NoSource}
      BY ApplyType DEF StateUpdaters
    <3>2. store' \in Stores
      BY <1>3, <2>2, <3>1, ConfirmCases, PublishType
    <3> QED BY <1>3, <2>2, <3>2, ConfirmCases DEF AppliesThrough
  <2> QED BY <2>1, <2>2
<1>4. ASSUME Finish
      PROVE  TypeOK'
  <2>1. /\ ApplyPendingThrough(updater, updater.confirmedSlot).accounts \in Accounts
        /\ updater.source \in Source \cup {NoSource}
    BY <1>4, ApplyType, FinishApplies DEF StateUpdaters
  <2>2. store' \in Stores
    BY <1>4, <2>1, FinishApplies, PublishType
  <2> QED BY <1>4, <2>2, FinishApplies DEF AppliesThrough, Finish
<1>5. ASSUME Retire
      PROVE  TypeOK'
  BY <1>5 DEF Retire, Invalidate, Stores
<1>6. ASSUME UNCHANGED vars
      PROVE  TypeOK'
  BY <1>6 DEF vars
<1> QED BY <1>1, <1>2, <1>3, <1>4, <1>5, <1>6 DEF Next

(* The first state satisfies the invariant.                                *)
LEMMA InitInv == Init => Inv
<1> SUFFICES ASSUME Init PROVE Inv
  OBVIOUS
<1>0. 0 \in Slot
  BY MaxSlotAssumption DEF Slot
<1>1. TypeOK
  <2>1. [t \in Slot |-> << >>] \in [Slot -> Seq(Write)]
    OBVIOUS
  <2>2. [k \in Key |-> Unversioned] \in Versions
    BY DEF Versions
  <2>3. [k \in Key |-> NoAccount] \in Accounts
    BY DEF Accounts, MaybeAccount
  <2>4. updater \in StateUpdaters
    BY <1>0, <2>1, <2>2, <2>3 DEF Init, NewUpdater, StateUpdaters
  <2>5. store \in Stores
    BY <1>0, <2>3 DEF Init, NewStore, Stores
  <2>6. fetched \in FetchedAltStates
    BY <1>0, <2>3 DEF Init, NewUpdater, FetchedAltStates
  <2> QED BY <2>4, <2>5, <2>6 DEF Init, TypeOK
<1>2. log = {} /\ Shown = {}
  BY DEF Init, Shown
<1>3. \A s \in Slot : updater.pending[s] = << >>
  BY DEF Init, NewUpdater
<1>4. StagedIsLogged /\ StagedInOrder
  BY <1>3 DEF StagedIsLogged, StagedInOrder
<1>5. BaseIsFetched /\ NewestWins
  BY <1>2 DEF Init, NewUpdater, BaseIsFetched, NewestWins, View!IsView
<1> QED BY <1>1, <1>2, <1>4, <1>5
        DEF Inv, VersionsCoverLog, ShownBeforeStaged, VisibleIsConfirmed

(* An object just built from a fetched state satisfies the invariant.      *)
LEMMA BuildInv ==
  ASSUME NEW y \in Source, NEW f \in FetchedAltStates, Build(y, f), TypeOK'
  PROVE  Inv'
<1>1. /\ log' = {} /\ Shown' = {}
      /\ updater' = FromFetchedAltState(y, f) /\ fetched' = f
  BY DEF Build, Shown
<1>2. \A s \in Slot : updater'.pending[s] = << >>
  BY <1>1 DEF FromFetchedAltState
<1>3. StagedIsLogged' /\ StagedInOrder'
  BY <1>2 DEF StagedIsLogged, StagedInOrder
<1>4. updater'.bootstrapSlot = fetched'.slot /\ updater'.accounts = fetched'.accounts
  BY <1>1 DEF FromFetchedAltState
<1>5. BaseIsFetched' /\ NewestWins'
  BY <1>1, <1>4 DEF BaseIsFetched, NewestWins, View!IsView
<1> QED BY <1>1, <1>3, <1>5
        DEF Inv, VersionsCoverLog, ShownBeforeStaged, VisibleIsConfirmed

(* Every step keeps the invariant.                                         *)
LEMMA InvStep ==
  ASSUME Inv, [Next]_vars
  PROVE  Inv'
<1>1. TypeOK /\ TypeOK'
  BY TypeStep DEF Inv
<1>2. ASSUME NEW y \in Source, NEW f \in FetchedAltStates, Build(y, f)
      PROVE  Inv'
  BY <1>1, <1>2, BuildInv
<1>3. ASSUME updater' = updater, log' = log, fetched' = fetched
      PROVE  Inv'
  BY <1>1, <1>3 DEF Inv, BaseIsFetched, VersionsCoverLog, StagedIsLogged, StagedInOrder,
                    ShownBeforeStaged, VisibleIsConfirmed, NewestWins, Shown, IsStaged,
                    View!IsView, View!Older
<1>4. ASSUME NEW w \in Write, QueueWrite(w)
      PROVE  Inv'
  <2>1. CASE Accepts(updater, w)
    BY <1>1, <1>4, <2>1, QueueKeepsInv DEF QueueWrite
  <2>2. CASE ~ Accepts(updater, w)
    BY <1>3, <1>4, <2>2 DEF QueueWrite, Queue
  <2> QED BY <2>1, <2>2
<1>5. ASSUME NEW s \in Slot, ConfirmSlot(s)
      PROVE  Inv'
  <2>1. CASE UNCHANGED vars
    BY <2>1, <1>3 DEF vars
  <2>2. CASE ~ UNCHANGED vars
    <3>1. s > updater.confirmedSlot /\ AppliesThrough(s)
      BY <1>1, <1>5, <2>2, ConfirmCases
    <3>2. s >= updater.confirmedSlot
      BY <3>1, <1>1, MaxSlotAssumption DEF TypeOK, StateUpdaters, Slot
    <3> QED BY <3>1, <3>2, <1>1, ApplyKeepsInv
  <2> QED BY <2>1, <2>2
<1>6. ASSUME Finish
      PROVE  Inv'
  <2>1. updater.confirmedSlot \in Slot /\ AppliesThrough(updater.confirmedSlot)
    BY <1>1, <1>6, FinishApplies
  <2>2. updater.confirmedSlot >= updater.confirmedSlot
    BY <2>1, MaxSlotAssumption DEF Slot
  <2> QED BY <2>1, <2>2, <1>1, ApplyKeepsInv
<1>7. ASSUME Retire
      PROVE  Inv'
  BY <1>3, <1>7 DEF Retire
<1>8. ASSUME UNCHANGED vars
      PROVE  Inv'
  BY <1>3, <1>8 DEF vars
<1> QED BY <1>2, <1>4, <1>5, <1>6, <1>7, <1>8 DEF Next

(* The invariant holds throughout.                                         *)
THEOREM InvHolds == Spec => []Inv
<1>1. Init => Inv
  BY InitInv
<1>2. Inv /\ [Next]_vars => Inv'
  BY InvStep
<1> QED BY <1>1, <1>2, PTL DEF Spec

(* The StateUpdater and the store keep their types.                        *)
THEOREM TypeCorrect == Spec => []TypeOK
<1>1. Inv => TypeOK
  BY DEF Inv
<1> QED BY <1>1, InvHolds, PTL

(* However the updates are ordered, delayed or repeated, the newest        *)
(* visible write of a key is the one that is served.                       *)
THEOREM NewestWriteWins == Spec => []NewestWins
<1>1. Inv => NewestWins
  BY DEF Inv
<1> QED BY <1>1, InvHolds, PTL

(* No write is visible before its slot is confirmed.                       *)
THEOREM NothingUnconfirmedIsVisible == Spec => []VisibleIsConfirmed
<1>1. Inv => VisibleIsConfirmed
  BY DEF Inv
<1> QED BY <1>1, InvHolds, PTL

(* A step that changes the served map or its slot publishes the complete   *)
(* state of that slot.                                                     *)
LEMMA PublishStep ==
  ASSUME Inv, [Next]_vars, store'.slot # store.slot \/ store'.accounts # store.accounts
  PROVE  View!IsView(store'.accounts, fetched.accounts, { w \in log : w.slot <= store'.slot })
<1>1. TypeOK
  BY DEF Inv
<1>2. ASSUME NEW s \in Slot, s >= updater.confirmedSlot,
             store' = Publish(store, updater.source, s, ApplyPendingThrough(updater, s).accounts)
      PROVE  View!IsView(store'.accounts, fetched.accounts,
                         { w \in log : w.slot <= store'.slot })
  <2>1. store'.slot = s /\ store'.accounts = ApplyPendingThrough(updater, s).accounts
    BY <1>2 DEF Publish
  <2> QED BY <2>1, <1>2, ApplyIsView
<1>3. ASSUME NEW s \in Slot, ConfirmSlot(s)
      PROVE  View!IsView(store'.accounts, fetched.accounts,
                         { w \in log : w.slot <= store'.slot })
  <2>1. /\ s > updater.confirmedSlot
        /\ store' = Publish(store, updater.source, s, ApplyPendingThrough(updater, s).accounts)
    BY <1>1, <1>3, ConfirmCases DEF vars
  <2>2. s >= updater.confirmedSlot
    BY <2>1, <1>1, MaxSlotAssumption DEF TypeOK, StateUpdaters, Slot
  <2> QED BY <2>1, <2>2, <1>2
<1>4. ASSUME Finish
      PROVE  View!IsView(store'.accounts, fetched.accounts,
                         { w \in log : w.slot <= store'.slot })
  <2>1. updater.confirmedSlot >= updater.confirmedSlot
    BY <1>1, MaxSlotAssumption DEF TypeOK, StateUpdaters, Slot
  <2> QED BY <2>1, <1>1, <1>2, <1>4, FinishApplies
<1>5. ~ Retire
  BY <1>1 DEF Retire, Invalidate, TypeOK, Stores
<1>6. /\ \A w \in Write : ~ QueueWrite(w)
      /\ \A y \in Source, f \in FetchedAltStates : ~ Build(y, f)
      /\ ~ UNCHANGED vars
  BY DEF QueueWrite, Build, vars
<1> QED BY <1>3, <1>4, <1>5, <1>6 DEF Next

(* Every published map is complete for its slot, a map that only changes   *)
(* its slot included.                                                      *)
THEOREM CompleteSlotsArePublished == Spec => PublishesCompleteSlot
<1>1. Inv /\ [Next]_vars =>
        [ store'.slot # store.slot \/ store'.accounts # store.accounts =>
            View!IsView(store'.accounts, fetched.accounts,
                        { w \in log : w.slot <= store'.slot }) ]_vars
  BY PublishStep
<1> QED BY <1>1, InvHolds, PTL DEF Spec, PublishesCompleteSlot

(* While a replacement replays its events the store is left alone.         *)
THEOREM ReplayLeavesTheStore == Spec => ReplayIsInvisible
<1>1. ASSUME Inv, [Next]_vars, updater.recovering, updater'.recovering, inUse
      PROVE  store' = store
  <2>1. TypeOK /\ updater \in StateUpdaters
    BY <1>1 DEF Inv, TypeOK
  <2>2. ~ Finish
    BY <1>1, <2>1, FinishFields DEF Finish
  <2>3. \A s \in Slot : ConfirmSlot(s) => store' = store
    BY <1>1 DEF ConfirmSlot, ConfirmStore
  <2>4. ~ Retire
    BY <1>1 DEF Retire
  <2> QED BY <1>1, <2>2, <2>3, <2>4 DEF Next, QueueWrite, Build, vars
<1>2. Inv /\ [Next]_vars =>
        [ updater.recovering /\ updater'.recovering /\ inUse => store' = store ]_vars
  BY <1>1
<1> QED BY <1>2, InvHolds, PTL DEF Spec, ReplayIsInvisible

-----------------------------------------------------------------------------
(* Refinement                                                              *)

(* An object that has been fed nothing maps to an initial view.            *)
LEMMA InitRefines == Init => View!Init
BY MaxSlotAssumption DEF Init, View!Init, NewUpdater, Shown

(* An applying step reveals every accepted write up to its slot.           *)
LEMMA ApplyReveals ==
  ASSUME Inv, NEW s \in Slot, s >= updater.confirmedSlot, AppliesThrough(s)
  PROVE  View!Reveal(s)
<1>1. updater \in StateUpdaters
  BY DEF Inv, TypeOK
<1>2. /\ updater'.confirmedSlot = s
      /\ updater'.accounts = ApplyPendingThrough(updater, s).accounts
      /\ UNCHANGED <<fetched, log>>
  BY DEF AppliesThrough
<1>3. updater'.accounts \in Accounts
  BY <1>1, <1>2, ApplyType
<1>4. Shown' = { w \in log : w.slot <= s }
  BY ApplyShows
<1>5. View!IsView(updater'.accounts, fetched.accounts, Shown')
  BY <1>2, <1>4, ApplyIsView
<1> QED BY <1>2, <1>3, <1>4, <1>5
        DEF View!Reveal, View!Accounts, View!MaybeAccount, Accounts, MaybeAccount

(* Every step of the object is a step of the view, or leaves it alone.     *)
LEMMA StepRefines ==
  ASSUME Inv, [Next]_vars
  PROVE  [View!Next]_(View!vars)
<1>1. TypeOK
  BY DEF Inv
<1>2. ASSUME NEW y \in Source, NEW f \in FetchedAltStates, Build(y, f)
      PROVE  View!Next
  <2>1. Shown' = {}
    BY <1>2 DEF Build, Shown
  <2>2. View!Rebase(f)
    BY <1>2, <2>1 DEF Build, View!Rebase, FromFetchedAltState
  <2>3. f \in View!FetchedAltStates
    BY DEF FetchedAltStates, View!FetchedAltStates, Slot, View!Slot, Accounts,
           View!Accounts, MaybeAccount, View!MaybeAccount
  <2> QED BY <2>2, <2>3 DEF View!Next
<1>3. ASSUME updater' = updater, log' = log, fetched' = fetched
      PROVE  UNCHANGED View!vars
  BY <1>3 DEF View!vars, Shown, IsStaged
<1>4. ASSUME NEW w \in Write, QueueWrite(w)
      PROVE  View!Next \/ UNCHANGED View!vars
  <2>1. CASE Accepts(updater, w)
    <3>1. /\ Shown' = Shown
          /\ \A v \in log : v.key = w.key => Older(v, w)
      BY <1>4, <2>1, QueueStages DEF QueueWrite
    <3>2. /\ updater'.accounts = updater.accounts
          /\ updater'.confirmedSlot = updater.confirmedSlot
      BY <1>1, <1>4, <2>1, QueueFields DEF QueueWrite, TypeOK
    <3>3. w.slot >= fetched.slot
      BY <2>1 DEF Accepts, Inv, BaseIsFetched
    <3>4. View!Accept(w)
      BY <3>1, <3>2, <3>3, <1>4, <2>1 DEF View!Accept, View!Older, Older, QueueWrite
    <3>5. w \in View!Write
      BY DEF Write, View!Write, Slot, View!Slot, MaybeAccount, View!MaybeAccount
    <3> QED BY <3>4, <3>5 DEF View!Next
  <2>2. CASE ~ Accepts(updater, w)
    BY <1>3, <1>4, <2>2 DEF QueueWrite, Queue
  <2> QED BY <2>1, <2>2
<1>5. ASSUME NEW s \in Slot, s >= updater.confirmedSlot, AppliesThrough(s)
      PROVE  View!Next
  <2>1. s \in View!Slot
    BY DEF Slot, View!Slot
  <2> QED BY <1>5, <2>1, ApplyReveals DEF View!Next
<1>6. ASSUME NEW s \in Slot, ConfirmSlot(s)
      PROVE  View!Next \/ UNCHANGED View!vars
  <2>1. CASE UNCHANGED vars
    BY <2>1, <1>3 DEF vars
  <2>2. CASE ~ UNCHANGED vars
    <3>1. s > updater.confirmedSlot /\ AppliesThrough(s)
      BY <1>1, <1>6, <2>2, ConfirmCases
    <3>2. s >= updater.confirmedSlot
      BY <3>1, <1>1, MaxSlotAssumption DEF TypeOK, StateUpdaters, Slot
    <3> QED BY <3>1, <3>2, <1>5
  <2> QED BY <2>1, <2>2
<1>7. ASSUME Finish
      PROVE  View!Next
  <2>1. updater.confirmedSlot \in Slot /\ AppliesThrough(updater.confirmedSlot)
    BY <1>1, <1>7, FinishApplies
  <2>2. updater.confirmedSlot >= updater.confirmedSlot
    BY <2>1, MaxSlotAssumption DEF Slot
  <2> QED BY <2>1, <2>2, <1>5
<1>8. ASSUME Retire \/ UNCHANGED vars
      PROVE  UNCHANGED View!vars
  BY <1>3, <1>8 DEF Retire, vars
<1> QED BY <1>2, <1>4, <1>6, <1>7, <1>8 DEF Next

(* The StateUpdater object implements the confirmed view: what a reader    *)
(* sees is always a fetched state with all newest confirmed writes on it.  *)
THEOREM Refinement == Spec => ImplementsConfirmedView
<1>1. Init => View!Init
  BY InitRefines
<1>2. Inv /\ [Next]_vars => [View!Next]_(View!vars)
  BY StepRefines
<1> QED BY <1>1, <1>2, InvHolds, PTL DEF Spec, ImplementsConfirmedView, View!Spec

(* One slot's mutations, in arrival order, leave of each key its last.     *)
LEMMA MutationsInOrder ==
  ASSUME NEW q \in Seq(Write), NEW a \in Accounts
  PROVE  ApplyMutations(q, a) =
           [k \in Key |-> IF PositionsOf(q, k) = {} THEN a[k]
                          ELSE q[Max(PositionsOf(q, k))].account]
<1> DEFINE Before(k, i) == { j \in PositionsOf(q, k) : j <= i }
           After(i) == [k \in Key |-> IF Before(k, i) = {} THEN a[k]
                                      ELSE q[Max(Before(k, i))].account]
           Step(g, i) == IF i = 0 THEN a ELSE [g[i - 1] EXCEPT ![q[i].key] = q[i].account]
           after == [i \in 0 .. Len(q) |-> After(i)]
<1>1. Len(q) \in Nat /\ DOMAIN q = 1 .. Len(q)
  OBVIOUS
<1>2. \A k, i : /\ Before(k, i) \in SUBSET (1 .. Len(q))
                /\ \A j : j \in Before(k, i) <=> j \in 1 .. Len(q) /\ q[j].key = k /\ j <= i
  BY <1>1 DEF PositionsOf
<1>3. After(0) = a
  <2>1. \A k : Before(k, 0) = {}
    <3> SUFFICES ASSUME NEW k, NEW j \in Before(k, 0) PROVE FALSE
      OBVIOUS
    <3>1. j \in 1 .. Len(q) /\ j <= 0
      BY <1>2
    <3> QED BY <1>1, <3>1
  <2> QED BY <2>1 DEF Accounts
<1>4. ASSUME NEW i \in 1 .. Len(q)
      PROVE  After(i) = [After(i - 1) EXCEPT ![q[i].key] = q[i].account]
  <2>1. i \in Nat /\ i - 1 \in Nat /\ q[i].key \in Key
    <3>1. i \in Nat /\ i - 1 \in Nat /\ q[i] \in Write
      BY <1>1
    <3> QED BY <3>1 DEF Write
  <2>2. ASSUME NEW k \in Key, k # q[i].key
        PROVE  Before(k, i) = Before(k, i - 1)
    <3>1. \A j \in 1 .. Len(q) : q[j].key = k => (j <= i <=> j <= i - 1)
      BY <1>1, <2>1, <2>2
    <3>2. \A j : j \in Before(k, i) <=> j \in Before(k, i - 1)
      <4> HIDE DEF Before
      <4> QED BY <1>2, <3>1
    <3> HIDE DEF Before
    <3> QED BY <3>2
  <2>3. i \in Before(q[i].key, i) /\ Max(Before(q[i].key, i)) = i
    <3> HIDE DEF Before
    <3>1. i \in Before(q[i].key, i) /\ \A j \in Before(q[i].key, i) : j <= i
      BY <1>2, <2>1
    <3>2. Before(q[i].key, i) \in SUBSET Int
      BY <1>1, <1>2
    <3> QED BY <3>1, <3>2, MaxIsGreatest
  <2> HIDE DEF Before
  <2>4. \A k \in Key : After(i)[k] = IF k = q[i].key THEN q[i].account ELSE After(i - 1)[k]
    BY <2>2, <2>3
  <2> QED BY <2>1, <2>4
<1> HIDE DEF Before
<1>5. \A i \in 0 .. Len(q) : after[i] = Step(after, i)
  <2> SUFFICES ASSUME NEW i \in 0 .. Len(q) PROVE after[i] = Step(after, i)
    OBVIOUS
  <2>1. CASE i = 0
    BY <1>1, <1>3, <2>1
  <2>2. CASE i # 0
    <3>1. i \in 1 .. Len(q) /\ i - 1 \in 0 .. Len(q)
      BY <1>1, <2>2
    <3>2. after[i] = After(i) /\ after[i - 1] = After(i - 1)
      BY <3>1
    <3> HIDE DEF After, after
    <3> QED BY <1>4, <2>2, <3>1, <3>2
  <2> QED BY <2>1, <2>2
<1> HIDE DEF After
<1>6. ASSUME NEW g, g = [i \in 0 .. Len(q) |-> Step(g, i)]
      PROVE  \A i \in 0 .. Len(q) : g[i] = after[i]
  <2> DEFINE Differ == { i \in 0 .. Len(q) : g[i] # after[i] }
             m == Min(Differ)
  <2> SUFFICES ASSUME Differ # {} PROVE FALSE
    OBVIOUS
  <2>1. Differ \in SUBSET Nat
    BY <1>1
  <2>2. m \in Differ /\ \A i \in Differ : m <= i
    <3> HIDE DEF Differ
    <3> QED BY <2>1, MinIsLowerBound
  <2>3. m \in 0 .. Len(q) /\ g[m] # after[m] /\ \A i \in 0 .. Len(q) : i < m => g[i] = after[i]
    <3>1. m \in Differ /\ \A i \in 0 .. Len(q) : g[i] # after[i] => m <= i
      BY <2>2
    <3> HIDE DEF m
    <3> QED BY <1>1, <3>1
  <2> HIDE DEF m, Differ, after
  <2>4. g[m] = Step(g, m) /\ after[m] = Step(after, m)
    BY <1>5, <1>6, <2>3
  <2>5. CASE m = 0
    BY <2>3, <2>4, <2>5
  <2>6. CASE m # 0
    <3>1. m - 1 \in 0 .. Len(q) /\ g[m - 1] = after[m - 1]
      BY <1>1, <2>3, <2>6
    <3> QED BY <2>3, <2>4, <2>6, <3>1
  <2> QED BY <2>5, <2>6
<1>7. after = [i \in 0 .. Len(q) |-> Step(after, i)]
  BY <1>5
<1>8. ApplyMutations(q, a) = after[Len(q)]
  <2> DEFINE G == CHOOSE g : g = [i \in 0 .. Len(q) |-> Step(g, i)]
  <2>1. G = [i \in 0 .. Len(q) |-> Step(G, i)]
    <3> HIDE DEF Step, after
    <3> QED BY <1>7
  <2>2. G[Len(q)] = after[Len(q)]
    <3> HIDE DEF G, after, Step
    <3> QED BY <1>1, <1>6, <2>1
  <2>3. ApplyMutations(q, a) = G[Len(q)]
    BY DEF ApplyMutations
  <2> QED BY <2>2, <2>3
<1>9. \A k : Before(k, Len(q)) = PositionsOf(q, k)
  BY <1>1 DEF Before, PositionsOf
<1> QED BY <1>1, <1>8, <1>9 DEF After

(* Applying up to a slot is applying up to the one before and then the     *)
(* slot's own mutations.                                                   *)
LEMMA SlotsInOrder ==
  ASSUME NEW u \in StateUpdaters, NEW s \in Slot
  PROVE  ApplyPendingThrough(u, s).accounts =
           ApplyMutations(u.pending[s],
             IF s = 0 THEN u.accounts ELSE ApplyPendingThrough(u, s - 1).accounts)
<1> DEFINE q == u.pending[s]
           a == IF s = 0 THEN u.accounts ELSE ApplyPendingThrough(u, s - 1).accounts
           b == ApplyPendingThrough(u, s).accounts
           c == ApplyMutations(q, a)
<1>1. q \in Seq(Write) /\ s \in Nat /\ (s # 0 => s - 1 \in Slot)
  BY MaxSlotAssumption DEF StateUpdaters, Slot
<1>2. a \in Accounts /\ b \in Accounts
  BY <1>1, ApplyType DEF StateUpdaters
<1>3. c = [k \in Key |-> IF PositionsOf(q, k) = {} THEN a[k] ELSE q[Max(PositionsOf(q, k))].account]
  BY <1>1, <1>2, MutationsInOrder
<1>4. \A k : StagedSlots(u, k, s) \in SUBSET Nat /\
             \A t : t \in StagedSlots(u, k, s) <=> t \in Slot /\ t <= s /\ PositionsOf(u.pending[t], k) # {}
  BY DEF StagedSlots, PositionsOf, Slot
<1>5. ASSUME NEW k \in Key, PositionsOf(q, k) # {}
      PROVE  b[k] = c[k]
  <2>1. s \in StagedSlots(u, k, s) /\ \A t \in StagedSlots(u, k, s) : t <= s
    <3>1. s <= s /\ PositionsOf(u.pending[s], k) # {}
      BY <1>1, <1>5
    <3> QED BY <1>4, <3>1
  <2>2. Max(StagedSlots(u, k, s)) = s
    BY <1>4, <2>1, MaxIsGreatest
  <2>3. b[k] = LastMutation(u, k, s).account
    BY <2>1, ApplyFields
  <2> QED BY <1>3, <1>5, <2>2, <2>3 DEF LastMutation
<1>6. ASSUME NEW k \in Key, PositionsOf(q, k) = {}
      PROVE  b[k] = c[k]
  <2>1. c[k] = a[k]
    BY <1>3, <1>6
  <2>2. CASE s = 0
    <3>1. StagedSlots(u, k, s) = {}
      BY <1>4, <1>6, <2>2, MaxSlotAssumption DEF Slot
    <3> QED BY <2>1, <2>2, <3>1, ApplyFields
  <2>3. CASE s # 0
    <3>1. \A t : t \in StagedSlots(u, k, s) <=> t \in StagedSlots(u, k, s - 1)
      <4> SUFFICES ASSUME NEW t \in Slot, PositionsOf(u.pending[t], k) # {}
                   PROVE  t <= s <=> t <= s - 1
        BY DEF StagedSlots, PositionsOf
      <4>1. t # s
        BY <1>6
      <4> QED BY <1>1, <4>1, MaxSlotAssumption DEF Slot
    <3>2. StagedSlots(u, k, s) = StagedSlots(u, k, s - 1)
      BY <3>1
    <3>3. LastMutation(u, k, s) = LastMutation(u, k, s - 1)
      BY <3>2 DEF LastMutation
    <3>4. /\ b[k] = IF StagedSlots(u, k, s) = {} THEN u.accounts[k] ELSE LastMutation(u, k, s).account
          /\ a[k] = IF StagedSlots(u, k, s - 1) = {} THEN u.accounts[k] ELSE LastMutation(u, k, s - 1).account
      BY <1>1, <2>3, ApplyFields
    <3> QED BY <2>1, <3>2, <3>3, <3>4
  <2> QED BY <2>2, <2>3
<1>7. \A k \in Key : b[k] = c[k]
  BY <1>5, <1>6
<1>8. DOMAIN b = Key /\ DOMAIN c = Key /\ b = [k \in Key |-> b[k]] /\ c = [k \in Key |-> c[k]]
  BY <1>2, <1>3 DEF Accounts
<1> HIDE DEF b, c
<1>9. b = c
  BY <1>7, <1>8
<1> QED BY <1>9 DEF b, c

(* The closed form computes what the loops compute, of any object.         *)
LEMMA LoopsApply ==
  ASSUME NEW u \in StateUpdaters, NEW slot \in Slot
  PROVE  ApplyLoop(u, slot) = ApplyPendingThrough(u, slot).accounts
<1> DEFINE Step(g, s) == ApplyMutations(u.pending[s], IF s = 0 THEN u.accounts ELSE g[s - 1])
           through == [s \in 0 .. slot |-> ApplyPendingThrough(u, s).accounts]
<1>1. slot \in Nat /\ 0 .. slot \subseteq Slot
  BY MaxSlotAssumption DEF Slot
<1>2. \A s \in 0 .. slot : through[s] = Step(through, s)
  <2> SUFFICES ASSUME NEW s \in 0 .. slot PROVE through[s] = Step(through, s)
    OBVIOUS
  <2>1. /\ s \in Slot /\ through[s] = ApplyPendingThrough(u, s).accounts
        /\ s # 0 => through[s - 1] = ApplyPendingThrough(u, s - 1).accounts
    BY <1>1
  <2> HIDE DEF through
  <2> QED BY <2>1, SlotsInOrder
<1>3. through = [s \in 0 .. slot |-> Step(through, s)]
  BY <1>2
<1> HIDE DEF through
<1>4. ASSUME NEW g, g = [s \in 0 .. slot |-> Step(g, s)]
      PROVE  \A s \in 0 .. slot : g[s] = through[s]
  <2> DEFINE Differ == { s \in 0 .. slot : g[s] # through[s] }
             m == Min(Differ)
  <2> SUFFICES ASSUME Differ # {} PROVE FALSE
    OBVIOUS
  <2>1. Differ \in SUBSET Nat
    BY <1>1
  <2>2. m \in Differ /\ \A s \in Differ : m <= s
    <3> HIDE DEF Differ
    <3> QED BY <2>1, MinIsLowerBound
  <2>3. m \in 0 .. slot /\ g[m] # through[m] /\ \A s \in 0 .. slot : s < m => g[s] = through[s]
    <3>1. m \in Differ /\ \A s \in 0 .. slot : g[s] # through[s] => m <= s
      BY <2>2
    <3> HIDE DEF m
    <3> QED BY <1>1, <3>1
  <2> HIDE DEF m, Differ
  <2>4. g[m] = Step(g, m) /\ through[m] = Step(through, m)
    BY <1>2, <1>4, <2>3
  <2>5. m # 0 => g[m - 1] = through[m - 1]
    BY <1>1, <2>3
  <2> QED BY <2>3, <2>4, <2>5
<1>5. ApplyLoop(u, slot) = through[slot]
  <2> DEFINE G == CHOOSE g : g = [s \in 0 .. slot |-> Step(g, s)]
  <2>1. G = [s \in 0 .. slot |-> Step(G, s)]
    <3> HIDE DEF Step
    <3> QED BY <1>3
  <2>2. G[slot] = through[slot]
    <3> HIDE DEF G, Step
    <3> QED BY <1>1, <1>4, <2>1
  <2>3. ApplyLoop(u, slot) = G[slot]
    BY DEF ApplyLoop
  <2> QED BY <2>2, <2>3
<1> QED BY <1>1, <1>5 DEF through

(* apply_pending_through: the model's closed form is what its two loops    *)
(* leave in the map.                                                       *)
THEOREM LoopsApplyPending == Spec => []ApplyMatchesLoop
<1>1. Inv => ApplyMatchesLoop
  BY LoopsApply DEF Inv, TypeOK, ApplyMatchesLoop
<1> QED BY <1>1, InvHolds, PTL
=============================================================================
