------------------------ MODULE UpdaterServiceProofs ------------------------
(***************************************************************************)
(* The updater service publishes the ledger: bootstrap, replay, refresh    *)
(* and failover, for any keys, slots, sources, capacity and faults.        *)
(***************************************************************************)
EXTENDS UpdaterService, AltStateProofs

(* The inductive strengthening: what a source has sent of its session is   *)
(* on its way, in order, through the channel and the buffered events into  *)
(* the state that is built from it.                                        *)

Working == phase \in {"bootstrap", "sleep", "replay", "serve", "install"}
Serving == phase \in {"serve", "install"}
Replaying == phase \in {"replay", "install"}
Fetching == phase = "bootstrap" \/ (phase = "serve" /\ refreshing)

IsWrite(e, k, s) == e.type = "Account" /\ e.write.key = k /\ e.write.slot = s
IsConfirm(e, c) == e.type = "ConfirmedSlot" /\ e.slot = c

(* A session of source y ends between two places of the channel.           *)
Cut(y, i, j) ==
  \E n \in DOMAIN events :
    i <= n /\ n <= j /\ events[n].source = y /\ events[n].type = "Disconnected"

(* What the updater will still take of the active source's session.        *)
Coming(i) == i \in DOMAIN events /\ events[i].source = active /\ ~ Cut(active, 1, i)

(* The source has sent the write of key k in slot s, if there is one.      *)
Sent(y, k, s) == s <= link[y].at \/ (s = link[y].at + 1 /\ k \in link[y].sent)

(* The active source goes on with the session that the updater follows.    *)
Continues == link[active].status = "stream" /\ ~ Cut(active, 1, Len(events))

(* Event e may precede event f in a session.                               *)
InOrder(e, f) ==
  f.type = "Account" =>
    /\ e.type = "Account" /\ e.write.key = f.write.key => e.write.slot < f.write.slot
    /\ e.type = "ConfirmedSlot" => e.slot < f.write.slot

HasSent(y, e) ==
  /\ e.type = "Account" => Sent(y, e.write.key, e.write.slot)
  /\ e.type = "ConfirmedSlot" => e.slot <= link[y].at

(* Event e tells of the chain what source y would.                         *)
FromChain(y, e) ==
  /\ e.type = "Account" =>
       /\ e.write.slot \in 1 .. delivered
       /\ e.write.account = ledger[e.write.slot][e.write.key]
       /\ e.write.version = y + 1
  /\ e.type = "ConfirmedSlot" => e.slot \in 1 .. delivered

SessionOf(y) ==
  /\ link[y].at <= delivered
  /\ link[y].sent # {} => link[y].at < delivered
  /\ \A i, j \in DOMAIN events :
       events[i].source = y /\ events[j].source = y /\ i < j /\ ~ Cut(y, i, j) =>
         InOrder(events[i], events[j])
  /\ \A i \in DOMAIN events :
       events[i].source = y /\ ~ Cut(y, i, Len(events)) =>
         /\ link[y].status \notin {"down", "greet"}
         /\ link[y].status = "stream" => HasSent(y, events[i])
  /\ y \in connected /\ link[y].status \in {"down", "greet"} => Cut(y, 1, Len(events))

SessionsInOrder ==
  /\ delivered <= tip
  /\ \A i \in DOMAIN events : FromChain(events[i].source, events[i])
  /\ \A i \in DOMAIN buffered : FromChain(active, buffered[i])
  /\ \A y \in Source : SessionOf(y)

(* Each phase has what it needs and nothing else.                          *)
PhasesInOrder ==
  /\ Working => active \in connected
  /\ ~ Replaying => fresh = NewUpdater
  /\ Replaying => fresh.recovering
  /\ Serving => store.ready /\ ~ updater.recovering /\ store.slot = updater.confirmedSlot
                   /\ store.source = active
  /\ ~ Serving /\ phase # "exited" => ~ store.ready
  /\ phase \in {"wait", "sleep"} \/ (phase = "serve" /\ ~ refreshing) => buffered = << >>
  /\ Fetching => floor > 0
  /\ refreshing => phase \in {"serve", "stopped", "exited"}

Staged(u, k, s) == \E i \in DOMAIN u.pending[s] : u.pending[s][i].key = k

(* A state built from the active source's session: its slots, and its      *)
(* staged writes, which are those of slots still to be confirmed (or of    *)
(* the fetched slot itself).                                               *)
FromSession(u) ==
  /\ u.source = active
  /\ 0 < u.bootstrapSlot /\ u.bootstrapSlot <= u.confirmedSlot /\ u.confirmedSlot <= tip
  /\ \A s \in Slot : \A i \in DOMAIN u.pending[s] :
       LET w == u.pending[s][i]
       IN  /\ u.bootstrapSlot <= s /\ s <= delivered
           /\ w.slot = s /\ w.account = ledger[s][w.key] /\ w.version = active + 1
           /\ s <= u.versions[w.key].slot
           /\ s <= u.confirmedSlot => s = u.bootstrapSlot /\ s = u.confirmedSlot
  /\ \A k \in Key : u.versions[k] = Unversioned \/ u.versions[k].version = active + 1
  /\ rpc # "lagging" => AsOf(u.accounts, PageSlots(u.confirmedSlot))

(* No event that a state has still to take is older than what it took.     *)
IsAhead(u, e) ==
  e.type = "Account" =>
    /\ u.versions[e.write.key].slot < e.write.slot
    /\ u.bootstrapSlot < u.confirmedSlot => u.confirmedSlot < e.write.slot

Ordered(u, buf) ==
  /\ \A i, j \in DOMAIN buf : i < j => InOrder(buf[i], buf[j])
  /\ \A i \in DOMAIN buf : IsAhead(u, buf[i])
  /\ \A j \in DOMAIN events : Coming(j) =>
       /\ IsAhead(u, events[j])
       /\ \A i \in DOMAIN buf : InOrder(buf[i], events[j])
  /\ Continues =>
       /\ \A i \in DOMAIN buf : HasSent(active, buf[i])
       /\ \A k \in Key : Sent(active, k, u.versions[k].slot)
       /\ u.bootstrapSlot < u.confirmedSlot => u.confirmedSlot <= link[active].at

(* Where the write of key k in slot s is, before place n of the channel.   *)
Buffered(buf, k, s) == \E i \in DOMAIN buf : IsWrite(buf[i], k, s)
Held(u, buf, n, k, s) ==
  \/ Staged(u, k, s)
  \/ Buffered(buf, k, s)
  \/ \E i \in DOMAIN events : i < n /\ Coming(i) /\ IsWrite(events[i], k, s)

(* When a confirmation is applied to a state that has everything up to     *)
(* slot x, all the writes up to its slot will have been staged.            *)
Complete(x, u, buf) ==
  /\ \A j \in DOMAIN buf : \A c \in Slot : IsConfirm(buf[j], c) =>
       \A s \in (x + 1) .. c : \A k \in Changed(s) :
         Staged(u, k, s) \/ \E i \in DOMAIN buf : i < j /\ IsWrite(buf[i], k, s)
  /\ \A j \in DOMAIN events : \A c \in Slot : Coming(j) /\ IsConfirm(events[j], c) =>
       \A s \in (x + 1) .. c : \A k \in Changed(s) : Held(u, buf, j, k, s)
  /\ Continues =>
       \A s \in (x + 1) .. delivered : \A k \in Changed(s) :
         Sent(active, k, s) => Held(u, buf, Len(events) + 1, k, s)

(* The replacement of a refresh overtakes the state that it will replace.  *)
Overtakes ==
  /\ phase = "serve" /\ refreshing =>
       \/ updater.confirmedSlot <= floor
       \/ \E i \in DOMAIN buffered : IsConfirm(buffered[i], updater.confirmedSlot)
  /\ phase = "install" =>
       \/ updater.confirmedSlot <= fresh.confirmedSlot
       \/ \E i \in DOMAIN buffered : IsConfirm(buffered[i], updater.confirmedSlot)

(* What the serving state has staged, the replacement has or will get.     *)
TakesOver(x) ==
  \A k \in Key, s \in Slot : Staged(updater, k, s) =>
    s <= x \/ s <= fresh.versions[k].slot \/ Buffered(buffered, k, s)

StoreIsLedger ==
  /\ store.ready => store.slot > 0
  /\ store.slot <= tip
  /\ rpc # "lagging" /\ store.slot > 0 => AsOf(store.accounts, PageSlots(store.slot))

ServiceInv ==
  /\ TypeOK
  /\ SessionsInOrder
  /\ PhasesInOrder
  /\ StoreIsLedger
  /\ Overtakes
  /\ Serving => FromSession(updater) /\ Ordered(updater, << >>)
  /\ Replaying => FromSession(fresh)
  /\ Working => Ordered(fresh, buffered)
  /\ rpc # "lagging" =>
       /\ Serving => Complete(updater.confirmedSlot, updater, << >>)
       /\ Replaying => Complete(fresh.confirmedSlot, fresh, buffered)
       /\ Fetching => Complete(floor, fresh, buffered)
       /\ phase = "serve" /\ refreshing => TakesOver(floor)
       /\ phase = "install" => TakesOver(fresh.bootstrapSlot)

-----------------------------------------------------------------------------
(* Slots are naturals up to MaxSlot.                                       *)
LEMMA SlotFacts ==
  /\ 0 \in Slot /\ 1 \in Slot /\ MaxSlot \in Nat
  /\ \A s \in Slot : s \in Nat /\ 0 <= s /\ s <= MaxSlot
  /\ \A n \in Nat : n <= MaxSlot => n \in Slot
  /\ \A n \in 1 .. MaxSlot : n \in Slot
BY MaxSlotAssumption, FirstSlotAssumption DEF Slot

(* Values of the initial state.                                            *)
LEMMA InitialValues ==
  /\ [k \in Key |-> NoAccount] \in Accounts
  /\ NewStore \in Stores /\ ~ NewStore.ready /\ NewStore.slot = 0
  /\ NewUpdater \in StateUpdaters
  /\ \A s \in Slot : NewUpdater.pending[s] = << >>
  /\ \A k \in Key : NewUpdater.versions[k] = Unversioned
  /\ NewUpdater.bootstrapSlot = 0 /\ NewUpdater.confirmedSlot = 0
  /\ Unversioned.slot = -1
  /\ Down \in Links /\ Down.at = 0 /\ Down.sent = {} /\ Down.status = "down"
  /\ 0 \in Source
<1>1. [k \in Key |-> NoAccount] \in Accounts
  BY DEF Accounts, MaybeAccount
<1>2. [s \in Slot |-> << >>] \in [Slot -> Seq(Write)]
  OBVIOUS
<1>3. [k \in Key |-> Unversioned] \in Versions
  BY DEF Versions
<1>4. 0 \in Source
  BY SourceAssumption
<1>5. /\ NewUpdater \in StateUpdaters
      /\ \A s \in Slot : NewUpdater.pending[s] = << >>
      /\ \A k \in Key : NewUpdater.versions[k] = Unversioned
      /\ NewUpdater.bootstrapSlot = 0 /\ NewUpdater.confirmedSlot = 0
  BY <1>1, <1>2, <1>3, SlotFacts DEF NewUpdater, StateUpdaters
<1>6. NewStore \in Stores /\ ~ NewStore.ready /\ NewStore.slot = 0
  BY <1>1, SlotFacts DEF NewStore, Stores
<1>7. Down \in Links /\ Down.at = 0 /\ Down.sent = {} /\ Down.status = "down"
  BY SlotFacts DEF Down, Links
<1> QED BY <1>1, <1>4, <1>5, <1>6, <1>7 DEF Unversioned

(* The tables of the chain are accounts.                                   *)
LEMMA ContentsAreAccounts == \A c \in Contents : c \in MaybeAccount
BY ContentAssumption, SlotFacts DEF Contents, MaybeAccount

(* What an object that is well formed consists of.                         *)
LEMMA UpdaterFacts ==
  ASSUME NEW u \in StateUpdaters
  PROVE  /\ u.bootstrapSlot \in Slot /\ u.confirmedSlot \in Slot /\ u.recovering \in BOOLEAN
         /\ u.accounts \in Accounts /\ u.source \in Source \cup {NoSource}
         /\ \A k \in Key : u.versions[k].slot \in Int
         /\ \A s \in Slot : u.pending[s] \in Seq(Write)
         /\ \A s \in Slot : \A i \in DOMAIN u.pending[s] : u.pending[s][i] \in Write
<1>1. \A k \in Key : u.versions[k] \in [slot: Slot, version: Version] \cup {Unversioned}
  BY DEF StateUpdaters, Versions
<1>2. \A k \in Key : u.versions[k].slot \in Int
  BY <1>1, SlotFacts DEF Unversioned
<1>3. \A s \in Slot : u.pending[s] \in Seq(Write)
  BY DEF StateUpdaters
<1>4. \A s \in Slot : \A i \in DOMAIN u.pending[s] : u.pending[s][i] \in Write
  BY <1>3
<1> QED BY <1>2, <1>3, <1>4 DEF StateUpdaters

(* What an event consists of.                                              *)
LEMMA EventFacts ==
  ASSUME NEW e \in Events
  PROVE  /\ e.source \in Source
         /\ e.type \in {"Connected", "Disconnected", "Malformed", "Account", "ConfirmedSlot"}
         /\ e.type = "Account" =>
              /\ e.write \in Write /\ e.write.key \in Key /\ e.write.slot \in Slot
              /\ Decoded(e) \in StateEvents
              /\ Decoded(e).type = "Account" /\ Decoded(e).write = e.write
         /\ e.type = "ConfirmedSlot" =>
              /\ e.slot \in Slot
              /\ Decoded(e) \in StateEvents
              /\ Decoded(e).type = "ConfirmedSlot" /\ Decoded(e).slot = e.slot
BY DEF Events, Decoded, StateEvents, Write

(* The same of the events that are replayed.                               *)
LEMMA StateEventFacts ==
  ASSUME NEW e \in StateEvents
  PROVE  /\ e.type \in {"Account", "ConfirmedSlot"}
         /\ e.type = "Account" => e.write \in Write /\ e.write.key \in Key /\ e.write.slot \in Slot
         /\ e.type = "ConfirmedSlot" => e.slot \in Slot
BY DEF StateEvents, Write

-----------------------------------------------------------------------------
(* The chain                                                               *)

(* A chain grows at its tip and changes nothing before it.                 *)
LEMMA ChainGrows ==
  ASSUME ledger \in [Slot -> Accounts], tip \in Slot, ConfirmSlot
  PROVE  /\ tip' = tip + 1 /\ tip' \in Slot
         /\ ledger' \in [Slot -> Accounts]
         /\ \A s \in 0 .. tip : ledger'[s] = ledger[s]
         /\ \A s \in 1 .. tip : Changed(s)' = Changed(s)
<1>1. tip' = tip + 1 /\ tip' \in Slot
  BY SlotFacts DEF ConfirmSlot, Slot
<1>2. PICK next \in [Key -> Contents] :
        ledger' = [s \in 0 .. MaxSlot |-> IF s <= tip THEN ledger[s] ELSE next]
  BY DEF ConfirmSlot
<1>3. next \in Accounts
  BY ContentsAreAccounts DEF Accounts
<1>4. ledger' \in [Slot -> Accounts]
  BY <1>2, <1>3 DEF Slot
<1>5. \A s \in 0 .. tip : ledger'[s] = ledger[s]
  BY <1>2, SlotFacts DEF Slot
<1>6. ASSUME NEW s \in 1 .. tip
      PROVE  Changed(s)' = Changed(s)
  <2>1. s \in 0 .. tip /\ s - 1 \in 0 .. tip
    BY SlotFacts
  <2> QED BY <2>1, <1>5 DEF Changed
<1> QED BY <1>1, <1>4, <1>5, <1>6

(* A table that is not written in any slot after d up to e is the same as  *)
(* of both: the first slot where it differs would have written it.         *)
LEMMA UnchangedTable ==
  ASSUME NEW k \in Key, NEW d \in Slot, NEW e \in Slot, d <= e,
         \A s \in (d + 1) .. e : k \notin Changed(s)
  PROVE  ledger[e][k] = ledger[d][k]
<1> SUFFICES ASSUME ledger[e][k] # ledger[d][k] PROVE FALSE
  OBVIOUS
<1> DEFINE D == { s \in d .. e : ledger[s][k] # ledger[d][k] }
<1>1. d \in Nat /\ e \in Nat
  BY SlotFacts
<1>2. D \in SUBSET Nat /\ e \in D
  BY <1>1
<1>3. Min(D) \in D /\ \A s \in D : Min(D) <= s
  <2> HIDE DEF D
  <2> QED BY <1>2, MinIsLowerBound
<1>4. PICK m \in D : \A s \in D : m <= s
  BY <1>3
<1>5. m \in (d + 1) .. e
  BY <1>1
<1>6. m - 1 \in d .. e /\ m - 1 \notin D
  BY <1>1, <1>4, <1>5
<1>7. ledger[m - 1][k] = ledger[d][k] /\ ledger[m][k] # ledger[d][k]
  BY <1>6
<1> QED BY <1>5, <1>7 DEF Changed

(* Tables that were as of slots of a page still are when the chain grows.  *)
LEMMA AsOfStays ==
  ASSUME TypeOK, ConfirmSlot, UNCHANGED rpc, NEW t, NEW c \in Slot, c <= tip,
         AsOf(t, PageSlots(c))
  PROVE  AsOf(t, PageSlots(c))'
<1>1. /\ tip' = tip + 1 /\ tip \in Slot
      /\ \A s \in 0 .. tip : ledger'[s] = ledger[s]
  BY ChainGrows DEF TypeOK
<1>2. \A d \in PageSlots(c) : d \in PageSlots(c)' /\ ledger'[d] = ledger[d]
  BY <1>1, SlotFacts DEF PageSlots
<1> QED BY <1>2 DEF AsOf

(* A state built from a session still is when the chain grows.             *)
LEMMA FromSessionOnChain ==
  ASSUME TypeOK, ConfirmSlot, UNCHANGED <<rpc, delivered, active>>, delivered <= tip,
         NEW u \in StateUpdaters, FromSession(u)
  PROVE  FromSession(u)'
<1>1. /\ tip' = tip + 1 /\ tip' \in Slot /\ tip \in Slot /\ delivered \in Slot
      /\ \A s \in 0 .. tip : ledger'[s] = ledger[s]
  BY ChainGrows DEF TypeOK
<1>2. u.confirmedSlot \in Slot /\ u.confirmedSlot <= tip /\ u.confirmedSlot <= tip'
  BY <1>1, SlotFacts, UpdaterFacts DEF FromSession
<1>3. rpc # "lagging" => AsOf(u.accounts, PageSlots(u.confirmedSlot))'
  BY <1>2, AsOfStays DEF FromSession
<1>4. ASSUME NEW s \in Slot, NEW i \in DOMAIN u.pending[s]
      PROVE  ledger'[s] = ledger[s]
  <2>1. s <= delivered
    BY <1>4 DEF FromSession
  <2> QED BY <1>1, <2>1, SlotFacts
<1> QED BY <1>2, <1>3, <1>4 DEF FromSession

(* What is complete stays complete when the chain grows.                   *)
LEMMA CompleteOnChain ==
  ASSUME TypeOK, SessionsInOrder, ConfirmSlot,
         UNCHANGED <<rpc, link, events, delivered, active>>,
         NEW x \in Slot, NEW u, NEW buf \in Seq(StateEvents),
         \A i \in DOMAIN buf : FromChain(active, buf[i]), Complete(x, u, buf)
  PROVE  Complete(x, u, buf)'
<1>1. /\ tip' = tip + 1 /\ tip \in Slot /\ delivered \in Slot
      /\ \A s \in 1 .. tip : Changed(s)' = Changed(s)
  BY ChainGrows DEF TypeOK
<1>2. \A c \in 0 .. delivered : \A s \in (x + 1) .. c : Changed(s)' = Changed(s)
  BY <1>1, SlotFacts DEF SessionsInOrder
<1>3. \A n, k, s : Held(u, buf, n, k, s)' <=> Held(u, buf, n, k, s)
  BY DEF Held, Coming, Cut, Buffered, Staged, IsWrite
<1>4. ASSUME NEW j \in DOMAIN buf, NEW c \in Slot, IsConfirm(buf[j], c)
      PROVE  c \in 0 .. delivered
  <2>1. buf[j].type = "ConfirmedSlot" /\ buf[j].slot = c
    BY <1>4 DEF IsConfirm
  <2> QED BY <2>1 DEF FromChain
<1>5. ASSUME NEW j \in DOMAIN events, NEW c \in Slot, IsConfirm(events[j], c)
      PROVE  c \in 0 .. delivered
  <2>1. events[j].type = "ConfirmedSlot" /\ events[j].slot = c
    BY <1>5 DEF IsConfirm
  <2> QED BY <2>1 DEF FromChain, SessionsInOrder
<1>6. delivered \in 0 .. delivered
  BY <1>1, SlotFacts
<1>7. \A k, s : Sent(active, k, s)' <=> Sent(active, k, s)
  BY DEF Sent
<1>8. Continues' <=> Continues
  BY DEF Continues, Cut
<1>9. \A j : Coming(j)' <=> Coming(j)
  BY DEF Coming, Cut
<1> QED BY <1>2, <1>3, <1>4, <1>5, <1>6, <1>7, <1>8, <1>9 DEF Complete, Staged, IsWrite, IsConfirm

(* The channel is the same, and so is what is still to come of it.         *)
LEMMA SameChannel ==
  ASSUME UNCHANGED <<link, events, active>>
  PROVE  /\ \A u, buf : Ordered(u, buf) <=> Ordered(u, buf)'
         /\ \A y : UNCHANGED <<delivered, connected>> => (SessionOf(y)' <=> SessionOf(y))
         /\ \A e, f : InOrder(e, f)' <=> InOrder(e, f)
<1>1. \A i, j, y : Cut(y, i, j)' <=> Cut(y, i, j)
  BY DEF Cut
<1>2. \A j : Coming(j)' <=> Coming(j)
  BY DEF Coming, Cut
<1>3. Continues' <=> Continues
  BY DEF Continues, Cut
<1>4. \A y, e : HasSent(y, e)' <=> HasSent(y, e)
  BY DEF HasSent, Sent
<1>5. \A y, k, s : Sent(y, k, s)' <=> Sent(y, k, s)
  BY DEF Sent
<1>6. \A e, f : InOrder(e, f)' <=> InOrder(e, f)
  BY DEF InOrder
<1>7. \A u, e : IsAhead(u, e)' <=> IsAhead(u, e)
  BY DEF IsAhead
<1>8. \A u, buf : Ordered(u, buf) <=> Ordered(u, buf)'
  BY <1>2, <1>3, <1>4, <1>5, <1>6, <1>7 DEF Ordered
<1>9. \A y : UNCHANGED <<delivered, connected>> => (SessionOf(y)' <=> SessionOf(y))
  BY <1>1, <1>4, <1>6 DEF SessionOf
<1> QED BY <1>6, <1>8, <1>9

(* A confirmed block of the chain disturbs nothing.                        *)
LEMMA ConfirmBlockInv == ServiceInv /\ ConfirmBlock => ServiceInv'
<1> SUFFICES ASSUME ServiceInv, ConfirmBlock PROVE ServiceInv'
  OBVIOUS
<1>1. /\ ConfirmSlot
      /\ UNCHANGED <<rpc, link, events, delivered, phase, active, connected>>
      /\ UNCHANGED <<updater, fresh, store, refreshing, buffered, floor, stop, faults>>
  BY DEF ConfirmBlock, feed, service, place, states, refresh
<1>2. TypeOK /\ SessionsInOrder
  BY DEF ServiceInv
<1>3. /\ tip' = tip + 1 /\ tip' \in Slot /\ tip \in Slot /\ delivered \in Slot
      /\ ledger' \in [Slot -> Accounts]
      /\ \A s \in 0 .. tip : ledger'[s] = ledger[s]
  BY <1>1, <1>2, ChainGrows DEF TypeOK
<1>4. TypeOK'
  BY <1>1, <1>2, <1>3 DEF TypeOK
<1>5. delivered <= tip /\ delivered' <= tip'
  BY <1>1, <1>2, <1>3, SlotFacts DEF SessionsInOrder
<1>6. SessionsInOrder'
  <2>1. \A y, e : FromChain(y, e) => FromChain(y, e)'
    <3> SUFFICES ASSUME NEW y, NEW e, FromChain(y, e) PROVE FromChain(y, e)'
      OBVIOUS
    <3>1. \A s \in 1 .. delivered : ledger'[s] = ledger[s]
      BY <1>3, <1>5, SlotFacts
    <3> QED BY <1>1, <3>1 DEF FromChain
  <2>2. \A y : SessionOf(y)' <=> SessionOf(y)
    BY <1>1, SameChannel
  <2> QED BY <1>1, <1>2, <1>5, <2>1, <2>2 DEF SessionsInOrder
<1>7. PhasesInOrder' /\ Overtakes'
  BY <1>1 DEF ServiceInv, PhasesInOrder, Overtakes, Working, Serving, Replaying, Fetching, IsConfirm
<1>8. StoreIsLedger'
  <2>1. store.slot \in Slot /\ store.slot <= tip /\ store.slot <= tip'
    <3>1. store.slot \in Slot
      BY <1>2 DEF TypeOK, Stores
    <3>2. store.slot <= tip
      BY DEF ServiceInv, StoreIsLedger
    <3>3. store.slot \in Nat /\ tip \in Nat /\ tip' = tip + 1
      BY <1>3, <3>1, SlotFacts
    <3> QED BY ONLY <3>1, <3>2, <3>3
  <2>2. AsOf(store.accounts, PageSlots(store.slot)) => AsOf(store.accounts, PageSlots(store.slot))'
    BY <1>1, <1>2, <2>1, AsOfStays
  <2>3. StoreIsLedger
    BY DEF ServiceInv
  <2>4. rpc' # "lagging" /\ store'.slot > 0 => AsOf(store.accounts, PageSlots(store.slot))'
    BY ONLY <1>1, <2>2, <2>3 DEF StoreIsLedger
  <2> QED BY ONLY <1>1, <2>1, <2>3, <2>4 DEF StoreIsLedger
<1>9. \A u \in StateUpdaters : FromSession(u) => FromSession(u)'
  BY <1>1, <1>2, <1>5, FromSessionOnChain
<1>10. \A u, buf : Ordered(u, buf) => Ordered(u, buf)'
  BY <1>1, SameChannel
<1>11. \A u \in StateUpdaters, x \in Slot : Complete(x, u, << >>) => Complete(x, u, << >>)'
  <2>1. << >> \in Seq(StateEvents) /\ DOMAIN << >> = {}
    OBVIOUS
  <2> QED BY <1>1, <1>2, <2>1, CompleteOnChain
<1>12. \A u \in StateUpdaters, x \in Slot : Complete(x, u, buffered) => Complete(x, u, buffered)'
  <2>1. buffered \in Seq(StateEvents) /\ \A i \in DOMAIN buffered : FromChain(active, buffered[i])
    BY <1>2 DEF TypeOK, SessionsInOrder
  <2>2. PICK b : b = buffered
    OBVIOUS
  <2>3. \A u \in StateUpdaters, x \in Slot : Complete(x, u, b) => Complete(x, u, b)'
    BY <1>1, <1>2, <2>1, <2>2, CompleteOnChain
  <2> QED BY <1>1, <2>2, <2>3
<1>13. \A x : TakesOver(x) => TakesOver(x)'
  BY <1>1 DEF TakesOver, Staged, Buffered, IsWrite
<1>14. /\ updater \in StateUpdaters /\ fresh \in StateUpdaters /\ floor \in Slot
       /\ updater.confirmedSlot \in Slot /\ fresh.confirmedSlot \in Slot
  BY <1>2, UpdaterFacts DEF TypeOK
<1>15. /\ (Working' <=> Working) /\ (Serving' <=> Serving)
       /\ (Replaying' <=> Replaying) /\ (Fetching' <=> Fetching)
  BY <1>1 DEF Working, Serving, Replaying, Fetching
<1> QED BY <1>1, <1>4, <1>6, <1>7, <1>8, <1>9, <1>10, <1>11, <1>12, <1>13, <1>14, <1>15
        DEF ServiceInv

-----------------------------------------------------------------------------
(* The source threads                                                      *)

(* A sent event is the last of the channel.                                *)
LEMMA AppendedEvent ==
  ASSUME events \in Seq(Events), NEW e \in Events, events' = Append(events, e), active' = active,
         NEW n, n = Len(events) + 1
  PROVE  /\ events' \in Seq(Events) /\ Len(events) \in Nat /\ n \in Nat /\ Len(events') = n
         /\ DOMAIN events' = DOMAIN events \cup {n}
         /\ \A i \in DOMAIN events : events'[i] = events[i] /\ i \in Nat /\ i < n
         /\ n \in DOMAIN events' /\ events'[n] = e
         /\ \A z, i : \A j \in Int : j < n => (Cut(z, i, j)' <=> Cut(z, i, j))
         /\ \A z : \A i \in Int : i <= n =>
              (Cut(z, i, n)' <=> Cut(z, i, Len(events)) \/ (e.source = z /\ e.type = "Disconnected"))
         /\ \A j \in DOMAIN events : Coming(j)' <=> Coming(j)
         /\ Coming(n)' <=>
              e.source = active /\ ~ Cut(active, 1, Len(events)) /\ e.type # "Disconnected"
         /\ Continues' <=>
              /\ link'[active].status = "stream" /\ ~ Cut(active, 1, Len(events))
              /\ ~ (e.source = active /\ e.type = "Disconnected")
<1>1. /\ events' \in Seq(Events) /\ Len(events) \in Nat /\ n \in Nat /\ Len(events') = n
      /\ DOMAIN events' = DOMAIN events \cup {n}
      /\ \A i \in DOMAIN events : events'[i] = events[i] /\ i \in Nat /\ i < n
      /\ events'[n] = e
  BY AppendFacts
<1>2. ASSUME NEW z, NEW i, NEW j \in Int, j < n
      PROVE  Cut(z, i, j)' <=> Cut(z, i, j)
  BY <1>1, <1>2 DEF Cut
<1>3. ASSUME NEW z, NEW i \in Int, i <= n
      PROVE  Cut(z, i, n)' <=> Cut(z, i, Len(events)) \/ (e.source = z /\ e.type = "Disconnected")
  <2>1. \A m \in DOMAIN events : m <= Len(events) /\ m <= n
    BY <1>1
  <2>2. ASSUME Cut(z, i, n)', ~ (e.source = z /\ e.type = "Disconnected")
        PROVE  Cut(z, i, Len(events))
    <3>1. PICK m \in DOMAIN events' :
            i <= m /\ m <= n /\ events'[m].source = z /\ events'[m].type = "Disconnected"
      BY <2>2 DEF Cut
    <3>2. m # n
      BY <1>1, <2>2, <3>1
    <3>3. m \in DOMAIN events
      BY <1>1, <3>2
    <3> QED BY <1>1, <2>1, <3>1, <3>3 DEF Cut
  <2>3. Cut(z, i, Len(events)) => Cut(z, i, n)'
    BY <1>1, <2>1 DEF Cut
  <2>4. e.source = z /\ e.type = "Disconnected" => Cut(z, i, n)'
    BY <1>1, <1>3 DEF Cut
  <2> QED BY <2>2, <2>3, <2>4, Zenon DEF Cut
<1>4. ASSUME NEW j \in DOMAIN events
      PROVE  Coming(j)' <=> Coming(j)
  <2>1. j \in Int /\ j < n
    BY <1>1
  <2>2. Cut(active, 1, j)' <=> Cut(active, 1, j)
    <3>1. PICK a : a = active
      OBVIOUS
    <3>2. Cut(a, 1, j)' <=> Cut(a, 1, j)
      BY <1>2, <2>1
    <3> QED BY <3>1, <3>2
  <2> QED BY <1>1, <2>2 DEF Coming
<1>5. Cut(active, 1, n)' <=> Cut(active, 1, Len(events)) \/ (e.source = active /\ e.type = "Disconnected")
  <2>1. PICK a : a = active
    OBVIOUS
  <2>2. 1 <= n
    BY <1>1
  <2>3. Cut(a, 1, n)' <=> Cut(a, 1, Len(events)) \/ (e.source = a /\ e.type = "Disconnected")
    BY <1>3, <2>2
  <2> QED BY <2>1, <2>3
<1>6. /\ Coming(n)' <=>
           e.source = active /\ ~ Cut(active, 1, Len(events)) /\ e.type # "Disconnected"
      /\ Continues' <=>
           /\ link'[active].status = "stream" /\ ~ Cut(active, 1, Len(events))
           /\ ~ (e.source = active /\ e.type = "Disconnected")
  BY <1>1, <1>5 DEF Coming, Continues
<1> QED BY <1>1, <1>2, <1>3, <1>4, <1>6

(* A step of the channel that neither adds to the session that the updater *)
(* follows nor takes from it, and goes on with it only as it was.          *)
SessionUndisturbed ==
  /\ UNCHANGED <<ledger, active>>
  /\ \A i \in DOMAIN events : i \in DOMAIN events' /\ events'[i] = events[i] /\ (Coming(i)' <=> Coming(i))
  /\ \A i \in DOMAIN events' : Coming(i)' => i \in DOMAIN events
  /\ Continues' => Continues /\ link'[active] = link[active] /\ Len(events) <= Len(events')
                /\ Len(events') \in Nat

(* Such a step leaves what is still to come in order and complete.         *)
LEMMA UndisturbedStays ==
  ASSUME TypeOK, SessionsInOrder, SessionUndisturbed, delivered' \in Slot,
         NEW u, NEW buf
  PROVE  /\ Ordered(u, buf) => Ordered(u, buf)'
         /\ \A x \in Slot : Complete(x, u, buf) => Complete(x, u, buf)'
<1> USE DEF SessionUndisturbed
<1>1. \A e, f : InOrder(e, f)' <=> InOrder(e, f)
  BY DEF InOrder
<1>2. \A e : IsAhead(u, e)' <=> IsAhead(u, e)
  BY DEF IsAhead
<1>3. \A k, s : Sent(active, k, s) /\ Continues' => Sent(active, k, s)'
  BY DEF Sent
<1>4. \A e : HasSent(active, e) /\ Continues' => HasSent(active, e)'
  BY <1>3 DEF HasSent, Sent
<1>5. ASSUME Ordered(u, buf) PROVE Ordered(u, buf)'
  <2>1. Continues' =>
          /\ \A i \in DOMAIN buf : HasSent(active, buf[i])'
          /\ \A k \in Key : Sent(active, k, u.versions[k].slot)'
          /\ u.bootstrapSlot < u.confirmedSlot => u.confirmedSlot <= link'[active].at
    BY <1>3, <1>4, <1>5 DEF Ordered
  <2>2. \A j \in DOMAIN events' : Coming(j)' =>
          /\ IsAhead(u, events'[j])
          /\ \A i \in DOMAIN buf : InOrder(buf[i], events'[j])
    BY <1>5 DEF Ordered
  <2> QED BY <1>1, <1>2, <1>5, <2>1, <2>2 DEF Ordered
<1>6. ASSUME NEW x \in Slot, Complete(x, u, buf) PROVE Complete(x, u, buf)'
  <2>1. \A s : Changed(s)' = Changed(s)
    BY DEF Changed
  <2>2. \A k, s : Staged(u, k, s)' <=> Staged(u, k, s)
    BY DEF Staged
  <2>3. ASSUME NEW j, NEW k, NEW s, Held(u, buf, j, k, s)
        PROVE  Held(u, buf, j, k, s)'
    BY <2>3 DEF Held, Staged, Buffered, IsWrite
  <2>4. ASSUME NEW c \in Slot, NEW j \in DOMAIN events', Coming(j)', IsConfirm(events'[j], c),
               NEW s \in (x + 1) .. c, NEW k \in Changed(s)
        PROVE  Held(u, buf, j, k, s)'
    BY <1>6, <2>3, <2>4 DEF Complete
  <2>5. ASSUME Continues', NEW s \in (x + 1) .. delivered', NEW k \in Changed(s), Sent(active, k, s)'
        PROVE  \A n : n = Len(events') + 1 => Held(u, buf, n, k, s)'
    <3>1. Sent(active, k, s)
      BY <2>5 DEF Sent
    <3>2. s \in (x + 1) .. delivered
      <4>1. active \in Source /\ SessionOf(active) /\ link[active] \in Links
        BY DEF TypeOK, SessionsInOrder
      <4>2. link[active].at <= delivered /\ (link[active].sent # {} => link[active].at < delivered)
        BY <4>1 DEF SessionOf
      <4>3. link[active].at \in Nat /\ delivered \in Nat /\ s \in Int /\ x \in Nat
        BY <4>1, SlotFacts DEF Links, TypeOK
      <4> QED BY <3>1, <4>2, <4>3 DEF Sent
    <3>3. \A n : n = Len(events) + 1 => Held(u, buf, n, k, s)
      BY <1>6, <2>5, <3>1, <3>2 DEF Complete
    <3>4. ASSUME NEW n, NEW m \in Nat, n \in Nat, n <= m, \A i \in DOMAIN events : i \in Nat, Held(u, buf, n, k, s)
          PROVE  Held(u, buf, m, k, s)'
      <4>1. Held(u, buf, n, k, s)'
        BY <3>4, <2>3
      <4>2. \A i \in DOMAIN events' : i < n /\ Coming(i)' => i \in DOMAIN events /\ i < m
        BY <3>4
      <4> QED BY <4>1, <4>2 DEF Held
    <3>5. Len(events) + 1 \in Nat /\ (\A i \in DOMAIN events : i \in Nat)
      BY DEF TypeOK
    <3>6. PICK l \in Nat : l = Len(events) + 1
      BY <3>5
    <3>7. Held(u, buf, l, k, s)
      BY <3>3, <3>6
    <3> SUFFICES ASSUME NEW n, n = Len(events') + 1 PROVE Held(u, buf, n, k, s)'
      OBVIOUS
    <3>8. n \in Nat /\ l <= n
      BY <2>5, <3>6
    <3> QED BY <3>4, <3>5, <3>6, <3>7, <3>8
  <2>6. \A j \in DOMAIN buf : \A c \in Slot : IsConfirm(buf[j], c) =>
          \A s \in (x + 1) .. c : \A k \in Changed(s) :
            Staged(u, k, s) \/ \E i \in DOMAIN buf : i < j /\ IsWrite(buf[i], k, s)
    BY <1>6 DEF Complete
  <2> QED BY <2>1, <2>2, <2>4, <2>5, <2>6 DEF Complete, IsConfirm, IsWrite
<1> QED BY <1>5, <1>6

(* The next write of source y: of the slot after the last it has confirmed,*)
(* and of a key that it has not sent yet.                                  *)
IsNext(y, e) ==
  /\ e.type = "Account" => e.write.slot = link[y].at + 1 /\ e.write.key \notin link[y].sent
  /\ e.type = "ConfirmedSlot" =>
       e.slot = link[y].at + 1 /\ Changed(link[y].at + 1) = link[y].sent

(* It comes after all that the source has sent before.                     *)
LEMMA NextIsInOrder ==
  ASSUME NEW y, link[y].at \in Slot, NEW e, NEW f, IsNext(y, e), HasSent(y, f),
         f.type = "Account" => f.write.slot \in Slot, f.type = "ConfirmedSlot" => f.slot \in Slot
  PROVE  InOrder(f, e)
<1> SUFFICES ASSUME e.type = "Account" PROVE InOrder(f, e)
  BY DEF InOrder
<1>1. e.write.slot = link[y].at + 1 /\ e.write.key \notin link[y].sent /\ link[y].at \in Nat
  BY SlotFacts DEF IsNext
<1>2. ASSUME f.type = "Account", f.write.key = e.write.key
      PROVE  f.write.slot < e.write.slot
  <2>1. Sent(y, f.write.key, f.write.slot) /\ f.write.slot \in Nat
    BY <1>2, SlotFacts DEF HasSent
  <2> QED BY <1>1, <1>2, <2>1 DEF Sent
<1>3. ASSUME f.type = "ConfirmedSlot"
      PROVE  f.slot < e.write.slot
  <2>1. f.slot <= link[y].at /\ f.slot \in Nat
    BY <1>3, SlotFacts DEF HasSent
  <2> QED BY <1>1, <2>1
<1> QED BY <1>2, <1>3 DEF InOrder

(* Source y sends the next event of its session.                           *)
Sends(y, e) ==
  /\ e \in Events /\ e.source = y /\ e.type \in {"Account", "ConfirmedSlot", "Malformed"}
  /\ IsNext(y, e)
  /\ events' = Append(events, e)
  /\ UNCHANGED <<ledger, active>>
  /\ link[y].status = "stream" /\ link'[y].status = "stream"
  /\ link[y].at <= link'[y].at /\ link'[y].at \in Slot
  /\ \A k : \A s \in Int : Sent(y, k, s) => Sent(y, k, s)'
  /\ \A s \in Slot : \A k \in Changed(s) : Sent(y, k, s)' => Sent(y, k, s) \/ IsWrite(e, k, s)
  /\ delivered' \in Slot /\ delivered <= delivered'
  /\ HasSent(y, e)'

(* The session that the updater follows grows at its end.                  *)
LEMMA FollowedSends ==
  ASSUME TypeOK, SessionsInOrder, NEW e, Sends(active, e), Continues,
         NEW u \in StateUpdaters, NEW buf \in Seq(StateEvents)
  PROVE  /\ Ordered(u, buf) => Ordered(u, buf)'
         /\ \A x \in Slot : Complete(x, u, buf) => Complete(x, u, buf)'
<1> USE DEF Sends
<1>1. PICK n : n = Len(events) + 1
  OBVIOUS
<1>2. e \in Events /\ events \in Seq(Events) /\ active \in Source
  BY DEF TypeOK
<1>3. /\ n \in Nat /\ Len(events) \in Nat /\ Len(events') = n
      /\ DOMAIN events' = DOMAIN events \cup {n}
      /\ \A i \in DOMAIN events : events'[i] = events[i] /\ i \in Nat /\ i < n
      /\ n \in DOMAIN events' /\ events'[n] = e
      /\ \A j \in DOMAIN events : Coming(j)' <=> Coming(j)
      /\ Coming(n)'
  BY <1>1, <1>2, AppendedEvent DEF Continues
<1>4. /\ link[active] \in Links /\ link[active].at \in Slot /\ link[active].at \in Nat
      /\ SessionOf(active)
      /\ link[active].at <= delivered /\ (link[active].sent # {} => link[active].at < delivered)
      /\ delivered \in Nat
  BY <1>2, SlotFacts DEF TypeOK, Links, SessionsInOrder, SessionOf
<1>5. \A f, g : InOrder(f, g)' <=> InOrder(f, g)
  BY DEF InOrder
<1>6. \A f : IsAhead(u, f)' <=> IsAhead(u, f)
  BY DEF IsAhead
<1>7. /\ \A k \in Key : u.versions[k].slot \in Int
      /\ u.bootstrapSlot \in Nat /\ u.confirmedSlot \in Nat
  BY UpdaterFacts, SlotFacts
<1>8. \A i \in DOMAIN buf : buf[i] \in StateEvents
  OBVIOUS
<1>9. ASSUME Ordered(u, buf) PROVE Ordered(u, buf)'
  <2>1. /\ \A i \in DOMAIN buf : HasSent(active, buf[i])
        /\ \A k \in Key : Sent(active, k, u.versions[k].slot)
        /\ u.bootstrapSlot < u.confirmedSlot => u.confirmedSlot <= link[active].at
    BY <1>9 DEF Ordered
  <2>2. \A i \in DOMAIN buf : InOrder(buf[i], e)
    BY <1>4, <1>8, <2>1, NextIsInOrder, StateEventFacts
  <2>3. IsAhead(u, e)
    <3> SUFFICES ASSUME e.type = "Account" PROVE IsAhead(u, e)
      BY DEF IsAhead
    <3>1. e.write.slot = link[active].at + 1 /\ e.write.key \notin link[active].sent /\ e.write.key \in Key
      BY <1>2, EventFacts DEF IsNext
    <3>2. Sent(active, e.write.key, u.versions[e.write.key].slot)
      BY <2>1, <3>1
    <3>3. u.versions[e.write.key].slot <= link[active].at
      BY <3>1, <3>2 DEF Sent
    <3> QED BY <1>4, <1>7, <2>1, <3>1, <3>3 DEF IsAhead
  <2>4. \A j \in DOMAIN events' : Coming(j)' =>
          /\ IsAhead(u, events'[j])
          /\ \A i \in DOMAIN buf : InOrder(buf[i], events'[j])
    BY <1>3, <1>9, <2>2, <2>3 DEF Ordered
  <2>5. \A i \in DOMAIN buf : HasSent(active, buf[i])'
    <3>1. \A i \in DOMAIN buf : HasSent(active, buf[i]) /\ buf[i] \in StateEvents
      BY <1>8, <2>1
    <3>2. ASSUME NEW f \in StateEvents, HasSent(active, f) PROVE HasSent(active, f)'
      <4>1. /\ f.type = "ConfirmedSlot" => f.slot \in Nat
            /\ f.type = "Account" => f.write.slot \in Int
        BY SlotFacts, StateEventFacts
      <4>2. link'[active].at \in Int
        BY SlotFacts
      <4> QED BY <1>4, <3>2, <4>1, <4>2 DEF HasSent
    <3> QED BY <3>1, <3>2
  <2>6. \A k \in Key : Sent(active, k, u.versions[k].slot)'
    BY <1>7, <2>1
  <2>7. u.bootstrapSlot < u.confirmedSlot => u.confirmedSlot <= link'[active].at
    <3>1. link'[active].at \in Nat
      BY SlotFacts
    <3> QED BY <1>4, <1>7, <2>1, <3>1
  <2> QED
    BY <1>5, <1>6, <1>9, <2>4, <2>5, <2>6, <2>7 DEF Ordered
<1>10. ASSUME NEW x \in Slot, Complete(x, u, buf) PROVE Complete(x, u, buf)'
  <2>1. \A s : Changed(s)' = Changed(s)
    BY DEF Changed
  <2>2. \A k, s : Staged(u, k, s)' <=> Staged(u, k, s)
    BY DEF Staged
  <2>3. ASSUME NEW j \in Nat, NEW m \in Nat, j <= m, NEW k, NEW s, Held(u, buf, j, k, s)
        PROVE  Held(u, buf, m, k, s)'
    <3>1. \A i \in DOMAIN events : i < j => i < m
      BY <1>3, <2>3
    <3> QED BY <1>3, <2>2, <2>3, <3>1 DEF Held, Buffered, IsWrite
  <2>4. \A s \in (x + 1) .. delivered : \A k \in Changed(s) :
          Sent(active, k, s) => Held(u, buf, n, k, s)
    BY <1>1, <1>10 DEF Complete
  <2>5. ASSUME NEW c \in Slot, NEW j \in DOMAIN events', Coming(j)', IsConfirm(events'[j], c),
               NEW s \in (x + 1) .. c, NEW k \in Changed(s)
        PROVE  Held(u, buf, j, k, s)'
    <3>1. CASE j = n
      <4>1. e.type = "ConfirmedSlot" /\ e.slot = c
        BY <1>3, <2>5, <3>1 DEF IsConfirm
      <4>2. c = link[active].at + 1 /\ Changed(link[active].at + 1) = link[active].sent
        BY <4>1 DEF IsNext
      <4>3. s \in Int /\ x \in Int /\ c \in Int /\ s <= c /\ x + 1 <= s
        BY SlotFacts
      <4>4. Sent(active, k, s)
        BY <1>4, <4>2, <4>3 DEF Sent
      <4>5. s \in (x + 1) .. delivered
        BY <1>4, <4>2, <4>3, <4>4 DEF Sent
      <4> QED BY <1>3, <2>3, <2>4, <3>1, <4>4, <4>5
    <3>2. CASE j # n
      <4>1. j \in DOMAIN events /\ j \in Nat /\ Coming(j) /\ IsConfirm(events[j], c)
        BY <1>3, <2>5, <3>2
      <4>2. Held(u, buf, j, k, s)
        BY <1>10, <4>1 DEF Complete
      <4> QED BY <2>3, <4>1, <4>2
    <3> QED BY <3>1, <3>2
  <2>6. ASSUME NEW s \in (x + 1) .. delivered', NEW k \in Changed(s), Sent(active, k, s)', NEW m, m = n + 1
        PROVE  Held(u, buf, m, k, s)'
    <3>1. s \in Slot /\ s \in Nat /\ x + 1 <= s /\ s <= delivered'
      BY SlotFacts DEF Slot
    <3>2. CASE Sent(active, k, s)
      <4>1. s \in (x + 1) .. delivered
        BY <1>4, <3>1, <3>2, SlotFacts DEF Sent
      <4> QED BY <1>3, <2>3, <2>4, <2>6, <3>2, <4>1
    <3>3. CASE IsWrite(e, k, s)
      <4>1. n < m
        BY <1>3, <2>6
      <4> QED BY <1>3, <3>3, <4>1 DEF Held, IsWrite
    <3> QED BY <2>6, <3>1, <3>2, <3>3
  <2>7. \A j \in DOMAIN buf : \A c \in Slot : IsConfirm(buf[j], c) =>
          \A s \in (x + 1) .. c : \A k \in Changed(s) :
            Staged(u, k, s) \/ \E i \in DOMAIN buf : i < j /\ IsWrite(buf[i], k, s)
    BY <1>10 DEF Complete
  <2> QED BY <1>3, <2>1, <2>2, <2>5, <2>6, <2>7 DEF Complete, IsConfirm, IsWrite
<1> QED BY <1>9, <1>10

(* The sessions of the other sources.                                      *)
LEMMA OtherSessions ==
  ASSUME TypeOK, SessionsInOrder, NEW y \in Source, NEW z \in Source, z # y,
         UNCHANGED <<active, connected>>, link'[z] = link[z], delivered' \in Slot, delivered <= delivered',
         events' = events \/ \E e \in Events : e.source = y /\ events' = Append(events, e)
  PROVE  SessionOf(z)'
<1>1. SessionOf(z) /\ events \in Seq(Events) /\ link[z] \in Links
  BY DEF SessionsInOrder, TypeOK
<1>2. link'[z].at <= delivered' /\ (link'[z].sent # {} => link'[z].at < delivered')
  <2>1. link[z].at \in Nat /\ delivered \in Nat /\ delivered' \in Nat
    BY <1>1, SlotFacts DEF Links, TypeOK
  <2> QED BY <1>1, <2>1 DEF SessionOf
<1>3. \A f, g : InOrder(f, g)' <=> InOrder(f, g)
  BY DEF InOrder
<1>4. \A f : HasSent(z, f)' <=> HasSent(z, f)
  BY DEF HasSent, Sent
<1>5. CASE events' = events
  <2>1. \A i, j : Cut(z, i, j)' <=> Cut(z, i, j)
    BY <1>5 DEF Cut
  <2> QED BY <1>1, <1>2, <1>3, <1>4, <1>5, <2>1 DEF SessionOf
<1>6. ASSUME NEW e \in Events, e.source = y, events' = Append(events, e) PROVE SessionOf(z)'
  <2>1. PICK n : n = Len(events) + 1
    OBVIOUS
  <2>2. /\ n \in Nat /\ Len(events) \in Nat /\ Len(events') = n
        /\ DOMAIN events' = DOMAIN events \cup {n}
        /\ \A i \in DOMAIN events : events'[i] = events[i] /\ i \in Nat /\ i < n
        /\ events'[n] = e
        /\ \A i : \A j \in Int : j < n => (Cut(z, i, j)' <=> Cut(z, i, j))
        /\ \A i \in Int : i <= n => (Cut(z, i, n)' <=> Cut(z, i, Len(events)))
    BY <1>1, <1>6, <2>1, AppendedEvent
  <2>3. \A i \in DOMAIN events' : events'[i].source = z => i \in DOMAIN events
    BY <1>6, <2>2
  <2>4. ASSUME NEW i \in DOMAIN events', NEW j \in DOMAIN events',
               events'[i].source = z, events'[j].source = z, i < j, ~ Cut(z, i, j)'
        PROVE  InOrder(events'[i], events'[j])
    <3>1. i \in DOMAIN events /\ j \in DOMAIN events
      BY <2>3, <2>4
    <3>2. ~ Cut(z, i, j)
      BY <2>2, <2>4, <3>1
    <3> QED BY <1>1, <1>3, <2>2, <2>4, <3>1, <3>2 DEF SessionOf
  <2>5. ASSUME NEW i \in DOMAIN events', events'[i].source = z, ~ Cut(z, i, n)'
        PROVE  /\ link'[z].status \notin {"down", "greet"}
               /\ link'[z].status = "stream" => \A f : f = events'[i] => HasSent(z, f)'
    <3>1. i \in DOMAIN events /\ ~ Cut(z, i, Len(events))
      BY <2>2, <2>3, <2>5
    <3> QED BY <1>1, <1>4, <2>2, <2>5, <3>1 DEF SessionOf
  <2>6. Cut(z, 1, Len(events)) => Cut(z, 1, n)'
    BY <2>2
  <2> QED BY <1>1, <1>2, <1>3, <1>4, <2>2, <2>4, <2>5, <2>6 DEF SessionOf
<1> QED BY <1>5, <1>6

(* The session of a source that sends its next event.                      *)
LEMMA SessionSends ==
  ASSUME TypeOK, SessionsInOrder, NEW y \in Source, NEW e, Sends(y, e), UNCHANGED connected,
         link'[y].at <= delivered', link'[y].sent # {} => link'[y].at < delivered'
  PROVE  SessionOf(y)'
<1> USE DEF Sends
<1>1. /\ SessionOf(y) /\ events \in Seq(Events) /\ link[y] \in Links
      /\ link[y].at \in Slot /\ link[y].at \in Nat /\ link'[y].at \in Nat
  BY SlotFacts DEF SessionsInOrder, TypeOK, Links
<1>2. PICK n : n = Len(events) + 1
  OBVIOUS
<1>3. /\ n \in Nat /\ Len(events) \in Nat /\ Len(events') = n
      /\ DOMAIN events' = DOMAIN events \cup {n}
      /\ \A i \in DOMAIN events : events'[i] = events[i] /\ i \in Nat /\ i < n
      /\ events'[n] = e
      /\ \A i : \A j \in Int : j < n => (Cut(y, i, j)' <=> Cut(y, i, j))
      /\ \A i \in Int : i <= n => (Cut(y, i, n)' <=> Cut(y, i, Len(events)))
  BY <1>1, <1>2, AppendedEvent
<1>4. \A f, g : InOrder(f, g)' <=> InOrder(f, g)
  BY DEF InOrder
<1>5. ASSUME NEW i \in DOMAIN events, events[i].source = y, ~ Cut(y, i, Len(events))
      PROVE  HasSent(y, events[i]) /\ HasSent(y, events[i])' /\ InOrder(events[i], e)
  <2>1. HasSent(y, events[i])
    BY <1>1, <1>5 DEF SessionOf
  <2>2. events[i] \in Events
    BY <1>1
  <2>3. InOrder(events[i], e)
    BY <1>1, <2>1, <2>2, NextIsInOrder, EventFacts
  <2>4. ASSUME NEW f \in Events, HasSent(y, f) PROVE HasSent(y, f)'
    <3>1. /\ f.type = "ConfirmedSlot" => f.slot \in Nat
          /\ f.type = "Account" => f.write.slot \in Int
      BY SlotFacts, EventFacts
    <3> QED BY <1>1, <2>4, <3>1 DEF HasSent
  <2>5. events'[i] = events[i]
    BY <1>3
  <2> QED BY <2>1, <2>2, <2>3, <2>4, <2>5
<1>6. ASSUME NEW i \in DOMAIN events', NEW j \in DOMAIN events',
             events'[i].source = y, events'[j].source = y, i < j, ~ Cut(y, i, j)'
      PROVE  InOrder(events'[i], events'[j])
  <2>1. i \in DOMAIN events /\ i < n
    BY <1>3, <1>6
  <2>2. CASE j = n
    BY <1>3, <1>5, <1>6, <2>1, <2>2
  <2>3. CASE j # n
    <3>1. j \in DOMAIN events /\ j \in Int /\ j < n
      BY <1>3, <2>3
    <3>2. ~ Cut(y, i, j)
      BY <1>3, <1>6, <3>1
    <3> QED BY <1>1, <1>3, <1>6, <2>1, <3>1, <3>2 DEF SessionOf
  <2> QED BY <2>2, <2>3
<1>7. ASSUME NEW i \in DOMAIN events', events'[i].source = y, ~ Cut(y, i, n)'
      PROVE  \A f : f = events'[i] => HasSent(y, f)'
  <2>1. CASE i = n
    BY <1>3, <2>1
  <2>2. CASE i # n
    <3>1. i \in DOMAIN events /\ i \in Int /\ i <= n
      BY <1>3, <2>2
    <3>2. ~ Cut(y, i, Len(events)) /\ events[i].source = y
      BY <1>3, <1>7, <3>1
    <3> QED BY <1>3, <1>5, <3>1, <3>2
  <2> QED BY <2>1, <2>2
<1> QED BY <1>3, <1>4, <1>6, <1>7 DEF SessionOf

(* A source that opens or leaves a session without a word in the channel.  *)
LEMMA SessionRelinks ==
  ASSUME NEW y, SessionOf(y), UNCHANGED <<events, connected>>,
         link'[y].status # "stream",
         link'[y].status \in {"down", "greet"} => link[y].status \in {"down", "greet"},
         link'[y].at <= delivered', link'[y].sent # {} => link'[y].at < delivered'
  PROVE  SessionOf(y)'
<1>1. \A i, j : Cut(y, i, j)' <=> Cut(y, i, j)
  BY DEF Cut
<1>2. \A f, g : InOrder(f, g)' <=> InOrder(f, g)
  BY DEF InOrder
<1> QED BY <1>1, <1>2 DEF SessionOf

(* A source that announces the session it has opened, or reports the one   *)
(* that has failed: nothing of a session before is left uncut.             *)
LEMMA SessionTurns ==
  ASSUME TypeOK, SessionsInOrder, NEW y \in Source, NEW e \in Events, e.source = y,
         events' = Append(events, e), UNCHANGED <<active, connected, delivered>>,
         link'[y].at = link[y].at, link'[y].sent = link[y].sent,
         \/ e.type = "Connected" /\ link[y].status = "greet" /\ link'[y].status = "stream"
         \/ e.type = "Disconnected" /\ link[y].status = "fail" /\ link'[y].status = "down"
  PROVE  SessionOf(y)'
<1>1. SessionOf(y) /\ events \in Seq(Events)
  BY DEF SessionsInOrder, TypeOK
<1>2. PICK n : n = Len(events) + 1
  OBVIOUS
<1>3. /\ n \in Nat /\ Len(events) \in Nat /\ Len(events') = n
      /\ DOMAIN events' = DOMAIN events \cup {n}
      /\ \A i \in DOMAIN events : events'[i] = events[i] /\ i \in Nat /\ i < n
      /\ events'[n] = e /\ 1 <= n
      /\ \A i : \A j \in Int : j < n => (Cut(y, i, j)' <=> Cut(y, i, j))
      /\ \A i \in Int : i <= n =>
           (Cut(y, i, n)' <=> Cut(y, i, Len(events)) \/ (e.source = y /\ e.type = "Disconnected"))
  BY <1>1, <1>2, AppendedEvent
<1>4. \A f, g : InOrder(f, g)' <=> InOrder(f, g)
  BY DEF InOrder
<1>5. ASSUME NEW i \in DOMAIN events, events[i].source = y, link[y].status = "greet"
      PROVE  Cut(y, i, Len(events))
  BY <1>1, <1>5 DEF SessionOf
<1>6. ASSUME NEW i \in DOMAIN events', NEW j \in DOMAIN events',
             events'[i].source = y, events'[j].source = y, i < j, ~ Cut(y, i, j)'
      PROVE  InOrder(events'[i], events'[j])
  <2>1. i \in DOMAIN events /\ i < n
    BY <1>3, <1>6
  <2>2. CASE j = n
    BY <1>3, <2>2 DEF InOrder
  <2>3. CASE j # n
    <3>1. j \in DOMAIN events /\ j \in Int /\ j < n
      BY <1>3, <2>3
    <3>2. ~ Cut(y, i, j)
      BY <1>3, <1>6, <3>1
    <3> QED BY <1>1, <1>3, <1>6, <2>1, <3>1, <3>2 DEF SessionOf
  <2> QED BY <2>2, <2>3
<1>7. ASSUME NEW i \in DOMAIN events', events'[i].source = y, ~ Cut(y, i, n)'
      PROVE  /\ link'[y].status \notin {"down", "greet"}
             /\ link'[y].status = "stream" => \A f : f = events'[i] => HasSent(y, f)'
  <2>1. i \in Int /\ i <= n
    BY <1>3
  <2>2. e.type = "Connected" /\ link[y].status = "greet" /\ ~ Cut(y, i, Len(events))
    BY <1>3, <1>7, <2>1
  <2>3. i = n
    BY <1>3, <1>5, <1>7, <2>2
  <2> QED BY <1>3, <2>2, <2>3 DEF HasSent
<1>8. link'[y].status \in {"down", "greet"} => Cut(y, 1, n)'
  BY <1>3
<1> QED BY <1>1, <1>3, <1>4, <1>6, <1>7, <1>8 DEF SessionOf

(* When a source acts the service does not.                                *)
LEMMA FeedInv ==
  ASSUME ServiceInv, UNCHANGED <<ledger, tip, rpc, service>>, TypeOK',
         delivered <= delivered', delivered' <= tip,
         \A i \in DOMAIN events' : \A f : f = events'[i] => FromChain(f.source, f)',
         \A y \in Source : SessionOf(y)',
         Working => \A u \in StateUpdaters, buf \in Seq(StateEvents) :
           /\ Ordered(u, buf) => Ordered(u, buf)'
           /\ \A x \in Slot : Complete(x, u, buf) => Complete(x, u, buf)'
  PROVE  ServiceInv'
<1>1. /\ UNCHANGED <<ledger, tip, rpc, phase, active, connected>>
      /\ UNCHANGED <<updater, fresh, store, refreshing, buffered, floor>>
  BY DEF service, place, states, refresh
<1>2. TypeOK /\ delivered \in Nat /\ delivered' \in Nat /\ tip \in Nat
  BY SlotFacts DEF ServiceInv, TypeOK
<1>3. SessionsInOrder'
  <2>1. \A y, f : FromChain(y, f) => FromChain(y, f)'
    BY <1>1, <1>2 DEF FromChain
  <2>2. \A i \in DOMAIN buffered : FromChain(active, buffered[i])'
    BY <1>1, <2>1 DEF ServiceInv, SessionsInOrder
  <2>3. \A i \in DOMAIN events' : FromChain(events[i].source, events[i])'
    OBVIOUS
  <2> QED BY <1>1, <2>2, <2>3 DEF SessionsInOrder
<1>4. PhasesInOrder' /\ Overtakes' /\ StoreIsLedger'
  BY <1>1 DEF ServiceInv, PhasesInOrder, Overtakes, StoreIsLedger, Working, Serving, Replaying, Fetching,
              IsConfirm, AsOf, PageSlots
<1>5. ASSUME NEW u \in StateUpdaters, FromSession(u)
      PROVE  FromSession(u)'
  <2>1. \A s \in Slot : s <= delivered => s <= delivered'
    BY <1>2, SlotFacts
  <2> QED BY <1>1, <1>5, <2>1 DEF FromSession, AsOf, PageSlots
<1>6. \A x : TakesOver(x) => TakesOver(x)'
  BY <1>1 DEF TakesOver, Staged, Buffered, IsWrite
<1>7. /\ updater \in StateUpdaters /\ fresh \in StateUpdaters /\ floor \in Slot
      /\ buffered \in Seq(StateEvents) /\ << >> \in Seq(StateEvents)
      /\ updater.confirmedSlot \in Slot /\ fresh.confirmedSlot \in Slot
  BY <1>2, UpdaterFacts DEF TypeOK
<1>8. /\ (Working' <=> Working) /\ (Serving' <=> Serving)
      /\ (Replaying' <=> Replaying) /\ (Fetching' <=> Fetching)
      /\ (Serving => Working) /\ (Replaying => Working) /\ (Fetching => Working)
  BY <1>1 DEF Working, Serving, Replaying, Fetching
<1> QED BY <1>1, <1>3, <1>4, <1>5, <1>6, <1>7, <1>8 DEF ServiceInv

(* The newest streamed slot never goes back.                               *)
LEMMA DeliverFacts ==
  ASSUME delivered \in Slot, NEW s \in Slot, Deliver(s)
  PROVE  /\ delivered' \in Slot /\ delivered <= delivered' /\ s <= delivered'
         /\ delivered' = delivered \/ delivered' = s
<1>1. delivered \in Nat /\ s \in Nat
  BY SlotFacts
<1>2. delivered' = IF delivered >= s THEN delivered ELSE s
  BY <1>1, MaxOfTwo DEF Deliver
<1> QED BY <1>1, <1>2

(* A source opens or leaves a session silently.                            *)
LEMMA RelinkInv ==
  ASSUME ServiceInv, NEW y \in Source, NEW l \in Links, link' = [link EXCEPT ![y] = l],
         UNCHANGED <<ledger, tip, rpc, events, service, stop>>, faults' \in Nat,
         delivered' \in Slot, delivered <= delivered', delivered' <= tip,
         l.status # "stream",
         l.status \in {"down", "greet"} => link[y].status \in {"down", "greet"},
         l.at <= delivered', l.sent # {} => l.at < delivered'
  PROVE  ServiceInv'
<1>1. UNCHANGED <<active, connected>>
  BY DEF service, place
<1>2. TypeOK /\ SessionsInOrder /\ link'[y] = l /\ \A z \in Source : z # y => link'[z] = link[z]
  BY DEF ServiceInv, TypeOK
<1>3. TypeOK'
  BY <1>2 DEF TypeOK, service, place, states, refresh
<1>4. SessionOf(y)'
  BY <1>1, <1>2, SessionRelinks DEF SessionsInOrder
<1>5. \A z \in Source : z # y => SessionOf(z)'
  BY <1>1, <1>2, OtherSessions
<1>6. \A z, f : FromChain(z, f) => FromChain(z, f)'
  <2>1. delivered \in Nat /\ delivered' \in Nat
    BY <1>2, SlotFacts DEF TypeOK
  <2> QED BY <2>1 DEF FromChain
<1>7. \A i \in DOMAIN events : FromChain(events[i].source, events[i])
  BY <1>2 DEF SessionsInOrder
<1>8. \A i \in DOMAIN events' : \A f : f = events'[i] => FromChain(f.source, f)'
  BY <1>6, <1>7
<1>9. SessionUndisturbed
  <2>1. \A i : Coming(i)' <=> Coming(i)
    BY <1>1 DEF Coming, Cut
  <2>2. Continues' => Continues /\ link'[active] = link[active]
    BY <1>1, <1>2 DEF Continues, Cut, TypeOK
  <2>3. Len(events) \in Nat
    BY <1>2 DEF TypeOK
  <2> QED BY <1>1, <2>1, <2>2, <2>3 DEF SessionUndisturbed
<1>10. \A u \in StateUpdaters, buf \in Seq(StateEvents) :
         /\ Ordered(u, buf) => Ordered(u, buf)'
         /\ \A x \in Slot : Complete(x, u, buf) => Complete(x, u, buf)'
  BY <1>2, <1>9, UndisturbedStays
<1>11. \A z \in Source : SessionOf(z)'
  BY <1>4, <1>5
<1> QED BY <1>3, <1>8, <1>10, <1>11, FeedInv

(* A source sends the next event of its session.                           *)
LEMMA SendsInv ==
  ASSUME ServiceInv, NEW y \in Source, NEW e, Sends(y, e),
         NEW l \in Links, link' = [link EXCEPT ![y] = l],
         UNCHANGED <<ledger, tip, rpc, service, stop>>, faults' \in Nat, delivered' <= tip,
         l.at <= delivered', l.sent # {} => l.at < delivered', FromChain(y, e)'
  PROVE  ServiceInv'
<1>1. UNCHANGED <<active, connected>>
  BY DEF service, place
<1>2. TypeOK /\ SessionsInOrder /\ link'[y] = l /\ \A z \in Source : z # y => link'[z] = link[z]
  BY DEF ServiceInv, TypeOK
<1>3. e \in Events /\ e.source = y /\ events' = Append(events, e) /\ events \in Seq(Events)
  BY <1>2 DEF Sends, TypeOK
<1>4. PICK n : n = Len(events) + 1
  OBVIOUS
<1>5. /\ events' \in Seq(Events) /\ Len(events) \in Nat /\ Len(events') = n /\ n \in Nat
      /\ DOMAIN events' = DOMAIN events \cup {n}
      /\ \A i \in DOMAIN events : events'[i] = events[i]
      /\ events'[n] = e
      /\ \A j \in DOMAIN events : Coming(j)' <=> Coming(j)
      /\ Coming(n)' <=>
           e.source = active /\ ~ Cut(active, 1, Len(events)) /\ e.type # "Disconnected"
      /\ Continues' <=>
           /\ link'[active].status = "stream" /\ ~ Cut(active, 1, Len(events))
           /\ ~ (e.source = active /\ e.type = "Disconnected")
  BY <1>1, <1>3, <1>4, AppendedEvent
<1>6. delivered' \in Slot /\ delivered <= delivered'
  BY DEF Sends
<1>7. TypeOK'
  BY <1>2, <1>5, <1>6 DEF TypeOK, service, place, states, refresh
<1>8. \A z \in Source : SessionOf(z)'
  <2>1. SessionOf(y)'
    BY <1>1, <1>2, SessionSends
  <2> QED BY <1>1, <1>2, <1>3, <1>6, <2>1, OtherSessions
<1>9. \A i \in DOMAIN events' : \A f : f = events'[i] => FromChain(f.source, f)'
  <2>1. delivered \in Nat /\ delivered' \in Nat
    BY <1>2, <1>6, SlotFacts DEF TypeOK
  <2>2. \A z, f : FromChain(z, f) => FromChain(z, f)'
    BY <1>6, <2>1 DEF FromChain
  <2>3. \A i \in DOMAIN events : FromChain(events[i].source, events[i])
    BY <1>2 DEF SessionsInOrder
  <2> QED BY <1>3, <1>5, <2>2, <2>3
<1>10. ASSUME NEW u \in StateUpdaters, NEW buf \in Seq(StateEvents)
       PROVE  /\ Ordered(u, buf) => Ordered(u, buf)'
              /\ \A x \in Slot : Complete(x, u, buf) => Complete(x, u, buf)'
  <2>1. CASE y = active /\ Continues
    BY <1>2, <2>1, FollowedSends
  <2>2. CASE ~ (y = active /\ Continues)
    <3>1. ~ (y = active /\ ~ Cut(active, 1, Len(events)))
      BY <2>2 DEF Sends, Continues
    <3>2. ~ Coming(n)'
      BY <1>3, <1>5, <3>1
    <3>3. Continues' => Continues /\ link'[active] = link[active]
      BY <1>2, <1>5, <3>1 DEF Continues, TypeOK
    <3>4. Len(events) <= Len(events') /\ Len(events') \in Nat
      BY <1>4, <1>5
    <3>5. SessionUndisturbed
      BY <1>1, <1>5, <3>2, <3>3, <3>4 DEF SessionUndisturbed
    <3> QED BY <1>2, <1>6, <3>5, UndisturbedStays
  <2> QED BY <2>1, <2>2
<1> QED BY <1>6, <1>7, <1>8, <1>9, <1>10, FeedInv

(* A source announces or reports.                                          *)
LEMMA TurnsInv ==
  ASSUME ServiceInv, NEW y \in Source, NEW e \in Events, e.source = y,
         events' = Append(events, e), NEW l \in Links, link' = [link EXCEPT ![y] = l],
         UNCHANGED <<ledger, tip, rpc, delivered, service, stop, faults>>,
         l.at = link[y].at, l.sent = link[y].sent,
         \/ e.type = "Connected" /\ link[y].status = "greet" /\ l.status = "stream"
         \/ e.type = "Disconnected" /\ link[y].status = "fail" /\ l.status = "down"
  PROVE  ServiceInv'
<1>1. UNCHANGED <<active, connected>>
  BY DEF service, place
<1>2. TypeOK /\ SessionsInOrder /\ link'[y] = l /\ \A z \in Source : z # y => link'[z] = link[z]
  BY DEF ServiceInv, TypeOK
<1>3. PICK n : n = Len(events) + 1
  OBVIOUS
<1>4. /\ events' \in Seq(Events) /\ Len(events) \in Nat /\ Len(events') = n /\ n \in Nat
      /\ DOMAIN events' = DOMAIN events \cup {n}
      /\ \A i \in DOMAIN events : events'[i] = events[i]
      /\ events'[n] = e
      /\ \A j \in DOMAIN events : Coming(j)' <=> Coming(j)
      /\ Coming(n)' <=>
           e.source = active /\ ~ Cut(active, 1, Len(events)) /\ e.type # "Disconnected"
      /\ Continues' <=>
           /\ link'[active].status = "stream" /\ ~ Cut(active, 1, Len(events))
           /\ ~ (e.source = active /\ e.type = "Disconnected")
  BY <1>1, <1>2, <1>3, AppendedEvent DEF TypeOK
<1>5. delivered' \in Slot /\ delivered \in Nat /\ delivered <= delivered' /\ delivered' <= tip
  BY <1>2, SlotFacts DEF TypeOK, SessionsInOrder
<1>6. TypeOK'
  BY <1>2, <1>4, <1>5 DEF TypeOK, service, place, states, refresh
<1>7. \A z \in Source : SessionOf(z)'
  <2>1. SessionOf(y)'
    BY <1>1, <1>2, SessionTurns
  <2> QED BY <1>1, <1>2, <1>5, <2>1, OtherSessions
<1>8. \A i \in DOMAIN events' : \A f : f = events'[i] => FromChain(f.source, f)'
  <2>1. \A z, f : FromChain(z, f) => FromChain(z, f)'
    BY DEF FromChain
  <2>2. \A i \in DOMAIN events : FromChain(events[i].source, events[i])
    BY <1>2 DEF SessionsInOrder
  <2>3. \A f : f = e => FromChain(y, f)
    BY DEF FromChain
  <2> QED BY <1>4, <2>1, <2>2, <2>3
<1>9. ASSUME Working, NEW u \in StateUpdaters, NEW buf \in Seq(StateEvents)
      PROVE  /\ Ordered(u, buf) => Ordered(u, buf)'
             /\ \A x \in Slot : Complete(x, u, buf) => Complete(x, u, buf)'
  <2>1. e.type # "Disconnected" => ~ (y = active /\ ~ Cut(active, 1, Len(events)))
    <3> SUFFICES ASSUME e.type # "Disconnected", y = active PROVE Cut(active, 1, Len(events))
      OBVIOUS
    <3>1. active \in connected /\ SessionOf(y)
      BY <1>2, <1>9 DEF ServiceInv, PhasesInOrder, SessionsInOrder
    <3> QED BY <3>1 DEF SessionOf
  <2>2. ~ Coming(n)'
    BY <1>4, <2>1
  <2>3. Continues' => Continues /\ link'[active] = link[active]
    BY <1>2, <1>4, <2>1 DEF Continues, TypeOK
  <2>4. Len(events) <= Len(events') /\ Len(events') \in Nat
    BY <1>3, <1>4
  <2>5. SessionUndisturbed
    BY <1>1, <1>4, <2>2, <2>3, <2>4 DEF SessionUndisturbed
  <2> QED BY <1>2, <1>5, <2>5, UndisturbedStays
<1> QED BY <1>5, <1>6, <1>7, <1>8, <1>9, FeedInv

(* Every step of a source thread.                                          *)
LEMMA SourceInv ==
  ASSUME ServiceInv, NEW y \in Source,
         SourceStep(y) \/ SubscribeFails(y) \/ SendMalformed(y) \/ StreamFails(y) \/ SourceStops(y)
  PROVE  ServiceInv'
<1>1. /\ TypeOK /\ SessionsInOrder /\ SessionOf(y) /\ link \in [Source -> Links]
      /\ link[y] \in Links /\ link[y].at \in Slot /\ link[y].sent \subseteq Key
      /\ link[y].status \in {"down", "greet", "stream", "fail", "ended"}
      /\ delivered \in Slot /\ tip \in Slot /\ delivered <= tip
      /\ ledger \in [Slot -> Accounts] /\ stop \in BOOLEAN
  BY DEF ServiceInv, TypeOK, SessionsInOrder, Links
<1>2. /\ link[y].at \in Nat /\ delivered \in Nat /\ tip \in Nat /\ tip <= MaxSlot
      /\ link[y].at <= delivered /\ (link[y].sent # {} => link[y].at < delivered)
  BY <1>1, SlotFacts DEF SessionOf
<1>4. CASE Subscribe(y)
  <2>1. PICK p \in 1 .. tip :
          /\ link' = [link EXCEPT ![y] = [status |-> "greet", at |-> p, sent |-> {}]]
          /\ Deliver(p)
    BY <1>4 DEF Subscribe
  <2>2. p \in Slot /\ p <= tip
    BY <1>2, SlotFacts
  <2>3. delivered' \in Slot /\ delivered <= delivered' /\ p <= delivered' /\ delivered' <= tip
    BY <1>1, <2>1, <2>2, DeliverFacts
  <2>4. PICK l \in Links : l = [status |-> "greet", at |-> p, sent |-> {}]
    BY <2>2 DEF Links
  <2>5. UNCHANGED <<ledger, tip, rpc, events, service, stop>> /\ faults' \in Nat
    BY <1>1, <1>4 DEF Subscribe, chain, TypeOK
  <2>6. link[y].status = "down"
    BY <1>4 DEF Subscribe
  <2> QED BY <2>1, <2>3, <2>4, <2>5, <2>6, RelinkInv
<1>5. CASE SubscribeFails(y)
  <2>1. PICK l \in Links : l = [link[y] EXCEPT !.status = "fail"]
    BY <1>1 DEF Links
  <2>2. l.status = "fail" /\ l.at = link[y].at /\ l.sent = link[y].sent
    BY <1>1, <2>1 DEF Links
  <2>3. link' = [link EXCEPT ![y] = l]
    BY <1>5, <2>1 DEF SubscribeFails
  <2>4. UNCHANGED <<ledger, tip, rpc, events, service, stop, delivered>> /\ faults' \in Nat
    BY <1>1, <1>5 DEF SubscribeFails, chain, TypeOK, Fault
  <2>5. /\ delivered' \in Slot /\ delivered <= delivered' /\ delivered' <= tip
        /\ l.at <= delivered' /\ (l.sent # {} => l.at < delivered')
    BY <1>1, <1>2, <2>2, <2>4
  <2>6. l.status # "stream" /\ l.status \notin {"down", "greet"}
    BY <2>2
  <2> QED BY <2>3, <2>4, <2>5, <2>6, RelinkInv
<1>6. CASE StreamFails(y) \/ SourceStops(y)
  <2>1. PICK l \in Links :
          /\ l \in { [status |-> "fail", at |-> 0, sent |-> {}], [status |-> "ended", at |-> 0, sent |-> {}] }
          /\ link' = [link EXCEPT ![y] = l]
    BY <1>6, SlotFacts DEF Links, StreamFails, SourceStops
  <2>2. l.status \in {"fail", "ended"} /\ l.at = 0 /\ l.sent = {}
    BY <2>1
  <2>3. UNCHANGED <<ledger, tip, rpc, events, service, stop, delivered>> /\ faults' \in Nat
    BY <1>1, <1>6 DEF StreamFails, SourceStops, chain, TypeOK, Fault
  <2>4. /\ delivered' \in Slot /\ delivered <= delivered' /\ delivered' <= tip
        /\ l.at <= delivered' /\ (l.sent # {} => l.at < delivered')
    BY <1>1, <1>2, <2>2, <2>3
  <2>5. l.status # "stream" /\ l.status \notin {"down", "greet"}
    BY <2>2
  <2> QED BY <2>1, <2>3, <2>4, <2>5, RelinkInv
<1>7. CASE SendConnected(y)
  <2>1. PICK l \in Links : l = [link[y] EXCEPT !.status = "stream"]
    BY <1>1 DEF Links
  <2>2. l.status = "stream" /\ l.at = link[y].at /\ l.sent = link[y].sent
    BY <1>1, <2>1 DEF Links
  <2>3. PICK e \in Events : e = [source |-> y, type |-> "Connected"]
    BY DEF Events
  <2>4. link' = [link EXCEPT ![y] = l] /\ events' = Append(events, e)
    BY <1>7, <2>1, <2>3 DEF SendConnected, Send
  <2>5. UNCHANGED <<ledger, tip, rpc, delivered, service, stop, faults>> /\ link[y].status = "greet"
    BY <1>7 DEF SendConnected, chain
  <2>6. e.type = "Connected" /\ e.source = y
    BY <2>3
  <2> QED BY <2>2, <2>4, <2>5, <2>6, TurnsInv
<1>8. CASE SendDisconnected(y)
  <2>1. PICK l \in Links : l = [link[y] EXCEPT !.status = "down"]
    BY <1>1 DEF Links
  <2>2. l.status = "down" /\ l.at = link[y].at /\ l.sent = link[y].sent
    BY <1>1, <2>1 DEF Links
  <2>3. PICK e \in Events : e = [source |-> y, type |-> "Disconnected"]
    BY DEF Events
  <2>4. link' = [link EXCEPT ![y] = l] /\ events' = Append(events, e)
    BY <1>8, <2>1, <2>3 DEF SendDisconnected, Send
  <2>5. UNCHANGED <<ledger, tip, rpc, delivered, service, stop, faults>> /\ link[y].status = "fail"
    BY <1>8 DEF SendDisconnected, chain
  <2>6. e.type = "Disconnected" /\ e.source = y
    BY <2>3
  <2> QED BY <2>2, <2>4, <2>5, <2>6, TurnsInv
<1>9. CASE SendMalformed(y)
  <2>1. PICK e \in Events : e = [source |-> y, type |-> "Malformed"]
    BY DEF Events
  <2>2. /\ e.source = y /\ e.type = "Malformed" /\ events' = Append(events, e)
        /\ UNCHANGED <<ledger, tip, rpc, link, delivered, service, stop>> /\ faults' \in Nat
        /\ link[y].status = "stream"
    BY <1>1, <1>9, <2>1 DEF SendMalformed, Send, chain, TypeOK, Fault
  <2>3. PICK l \in Links : l = link[y]
    BY <1>1
  <2>4. link' = [link EXCEPT ![y] = l]
    BY <1>1, <2>2, <2>3
  <2>5. \A k, s : Sent(y, k, s)' <=> Sent(y, k, s)
    BY <2>2 DEF Sent
  <2>6. IsNext(y, e) /\ HasSent(y, e)' /\ FromChain(y, e)'
    BY <2>2 DEF IsNext, HasSent, FromChain
  <2>7. Sends(y, e)
    BY <1>1, <1>2, <2>2, <2>5, <2>6 DEF Sends, service, place
  <2> QED BY <1>1, <1>2, <2>2, <2>3, <2>4, <2>6, <2>7, SendsInv
<1>10. ASSUME NEW k \in Key, SendAccount(y, k) PROVE ServiceInv'
  <2> DEFINE s == link[y].at + 1
  <2>1. /\ s \in Slot /\ s \in 1 .. tip /\ s <= tip /\ s \in Nat
        /\ k \in Changed(s) /\ k \notin link[y].sent /\ link[y].status = "stream"
    BY <1>2, <1>10, SlotFacts DEF SendAccount
  <2>2. PICK w \in Write : w = [key |-> k, slot |-> s, version |-> y + 1, account |-> ledger[s][k]]
    <3>1. y + 1 \in Version
      BY SourceAssumption, WriteVersionAssumption
    <3>2. ledger[s][k] \in MaybeAccount
      BY <1>1, <2>1 DEF Accounts
    <3> QED BY <2>1, <3>1, <3>2 DEF Write
  <2>3. w.key = k /\ w.slot = s /\ w.version = y + 1 /\ w.account = ledger[s][k]
    BY <2>2
  <2>4. PICK e \in Events : e = [source |-> y, type |-> "Account", write |-> w]
    BY DEF Events
  <2>5. e.source = y /\ e.type = "Account" /\ e.write = w
    BY <2>4
  <2>6. PICK l \in Links : l = [link[y] EXCEPT !.sent = @ \cup {k}]
    BY <1>1 DEF Links
  <2>7. l.status = "stream" /\ l.at = link[y].at /\ l.sent = link[y].sent \cup {k}
    BY <1>1, <2>1, <2>6 DEF Links
  <2>8. /\ link' = [link EXCEPT ![y] = l] /\ events' = Append(events, e) /\ Deliver(s)
        /\ UNCHANGED <<ledger, tip, rpc, service, stop>> /\ faults' \in Nat
    <3>2. link' = [link EXCEPT ![y] = l]
      BY <1>1, <1>10, <2>6 DEF SendAccount
    <3> QED BY <1>1, <1>10, <2>2, <2>4, <3>2 DEF SendAccount, Send, chain, TypeOK
  <2>9. link'[y] = l
    BY <1>1, <2>8
  <2>10. delivered' \in Slot /\ delivered <= delivered' /\ s <= delivered' /\ delivered' <= tip
    BY <1>1, <2>1, <2>8, DeliverFacts
  <2>11. IsNext(y, e) /\ HasSent(y, e)' /\ FromChain(y, e)'
    <3>1. delivered' \in Nat
      BY <2>10, SlotFacts
    <3>2. IsNext(y, e)
      BY <2>1, <2>3, <2>5 DEF IsNext
    <3>3. HasSent(y, e)'
      BY <2>3, <2>5, <2>7, <2>9 DEF HasSent, Sent
    <3>4. s \in 1 .. delivered'
      BY <2>1, <2>10, <3>1
    <3>5. FromChain(y, e)'
      BY <2>3, <2>5, <2>8, <3>4 DEF FromChain
    <3> QED BY <3>2, <3>3, <3>5
  <2>12. \A c, r : /\ Sent(y, c, r) => Sent(y, c, r)'
                   /\ Sent(y, c, r)' => Sent(y, c, r) \/ IsWrite(e, c, r)
    BY <2>3, <2>5, <2>7, <2>9 DEF Sent, IsWrite
  <2>13. Sends(y, e)
    BY <1>1, <1>2, <2>1, <2>5, <2>7, <2>8, <2>9, <2>10, <2>11, <2>12 DEF Sends, service, place
  <2>14. l.at <= delivered' /\ l.at < delivered'
    <3>1. delivered' \in Nat
      BY <2>10, SlotFacts
    <3> QED BY <1>2, <2>7, <2>10, <3>1
  <2> HIDE DEF s
  <2> QED BY <2>8, <2>10, <2>11, <2>13, <2>14, SendsInv
<1>11. CASE SendConfirmedSlot(y)
  <2> DEFINE s == link[y].at + 1
  <2>1. /\ s \in Slot /\ s \in 1 .. tip /\ s <= tip /\ s \in Nat
        /\ Changed(s) = link[y].sent /\ link[y].status = "stream"
    BY <1>2, <1>11, SlotFacts DEF SendConfirmedSlot
  <2>2. PICK e \in Events : e = [source |-> y, type |-> "ConfirmedSlot", slot |-> s]
    BY <2>1 DEF Events
  <2>3. e.source = y /\ e.type = "ConfirmedSlot" /\ e.slot = s
    BY <2>2
  <2>4. PICK l \in Links : l = [link[y] EXCEPT !.at = @ + 1, !.sent = {}]
    BY <1>1, <2>1 DEF Links
  <2>5. l.status = "stream" /\ l.at = s /\ l.sent = {}
    BY <1>1, <2>1, <2>4 DEF Links
  <2>6. /\ link' = [link EXCEPT ![y] = l] /\ events' = Append(events, e) /\ Deliver(s)
        /\ UNCHANGED <<ledger, tip, rpc, service, stop>> /\ faults' \in Nat
    <3>2. link' = [link EXCEPT ![y] = l]
      BY <1>1, <1>11, <2>4 DEF SendConfirmedSlot, Links
    <3> QED BY <1>1, <1>11, <2>2, <3>2 DEF SendConfirmedSlot, Send, chain, TypeOK
  <2>7. link'[y] = l
    BY <1>1, <2>6
  <2>8. delivered' \in Slot /\ delivered <= delivered' /\ s <= delivered' /\ delivered' <= tip
    BY <1>1, <2>1, <2>6, DeliverFacts
  <2>9. IsNext(y, e) /\ HasSent(y, e)' /\ FromChain(y, e)'
    <3>1. delivered' \in Nat
      BY <2>8, SlotFacts
    <3>2. IsNext(y, e)
      BY <2>1, <2>3 DEF IsNext
    <3>3. HasSent(y, e)'
      BY <2>1, <2>3, <2>5, <2>7 DEF HasSent
    <3>4. s \in 1 .. delivered'
      BY <2>1, <2>8, <3>1
    <3>5. FromChain(y, e)'
      BY <2>3, <3>4 DEF FromChain
    <3> QED BY <3>2, <3>3, <3>5
  <2>10. ASSUME NEW c, NEW r \in Int, Sent(y, c, r) PROVE Sent(y, c, r)'
    <3>1. r <= link[y].at \/ r = link[y].at + 1
      BY <2>10 DEF Sent
    <3> QED BY <1>2, <2>5, <2>7, <3>1 DEF Sent
  <2>11. ASSUME NEW r \in Slot, NEW c \in Changed(r), Sent(y, c, r)' PROVE Sent(y, c, r)
    <3>1. r <= s /\ r \in Nat
      BY <2>5, <2>7, <2>11, SlotFacts DEF Sent
    <3>2. CASE r = s
      BY <2>1, <2>11, <3>2 DEF Sent
    <3>3. CASE r # s
      BY <1>2, <3>1, <3>3 DEF Sent
    <3> QED BY <3>2, <3>3
  <2>12. Sends(y, e)
    BY <1>1, <1>2, <2>1, <2>3, <2>5, <2>6, <2>7, <2>8, <2>9, <2>10, <2>11 DEF Sends, service, place
  <2> HIDE DEF s
  <2> QED BY <2>5, <2>6, <2>8, <2>9, <2>12, SendsInv
<1> QED BY <1>4, <1>5, <1>6, <1>7, <1>8, <1>9, <1>10, <1>11 DEF SourceStep

-----------------------------------------------------------------------------
(* The state that is built                                                 *)

(* State u can take the events of buf, and then those still to come.       *)
CanTake(u, buf) ==
  /\ u \in StateUpdaters /\ buf \in Seq(StateEvents)
  /\ \A i \in DOMAIN buf : FromChain(active, buf[i])
  /\ FromSession(u)
  /\ Ordered(u, buf)
  /\ rpc # "lagging" => Complete(u.confirmedSlot, u, buf)

(* Taking the first event off leaves the others in order.                  *)
LEMMA OrderedTail ==
  ASSUME NEW u, NEW v, NEW buf \in Seq(StateEvents), buf # << >>, NEW rest, rest = Tail(buf),
         Ordered(u, buf),
         \A e : IsAhead(u, e) /\ InOrder(buf[1], e) => IsAhead(v, e),
         Continues =>
           /\ \A k \in Key : Sent(active, k, v.versions[k].slot)
           /\ v.bootstrapSlot < v.confirmedSlot => v.confirmedSlot <= link[active].at
  PROVE  Ordered(v, rest)
<1>1. /\ \A i \in DOMAIN rest : i + 1 \in DOMAIN buf /\ rest[i] = buf[i + 1] /\ i \in Nat \ {0} /\ 1 < i + 1
      /\ 1 \in DOMAIN buf
  BY TailFacts
<1>2. ASSUME NEW i \in DOMAIN rest
      PROVE  IsAhead(v, rest[i])
  <2>1. IsAhead(u, buf[i + 1]) /\ InOrder(buf[1], buf[i + 1])
    BY <1>1 DEF Ordered
  <2> QED BY <1>1, <2>1
<1>3. ASSUME NEW i \in DOMAIN rest, NEW j \in DOMAIN rest, i < j
      PROVE  InOrder(rest[i], rest[j])
  <2>1. i + 1 < j + 1
    BY <1>1, <1>3
  <2> QED BY <1>1, <2>1 DEF Ordered
<1>4. ASSUME NEW j \in DOMAIN events, Coming(j)
      PROVE  /\ IsAhead(v, events[j])
             /\ \A i \in DOMAIN rest : InOrder(rest[i], events[j])
  BY <1>1, <1>4 DEF Ordered
<1>5. Continues => \A i \in DOMAIN rest : HasSent(active, rest[i])
  BY <1>1 DEF Ordered
<1> QED BY <1>2, <1>3, <1>4, <1>5 DEF Ordered

(* Taking the first event leaves what is needed complete.                  *)
LEMMA CompleteTail ==
  ASSUME delivered \in Slot, NEW u, NEW v, NEW buf \in Seq(StateEvents), buf # << >>,
         NEW rest, rest = Tail(buf), NEW x \in Slot, NEW z \in Slot, x <= z, Complete(x, u, buf),
         \A k \in Key, s \in Slot :
           s > z /\ (Staged(u, k, s) \/ IsWrite(buf[1], k, s)) => Staged(v, k, s)
  PROVE  Complete(z, v, rest)
<1>1. /\ \A i \in DOMAIN rest : i + 1 \in DOMAIN buf /\ rest[i] = buf[i + 1] /\ i \in Nat \ {0}
      /\ \A i \in DOMAIN buf : i = 1 \/ (i - 1 \in DOMAIN rest /\ buf[i] = rest[i - 1])
      /\ \A i \in DOMAIN buf : i \in Nat
  BY TailFacts
<1>2. ASSUME NEW c \in Slot, NEW s \in (z + 1) .. c
      PROVE  s \in (x + 1) .. c /\ s \in Slot /\ s > z /\ Changed(s) \subseteq Key
  <2>1. x \in Nat /\ z \in Nat /\ c \in Nat /\ c <= MaxSlot /\ s \in Nat
    BY SlotFacts
  <2> QED BY <2>1, SlotFacts DEF Changed
<1>3. ASSUME NEW k \in Key, NEW s \in Slot, s > z, Buffered(buf, k, s)
      PROVE  Staged(v, k, s) \/ Buffered(rest, k, s)
  BY <1>1, <1>3 DEF Buffered
<1>4. ASSUME NEW k \in Key, NEW s \in Slot, s > z, NEW n, Held(u, buf, n, k, s)
      PROVE  Held(v, rest, n, k, s)
  BY <1>3, <1>4 DEF Held
<1>5. ASSUME NEW j \in DOMAIN rest, NEW c \in Slot, IsConfirm(rest[j], c),
             NEW s \in (z + 1) .. c, NEW k \in Changed(s)
      PROVE  Staged(v, k, s) \/ \E i \in DOMAIN rest : i < j /\ IsWrite(rest[i], k, s)
  <2>1. j + 1 \in DOMAIN buf /\ IsConfirm(buf[j + 1], c) /\ j \in Nat
    BY <1>1, <1>5
  <2>2. s \in (x + 1) .. c /\ s \in Slot /\ s > z /\ k \in Key
    BY <1>2
  <2>3. CASE Staged(u, k, s)
    BY <2>2, <2>3
  <2>4. ASSUME NEW i \in DOMAIN buf, i < j + 1, IsWrite(buf[i], k, s)
        PROVE  Staged(v, k, s) \/ \E m \in DOMAIN rest : m < j /\ IsWrite(rest[m], k, s)
    <3>1. CASE i = 1
      BY <2>2, <2>4, <3>1
    <3>2. CASE i # 1
      <4>1. i - 1 \in DOMAIN rest /\ buf[i] = rest[i - 1] /\ i - 1 < j
        BY <1>1, <2>1, <2>4, <3>2
      <4> QED BY <2>4, <4>1
    <3> QED BY <3>1, <3>2
  <2> QED BY <2>1, <2>2, <2>3, <2>4 DEF Complete
<1>6. ASSUME NEW j \in DOMAIN events, NEW c \in Slot, Coming(j), IsConfirm(events[j], c),
             NEW s \in (z + 1) .. c, NEW k \in Changed(s)
      PROVE  Held(v, rest, j, k, s)
  <2>1. s \in (x + 1) .. c /\ s \in Slot /\ s > z /\ k \in Key
    BY <1>2
  <2>2. Held(u, buf, j, k, s)
    BY <1>6, <2>1 DEF Complete
  <2> QED BY <1>4, <2>1, <2>2
<1>7. ASSUME Continues, NEW s \in (z + 1) .. delivered, NEW k \in Changed(s), Sent(active, k, s)
      PROVE  Held(v, rest, Len(events) + 1, k, s)
  <2>1. s \in (x + 1) .. delivered /\ s \in Slot /\ s > z /\ k \in Key
    BY <1>2
  <2>2. Held(u, buf, Len(events) + 1, k, s)
    BY <1>7, <2>1 DEF Complete
  <2> QED BY <1>4, <2>1, <2>2
<1> QED BY <1>5, <1>6, <1>7 DEF Complete

(* A write that queue drops is of a slot before the fetched one.           *)
LEMMA WriteTaken ==
  ASSUME TypeOK, SessionsInOrder, NEW u, NEW buf, CanTake(u, buf), buf # << >>,
         NEW w, buf[1].type = "Account", w = buf[1].write,
         NEW v, v = Queue(u, w), NEW rest, rest = Tail(buf)
  PROVE  /\ CanTake(v, rest)
         /\ w \in Write /\ (w.slot < u.bootstrapSlot \/ w.slot <= v.versions[w.key].slot)
         /\ v.bootstrapSlot = u.bootstrapSlot /\ v.confirmedSlot = u.confirmedSlot
         /\ v.recovering = u.recovering /\ v.accounts = u.accounts
         /\ \A k \in Key : u.versions[k].slot <= v.versions[k].slot
         /\ \A k \in Key, s \in Slot : Staged(v, k, s) => Staged(u, k, s) \/ (k = w.key /\ s = w.slot)
<1>1. /\ u \in StateUpdaters /\ buf \in Seq(StateEvents) /\ FromSession(u) /\ Ordered(u, buf)
      /\ \A i \in DOMAIN buf : FromChain(active, buf[i])
  BY DEF CanTake
<1>2. /\ rest \in Seq(StateEvents) /\ 1 \in DOMAIN buf /\ buf[1] \in StateEvents
      /\ \A i \in DOMAIN rest : i + 1 \in DOMAIN buf /\ rest[i] = buf[i + 1]
  BY <1>1, TailFacts
<1>3. \A i \in DOMAIN rest : FromChain(active, rest[i])
  BY <1>1, <1>2
<1>4. /\ w \in Write /\ w.key \in Key /\ w.slot \in Slot /\ w.slot \in Nat
      /\ w.slot <= delivered /\ w.slot \in 1 .. delivered
      /\ w.account = ledger[w.slot][w.key] /\ w.version = active + 1
  <2>1. w \in Write /\ w.key \in Key /\ w.slot \in Slot
    BY <1>2, StateEventFacts
  <2>2. FromChain(active, buf[1])
    BY <1>1, <1>2
  <2> QED BY <2>1, <2>2, SlotFacts DEF FromChain
<1>5. u.versions[w.key].slot < w.slot /\ (u.bootstrapSlot < u.confirmedSlot => u.confirmedSlot < w.slot)
  BY <1>1, <1>2 DEF Ordered, IsAhead
<1>6. /\ u.bootstrapSlot \in Nat /\ u.confirmedSlot \in Nat /\ u.confirmedSlot \in Slot
      /\ \A k \in Key : u.versions[k].slot \in Int
      /\ u.bootstrapSlot <= u.confirmedSlot
  BY <1>1, UpdaterFacts, SlotFacts DEF FromSession
<1>7. delivered \in Slot
  BY DEF TypeOK
<1>8. Continues => Sent(active, w.key, w.slot)
  BY <1>1, <1>2 DEF Ordered, HasSent
<1>9. CASE ~ Accepts(u, w)
  <2>1. v = u
    BY <1>9 DEF Queue
  <2>2. w.slot < u.bootstrapSlot
    BY <1>4, <1>5, <1>6, <1>9 DEF Accepts, Older
  <2>3. Ordered(v, rest)
    BY <1>1, <2>1, OrderedTail DEF Ordered
  <2>4. ASSUME rpc # "lagging" PROVE Complete(v.confirmedSlot, v, rest)
    <3>1. \A k \in Key, s \in Slot : s > u.confirmedSlot => ~ IsWrite(buf[1], k, s)
      BY <1>4, <1>6, <2>2, SlotFacts DEF IsWrite
    <3>2. Complete(u.confirmedSlot, u, buf)
      BY <2>4 DEF CanTake
    <3>3. \A k \in Key, s \in Slot :
            s > u.confirmedSlot /\ (Staged(u, k, s) \/ IsWrite(buf[1], k, s)) => Staged(v, k, s)
      BY <2>1, <3>1
    <3>4. u.confirmedSlot <= u.confirmedSlot /\ v.confirmedSlot = u.confirmedSlot
      BY <1>6, <2>1
    <3> QED BY <1>1, <1>6, <1>7, <3>2, <3>3, <3>4, CompleteTail
  <2> QED BY <1>1, <1>2, <1>3, <1>4, <1>6, <2>1, <2>2, <2>3, <2>4 DEF CanTake
<1>10. CASE Accepts(u, w)
  <2>1. /\ v \in StateUpdaters
        /\ v.bootstrapSlot = u.bootstrapSlot /\ v.confirmedSlot = u.confirmedSlot
        /\ v.accounts = u.accounts /\ v.recovering = u.recovering /\ v.source = u.source
        /\ v.pending = [u.pending EXCEPT ![w.slot] = Append(u.pending[w.slot], w)]
        /\ v.versions = [u.versions EXCEPT ![w.key] = [slot |-> w.slot, version |-> w.version]]
    BY <1>1, <1>4, <1>7, <1>10, QueueFields, SourceStays, ZenonT(40)
  <2>2. /\ v.versions[w.key].slot = w.slot /\ v.versions[w.key].version = active + 1
        /\ \A k \in Key : k # w.key => v.versions[k] = u.versions[k]
    BY <1>1, <1>4, <2>1 DEF StateUpdaters, Versions
  <2>3. \A k \in Key : u.versions[k].slot <= v.versions[k].slot /\ v.versions[k].slot \in Int
    <3> SUFFICES ASSUME NEW k \in Key
                 PROVE  u.versions[k].slot <= v.versions[k].slot /\ v.versions[k].slot \in Int
      OBVIOUS
    <3>1. CASE k = w.key
      BY <1>4, <1>5, <1>6, <2>2, <3>1
    <3>2. CASE k # w.key
      BY <1>6, <2>2, <3>2
    <3> QED BY <3>1, <3>2
  <2>4. /\ \A s \in Slot : s # w.slot => v.pending[s] = u.pending[s]
        /\ v.pending[w.slot] = Append(u.pending[w.slot], w)
    BY <1>1, <1>4, <2>1 DEF StateUpdaters
  <2>5. PICK q \in Seq(Write) : q = u.pending[w.slot]
    BY <1>1, <1>4, UpdaterFacts
  <2>6. /\ DOMAIN v.pending[w.slot] = DOMAIN q \cup {Len(q) + 1}
        /\ \A i \in DOMAIN q : v.pending[w.slot][i] = q[i]
        /\ v.pending[w.slot][Len(q) + 1] = w
    <3>1. v.pending[w.slot] = Append(q, w)
      BY <2>4, <2>5
    <3> QED BY <1>4, <3>1, AppendFacts, SMTT(30)
  <2>7. \A k, s : s \in Slot => (Staged(v, k, s) <=> Staged(u, k, s) \/ (k = w.key /\ s = w.slot))
    <3> SUFFICES ASSUME NEW k, NEW s \in Slot
                 PROVE  Staged(v, k, s) <=> Staged(u, k, s) \/ (k = w.key /\ s = w.slot)
      OBVIOUS
    <3>1. CASE s # w.slot
      BY <2>4, <3>1 DEF Staged
    <3>2. CASE s = w.slot
      <4>1. Staged(v, k, s) <=> \E i \in DOMAIN q \cup {Len(q) + 1} : v.pending[s][i].key = k
        BY <2>6, <3>2 DEF Staged
      <4>2. Staged(u, k, s) <=> \E i \in DOMAIN q : v.pending[s][i].key = k
        BY <2>5, <2>6, <3>2, ZenonT(40) DEF Staged
      <4>3. v.pending[s][Len(q) + 1] = w
        BY <2>6, <3>2
      <4> QED BY <3>2, <4>1, <4>2, <4>3
    <3> QED BY <3>1, <3>2
  <2>8. ASSUME NEW s \in Slot, NEW i \in DOMAIN v.pending[s]
        PROVE  LET x == v.pending[s][i]
               IN  /\ v.bootstrapSlot <= s /\ s <= delivered
                   /\ x.slot = s /\ x.account = ledger[s][x.key] /\ x.version = active + 1
                   /\ s <= v.versions[x.key].slot
                   /\ s <= v.confirmedSlot => s = v.bootstrapSlot /\ s = v.confirmedSlot
    <3>1. CASE i \in DOMAIN u.pending[s] /\ v.pending[s][i] = u.pending[s][i]
      <4>1. u.pending[s][i].key \in Key
        BY <1>1, <3>1, UpdaterFacts DEF Write
      <4>2. /\ u.bootstrapSlot <= s /\ s <= delivered
            /\ u.pending[s][i].slot = s /\ u.pending[s][i].account = ledger[s][u.pending[s][i].key]
            /\ u.pending[s][i].version = active + 1
            /\ s <= u.versions[u.pending[s][i].key].slot
            /\ s <= u.confirmedSlot => s = u.bootstrapSlot /\ s = u.confirmedSlot
        BY <1>1, <3>1 DEF FromSession
      <4>3. s \in Int /\ s <= v.versions[u.pending[s][i].key].slot
        BY <1>6, <2>3, <4>1, <4>2, SlotFacts, SMTT(30)
      <4> QED BY <2>1, <3>1, <4>2, <4>3
    <3>2. CASE s = w.slot /\ v.pending[s][i] = w
      <4>1. u.bootstrapSlot <= w.slot
        BY <1>4, <1>6, <1>10 DEF Accepts
      <4>2. w.slot <= u.confirmedSlot => w.slot = u.bootstrapSlot /\ w.slot = u.confirmedSlot
        BY <1>4, <1>5, <1>6, <4>1
      <4>3. w.slot <= v.versions[w.key].slot
        BY <1>4, <2>2
      <4> QED BY <1>4, <2>1, <3>2, <4>1, <4>2, <4>3
    <3> QED BY <2>4, <2>5, <2>6, <3>1, <3>2, ZenonT(40)
  <2>9. \A k \in Key : v.versions[k] = Unversioned \/ v.versions[k].version = active + 1
    BY <1>1, <2>2, SMTT(30) DEF FromSession
  <2>10. FromSession(v)
    BY <1>1, <2>1, <2>8, <2>9 DEF FromSession
  <2>11. Ordered(v, rest)
    <3>1. ASSUME NEW e, IsAhead(u, e), InOrder(buf[1], e)
          PROVE  IsAhead(v, e)
      <4>1. CASE e.type = "Account" /\ e.write.key = w.key
        <5>1. v.versions[e.write.key].slot < e.write.slot
          BY <2>2, <3>1, <4>1 DEF InOrder
        <5> QED BY <2>1, <3>1, <4>1, <5>1 DEF IsAhead
      <4>2. CASE ~ (e.type = "Account" /\ e.write.key = w.key)
        BY <1>1, <2>1, <3>1, <4>2 DEF IsAhead, StateUpdaters, Versions
      <4> QED BY <4>1, <4>2
    <3>2. Continues => \A k \in Key : Sent(active, k, v.versions[k].slot)
      BY <1>1, <1>8, <2>2 DEF Ordered
    <3>3. Continues => (v.bootstrapSlot < v.confirmedSlot => v.confirmedSlot <= link[active].at)
      BY <1>1, <2>1 DEF Ordered
    <3> QED BY <1>1, <3>1, <3>2, <3>3, OrderedTail
  <2>12. ASSUME rpc # "lagging" PROVE Complete(v.confirmedSlot, v, rest)
    <3>1. \A k \in Key, s \in Slot : Staged(u, k, s) \/ IsWrite(buf[1], k, s) => Staged(v, k, s)
      BY <2>7 DEF IsWrite
    <3>2. Complete(u.confirmedSlot, u, buf) /\ u.confirmedSlot <= u.confirmedSlot
      BY <1>6, <2>12 DEF CanTake
    <3> QED BY <1>1, <1>6, <1>7, <2>1, <3>1, <3>2, CompleteTail
  <2>13. w.slot <= v.versions[w.key].slot
    BY <1>4, <2>2
  <2> QED BY <1>2, <1>3, <1>4, <2>1, <2>3, <2>7, <2>10, <2>11, <2>12, <2>13 DEF CanTake
<1> QED BY <1>9, <1>10

(* What apply_pending_through(slot) leaves is the ledger as of slot.       *)
LEMMA AppliedIsLedger ==
  ASSUME TypeOK, NEW u \in StateUpdaters, FromSession(u), rpc # "lagging",
         NEW c \in Slot, u.confirmedSlot <= c, c <= tip,
         \A s \in (u.confirmedSlot + 1) .. c : \A k \in Changed(s) : Staged(u, k, s)
  PROVE  AsOf(ApplyPendingThrough(u, c).accounts, PageSlots(c))
<1> SUFFICES ASSUME NEW k \in Key
             PROVE  \E d \in PageSlots(c) : ApplyPendingThrough(u, c).accounts[k] = ledger[d][k]
  BY DEF AsOf
<1>1. /\ c \in Nat /\ tip \in Nat /\ u.confirmedSlot \in Nat /\ u.confirmedSlot \in Slot
      /\ u.bootstrapSlot \in Nat
  BY UpdaterFacts, SlotFacts DEF TypeOK
<1>2. c \in PageSlots(c)
  BY <1>1 DEF PageSlots
<1>3. ApplyPendingThrough(u, c).accounts[k] =
        IF StagedSlots(u, k, c) = {} THEN u.accounts[k] ELSE LastMutation(u, k, c).account
  BY ApplyFields
<1>4. \A s \in (u.confirmedSlot + 1) .. c : k \in Changed(s) => s \in StagedSlots(u, k, c)
  <2> SUFFICES ASSUME NEW s \in (u.confirmedSlot + 1) .. c, k \in Changed(s)
               PROVE  s \in StagedSlots(u, k, c)
    OBVIOUS
  <2>1. s \in Slot /\ s <= c
    BY <1>1, SlotFacts
  <2> QED BY <2>1 DEF Staged, StagedSlots
<1>5. CASE StagedSlots(u, k, c) = {}
  <2>1. PICK d \in PageSlots(u.confirmedSlot) : u.accounts[k] = ledger[d][k]
    BY DEF FromSession, AsOf
  <2>2. /\ d \in Nat /\ u.confirmedSlot <= d /\ d <= tip /\ d \in Slot
        /\ rpc = "level" => d = u.confirmedSlot
    <3>1. d \in Nat /\ u.confirmedSlot <= d /\ d <= tip /\ (rpc = "level" => d = u.confirmedSlot)
      BY <1>1 DEF PageSlots
    <3>2. tip <= MaxSlot
      BY SlotFacts DEF TypeOK
    <3> QED BY <1>1, <3>1, <3>2, SlotFacts
  <2>3. CASE d <= c
    <3>1. \A s \in (d + 1) .. c : k \notin Changed(s)
      BY <1>1, <1>4, <1>5, <2>2
    <3>2. ledger[c][k] = ledger[d][k]
      BY <2>2, <2>3, <3>1, UnchangedTable
    <3> QED BY <1>2, <1>3, <1>5, <2>1, <3>2
  <2>4. CASE ~ (d <= c)
    <3>1. rpc # "level" /\ d \in PageSlots(c)
      BY <1>1, <2>2, <2>4 DEF PageSlots
    <3> QED BY <1>3, <1>5, <2>1, <3>1
  <2> QED BY <2>3, <2>4
<1>6. CASE StagedSlots(u, k, c) # {}
  <2>1. PICK t \in Slot : \E i \in DOMAIN u.pending[t] : IsLastStaged(u, k, c, t, i)
    BY <1>6, LastMutationIsLast
  <2>2. PICK i \in DOMAIN u.pending[t] : IsLastStaged(u, k, c, t, i)
    BY <2>1
  <2>3. /\ LastMutation(u, k, c) = u.pending[t][i] /\ u.pending[t][i].key = k
        /\ t <= c /\ t \in Nat
        /\ \A r \in Slot : \A j \in DOMAIN u.pending[r] :
             r <= c /\ u.pending[r][j].key = k => r < t \/ (r = t /\ j <= i)
    BY <2>2, SlotFacts DEF IsLastStaged
  <2>4. /\ u.pending[t][i].account = ledger[t][k]
        /\ t <= u.confirmedSlot => t = u.confirmedSlot
    BY <2>3 DEF FromSession
  <2>5. \A s \in StagedSlots(u, k, c) : s <= t
    BY <2>3, SlotFacts DEF StagedSlots
  <2>6. \A s \in (t + 1) .. c : k \notin Changed(s)
    <3> SUFFICES ASSUME NEW s \in (t + 1) .. c, k \in Changed(s) PROVE FALSE
      OBVIOUS
    <3>1. s \in (u.confirmedSlot + 1) .. c
      BY <1>1, <2>3, <2>4
    <3>2. s <= t
      BY <1>4, <2>5, <3>1
    <3> QED BY <1>1, <2>3, <3>2
  <2>7. ledger[c][k] = ledger[t][k]
    BY <2>3, <2>6, UnchangedTable
  <2> QED BY <1>2, <1>3, <1>6, <2>3, <2>4, <2>7
<1> QED BY <1>5, <1>6

(* What apply_pending_through leaves staged.                               *)
LEMMA AppliedStaged ==
  ASSUME NEW u \in StateUpdaters, NEW c \in Slot, NEW v,
         v.pending = [t \in Slot |-> IF t <= c THEN << >> ELSE u.pending[t]]
  PROVE  /\ \A s \in Slot : s > c => v.pending[s] = u.pending[s]
         /\ \A s \in Slot : s <= c => v.pending[s] = << >>
         /\ \A k, s : s \in Slot => (Staged(v, k, s) <=> s > c /\ Staged(u, k, s))
<1>1. \A s \in Slot : s \in Nat
  BY SlotFacts
<1>2. \A s \in Slot : s > c => v.pending[s] = u.pending[s]
  BY <1>1
<1>3. \A s \in Slot : s <= c => v.pending[s] = << >>
  OBVIOUS
<1>4. ASSUME NEW k, NEW s \in Slot
      PROVE  Staged(v, k, s) <=> s > c /\ Staged(u, k, s)
  <2>1. CASE s > c
    BY <1>2, <2>1 DEF Staged
  <2>2. CASE s <= c
    BY <1>1, <1>3, <2>2 DEF Staged
  <2> QED BY <1>1, <2>1, <2>2
<1> QED BY <1>2, <1>3, <1>4

(* confirm makes the state that of the ledger as of the confirmed slot.    *)
LEMMA ConfirmTaken ==
  ASSUME TypeOK, SessionsInOrder, NEW u, NEW buf, CanTake(u, buf), buf # << >>,
         NEW c, buf[1].type = "ConfirmedSlot", c = buf[1].slot,
         NEW v, v = Confirm(u, c), NEW rest, rest = Tail(buf)
  PROVE  /\ CanTake(v, rest)
         /\ c \in Slot /\ c <= tip
         /\ u.confirmedSlot < c => v.confirmedSlot = c
         /\ c <= u.confirmedSlot => v = u
         /\ v.bootstrapSlot = u.bootstrapSlot /\ v.versions = u.versions
         /\ v.recovering = u.recovering
         /\ \A k \in Key, s \in Slot : Staged(v, k, s) => Staged(u, k, s)
<1>1. /\ u \in StateUpdaters /\ buf \in Seq(StateEvents) /\ FromSession(u) /\ Ordered(u, buf)
      /\ \A i \in DOMAIN buf : FromChain(active, buf[i])
  BY DEF CanTake
<1>2. /\ rest \in Seq(StateEvents) /\ 1 \in DOMAIN buf /\ buf[1] \in StateEvents
      /\ \A i \in DOMAIN rest : i + 1 \in DOMAIN buf /\ rest[i] = buf[i + 1]
      /\ \A i \in DOMAIN buf : ~ (i < 1)
  BY <1>1, TailFacts
<1>3. \A i \in DOMAIN rest : FromChain(active, rest[i])
  BY <1>1, <1>2
<1>4. /\ delivered \in Slot /\ delivered \in Nat /\ tip \in Nat /\ delivered <= tip
  BY SlotFacts DEF TypeOK, SessionsInOrder
<1>5. c \in Slot /\ c \in Nat /\ c <= delivered /\ c <= tip /\ IsConfirm(buf[1], c)
  <2>1. c \in Slot
    BY <1>2, StateEventFacts
  <2>2. c \in 1 .. delivered
    BY <1>1, <1>2 DEF FromChain
  <2> QED BY <1>4, <2>1, <2>2 DEF IsConfirm
<1>6. /\ u.bootstrapSlot \in Nat /\ u.confirmedSlot \in Nat /\ u.confirmedSlot \in Slot
      /\ u.bootstrapSlot <= u.confirmedSlot
  BY <1>1, UpdaterFacts, SlotFacts DEF FromSession
<1>7. Continues => c <= link[active].at
  BY <1>1, <1>2 DEF Ordered, HasSent
<1>8. \A k, s : ~ IsWrite(buf[1], k, s)
  BY DEF IsWrite
<1>9. CASE c <= u.confirmedSlot
  <2>1. v = u
    BY <1>9 DEF Confirm
  <2>2. Ordered(v, rest)
    BY <1>1, <2>1, OrderedTail DEF Ordered
  <2>3. ASSUME rpc # "lagging" PROVE Complete(v.confirmedSlot, v, rest)
    <3>1. Complete(u.confirmedSlot, u, buf) /\ u.confirmedSlot <= u.confirmedSlot
      BY <1>6, <2>3 DEF CanTake
    <3>2. \A k \in Key, s \in Slot :
            s > u.confirmedSlot /\ (Staged(u, k, s) \/ IsWrite(buf[1], k, s)) => Staged(v, k, s)
      BY <1>8, <2>1
    <3> QED BY <1>1, <1>4, <1>6, <2>1, <3>1, <3>2, CompleteTail
  <2>4. ~ (u.confirmedSlot < c)
    BY <1>5, <1>6, <1>9
  <2> QED BY <1>1, <1>2, <1>3, <1>5, <2>1, <2>2, <2>3, <2>4 DEF CanTake
<1>10. CASE ~ (c <= u.confirmedSlot)
  <2>1. c > u.confirmedSlot
    BY <1>5, <1>6, <1>10
  <2>2. /\ v \in StateUpdaters /\ v.confirmedSlot = c
        /\ v.accounts = ApplyPendingThrough(u, c).accounts
        /\ v.pending = ApplyPendingThrough(u, c).pending
        /\ v.versions = u.versions /\ v.bootstrapSlot = u.bootstrapSlot
        /\ v.recovering = u.recovering /\ v.source = u.source
    BY <1>1, <1>5, <2>1, ConfirmFields, SourceStays
  <2>3. v.pending = [t \in Slot |-> IF t <= c THEN << >> ELSE u.pending[t]]
    BY <1>1, <1>5, <2>2, ApplyFields
  <2>4. /\ \A s \in Slot : s > c => v.pending[s] = u.pending[s]
        /\ \A s \in Slot : s <= c => v.pending[s] = << >>
        /\ \A k, s : s \in Slot => (Staged(v, k, s) <=> s > c /\ Staged(u, k, s))
    BY <1>1, <1>5, <2>3, AppliedStaged
  <2>5. ASSUME rpc # "lagging" PROVE AsOf(v.accounts, PageSlots(c))
    <3>1. \A s \in (u.confirmedSlot + 1) .. c : \A k \in Changed(s) : Staged(u, k, s)
      BY <1>2, <1>5, <2>5 DEF CanTake, Complete
    <3> QED BY <1>1, <1>5, <1>6, <2>1, <2>2, <2>5, <3>1, AppliedIsLedger
  <2>6. FromSession(v)
    <3>1. 0 < v.bootstrapSlot /\ v.bootstrapSlot <= v.confirmedSlot /\ v.confirmedSlot <= tip
      BY <1>1, <1>5, <1>6, <2>1, <2>2 DEF FromSession
    <3>2. ASSUME NEW s \in Slot, NEW i \in DOMAIN v.pending[s]
          PROVE  s > c /\ v.pending[s] = u.pending[s] /\ i \in DOMAIN u.pending[s] /\ ~ (s <= v.confirmedSlot)
      <4>1. s \in Nat
        BY SlotFacts
      <4>2. s > c
        BY <1>5, <2>4, <3>2, <4>1
      <4> QED BY <1>5, <2>2, <2>4, <4>1, <4>2
    <3>3. ASSUME NEW s \in Slot, NEW i \in DOMAIN v.pending[s]
          PROVE  LET x == v.pending[s][i]
                 IN  /\ v.bootstrapSlot <= s /\ s <= delivered
                     /\ x.slot = s /\ x.account = ledger[s][x.key] /\ x.version = active + 1
                     /\ s <= v.versions[x.key].slot
                     /\ s <= v.confirmedSlot => s = v.bootstrapSlot /\ s = v.confirmedSlot
      <4>1. v.pending[s] = u.pending[s] /\ i \in DOMAIN u.pending[s] /\ ~ (s <= v.confirmedSlot)
        BY <3>2
      <4>2. /\ u.bootstrapSlot <= s /\ s <= delivered
            /\ u.pending[s][i].slot = s /\ u.pending[s][i].account = ledger[s][u.pending[s][i].key]
            /\ u.pending[s][i].version = active + 1
            /\ s <= u.versions[u.pending[s][i].key].slot
        BY <1>1, <4>1 DEF FromSession
      <4> QED BY <2>2, <4>1, <4>2
    <3>4. v.source = active /\ \A k \in Key : v.versions[k] = Unversioned \/ v.versions[k].version = active + 1
      BY <1>1, <2>2 DEF FromSession
    <3> QED BY <2>2, <2>5, <3>1, <3>3, <3>4 DEF FromSession
  <2>7. Ordered(v, rest)
    <3>1. ASSUME NEW e, IsAhead(u, e), InOrder(buf[1], e)
          PROVE  IsAhead(v, e)
      BY <2>2, <3>1 DEF InOrder, IsAhead
    <3>2. Continues =>
            /\ \A k \in Key : Sent(active, k, v.versions[k].slot)
            /\ v.bootstrapSlot < v.confirmedSlot => v.confirmedSlot <= link[active].at
      BY <1>1, <1>7, <2>2 DEF Ordered
    <3> QED BY <1>1, <3>1, <3>2, OrderedTail
  <2>8. ASSUME rpc # "lagging" PROVE Complete(v.confirmedSlot, v, rest)
    <3>1. Complete(u.confirmedSlot, u, buf) /\ u.confirmedSlot <= c
      BY <1>5, <1>6, <2>1, <2>8 DEF CanTake
    <3>2. \A k \in Key, s \in Slot :
            s > c /\ (Staged(u, k, s) \/ IsWrite(buf[1], k, s)) => Staged(v, k, s)
      BY <1>8, <2>4
    <3> QED BY <1>1, <1>4, <1>5, <1>6, <2>2, <3>1, <3>2, CompleteTail
  <2> QED BY <1>2, <1>3, <1>5, <1>10, <2>2, <2>4, <2>6, <2>7, <2>8 DEF CanTake
<1> QED BY <1>9, <1>10

(* finish_recovery applies what was staged for the fetched slot itself.    *)
LEMMA RecoveryFinished ==
  ASSUME TypeOK, NEW u, CanTake(u, << >>), NEW v, v = FinishRecovery(u)
  PROVE  /\ CanTake(v, << >>)
         /\ v.accounts = ApplyPendingThrough(u, u.confirmedSlot).accounts
         /\ v.bootstrapSlot = u.bootstrapSlot /\ v.confirmedSlot = u.confirmedSlot
         /\ v.versions = u.versions /\ ~ v.recovering
<1>1. u \in StateUpdaters /\ FromSession(u) /\ Ordered(u, << >>) /\ << >> \in Seq(StateEvents)
  BY DEF CanTake
<1>0. PICK c \in Slot : c = u.confirmedSlot
  BY <1>1, UpdaterFacts
<1>2. c \in Nat /\ u.bootstrapSlot \in Nat /\ c <= tip /\ c <= c
  BY <1>0, <1>1, UpdaterFacts, SlotFacts DEF FromSession
<1>3. /\ v \in StateUpdaters /\ v.confirmedSlot = c
      /\ v.accounts = ApplyPendingThrough(u, c).accounts
      /\ v.pending = ApplyPendingThrough(u, c).pending
      /\ v.versions = u.versions /\ v.bootstrapSlot = u.bootstrapSlot
      /\ v.recovering = FALSE /\ v.source = u.source
  BY <1>0, <1>1, <1>2, FinishFields, SourceStays
<1>4. v.pending = [t \in Slot |-> IF t <= c THEN << >> ELSE u.pending[t]]
  BY <1>1, <1>2, <1>3, ApplyFields
<1>5. /\ \A s \in Slot : s > c => v.pending[s] = u.pending[s]
      /\ \A s \in Slot : s <= c => v.pending[s] = << >>
      /\ \A k, s : s \in Slot => (Staged(v, k, s) <=> s > c /\ Staged(u, k, s))
  BY <1>1, <1>4, AppliedStaged
<1>6. ASSUME rpc # "lagging" PROVE AsOf(v.accounts, PageSlots(c))
  <2>1. \A s \in (c + 1) .. c : FALSE
    BY <1>2
  <2> QED BY <1>1, <1>2, <1>3, <1>6, <2>1, AppliedIsLedger, <1>0
<1>7. ASSUME NEW s \in Slot, NEW i \in DOMAIN v.pending[s]
      PROVE  LET x == v.pending[s][i]
             IN  /\ v.bootstrapSlot <= s /\ s <= delivered
                 /\ x.slot = s /\ x.account = ledger[s][x.key] /\ x.version = active + 1
                 /\ s <= v.versions[x.key].slot
                 /\ s <= v.confirmedSlot => s = v.bootstrapSlot /\ s = v.confirmedSlot
  <2>1. s \in Nat
    BY SlotFacts
  <2>2. v.pending[s] = u.pending[s] /\ i \in DOMAIN u.pending[s] /\ ~ (s <= v.confirmedSlot)
    BY <1>2, <1>3, <1>5, <1>7, <2>1
  <2>3. /\ u.bootstrapSlot <= s /\ s <= delivered
        /\ u.pending[s][i].slot = s /\ u.pending[s][i].account = ledger[s][u.pending[s][i].key]
        /\ u.pending[s][i].version = active + 1
        /\ s <= u.versions[u.pending[s][i].key].slot
    BY <1>1, <2>2 DEF FromSession
  <2> QED BY <1>3, <2>2, <2>3
<1>8. /\ v.source = active /\ \A k \in Key : v.versions[k] = Unversioned \/ v.versions[k].version = active + 1
      /\ 0 < v.bootstrapSlot /\ v.bootstrapSlot <= v.confirmedSlot /\ v.confirmedSlot <= tip
  BY <1>0, <1>1, <1>3 DEF FromSession
<1>9. FromSession(v)
  BY <1>3, <1>6, <1>7, <1>8 DEF FromSession
<1>10. Ordered(v, << >>)
  BY <1>0, <1>1, <1>3 DEF Ordered, IsAhead
<1>11. ASSUME rpc # "lagging" PROVE Complete(v.confirmedSlot, v, << >>)
  <2>1. Complete(c, u, << >>)
    BY <1>11, <1>0 DEF CanTake
  <2>2. \A d \in Int : \A s \in (c + 1) .. d : s \in Int /\ s > c /\ (d <= MaxSlot => s \in Slot)
    BY <1>2, SlotFacts
  <2>3. ASSUME NEW d \in Int, d <= MaxSlot, NEW s \in (c + 1) .. d, NEW k, NEW n, Held(u, << >>, n, k, s)
        PROVE  Held(v, << >>, n, k, s)
    BY <1>5, <2>2, <2>3 DEF Held
  <2>4. delivered \in Int /\ delivered <= MaxSlot /\ \A d \in Slot : d \in Int /\ d <= MaxSlot
    BY SlotFacts DEF TypeOK
  <2>5. DOMAIN << >> = {}
    OBVIOUS
  <2> QED BY <1>3, <2>1, <2>3, <2>4, <2>5 DEF Complete
<1> QED BY <1>1, <1>3, <1>9, <1>10, <1>11, <1>0 DEF CanTake

-----------------------------------------------------------------------------
(* What is received                                                        *)

(* The received event leaves the channel.                                  *)
LEMMA ReceivedEvent ==
  ASSUME events \in Seq(Events), events # << >>, events' = Tail(events), UNCHANGED link,
         NEW n, n = Len(events)
  PROVE  /\ events' \in Seq(Events) /\ events[1] \in Events /\ Head(events) = events[1]
         /\ n \in Nat \ {0} /\ Len(events') = n - 1 /\ DOMAIN events = 1 .. n
         /\ \A i \in DOMAIN events' :
              i \in Nat \ {0} /\ i + 1 \in DOMAIN events /\ events'[i] = events[i + 1]
         /\ \A z : \A i \in Nat \ {0} : \A j \in Int : Cut(z, i, j)' <=> Cut(z, i + 1, j + 1)
         /\ \A z : \A j \in Int :
              \/ Cut(z, 1, j) /\ events[1].source = z /\ events[1].type = "Disconnected"
              \/ Cut(z, 1, j) => Cut(z, 2, j)
         /\ \A z : \A j \in Int : Cut(z, 2, j) => Cut(z, 1, j)
<1>1. /\ events' \in Seq(Events) /\ events[1] \in Events /\ Head(events) = events[1]
      /\ n \in Nat \ {0} /\ Len(events') = n - 1 /\ DOMAIN events = 1 .. n
      /\ \A i \in DOMAIN events' :
           i \in Nat \ {0} /\ i + 1 \in DOMAIN events /\ events'[i] = events[i + 1]
      /\ \A i \in DOMAIN events : i = 1 \/ (i - 1 \in DOMAIN events' /\ events[i] = events'[i - 1])
  BY TailFacts
<1>2. ASSUME NEW z, NEW i \in Nat \ {0}, NEW j \in Int
      PROVE  Cut(z, i, j)' <=> Cut(z, i + 1, j + 1)
  <2>1. ASSUME Cut(z, i, j)' PROVE Cut(z, i + 1, j + 1)
    <3>1. PICK m \in DOMAIN events' :
            i <= m /\ m <= j /\ events'[m].source = z /\ events'[m].type = "Disconnected"
      BY <2>1 DEF Cut
    <3>2. /\ m + 1 \in DOMAIN events /\ i + 1 <= m + 1 /\ m + 1 <= j + 1
          /\ events[m + 1].source = z /\ events[m + 1].type = "Disconnected"
      BY <1>1, <3>1
    <3> QED BY <3>2 DEF Cut
  <2>2. ASSUME Cut(z, i + 1, j + 1) PROVE Cut(z, i, j)'
    <3>1. PICK m \in DOMAIN events :
            i + 1 <= m /\ m <= j + 1 /\ events[m].source = z /\ events[m].type = "Disconnected"
      BY <2>2 DEF Cut
    <3>2. /\ m - 1 \in DOMAIN events' /\ i <= m - 1 /\ m - 1 <= j
          /\ events'[m - 1].source = z /\ events'[m - 1].type = "Disconnected"
      BY <1>1, <3>1
    <3> QED BY <3>2 DEF Cut
  <2> QED BY <2>1, <2>2, Zenon DEF Cut
<1>3. ASSUME NEW z, NEW j \in Int, Cut(z, 1, j), ~ (events[1].source = z /\ events[1].type = "Disconnected")
      PROVE  Cut(z, 2, j)
  <2>1. PICK m \in DOMAIN events :
          1 <= m /\ m <= j /\ events[m].source = z /\ events[m].type = "Disconnected"
    BY <1>3 DEF Cut
  <2>2. 2 <= m
    BY <1>1, <1>3, <2>1
  <2> QED BY <2>1, <2>2 DEF Cut
<1>4. \A z : \A j \in Int : Cut(z, 2, j) => Cut(z, 1, j)
  BY <1>1 DEF Cut
<1> QED BY <1>1, <1>2, <1>3, <1>4

(* The sessions go on without the event that has been received.            *)
LEMMA ReceivedSessions ==
  ASSUME TypeOK, SessionsInOrder, events # << >>, events' = Tail(events),
         UNCHANGED <<ledger, tip, delivered, link>>,
         \A z \in connected' :
           z \in connected \/ (events[1].type = "Connected" /\ events[1].source = z),
         events[1].type = "Disconnected" => events[1].source \notin connected'
  PROVE  /\ \A y \in Source : SessionOf(y)'
         /\ \A i \in DOMAIN events' : FromChain(events[i].source, events[i])'
<1>1. PICK n : n = Len(events)
  OBVIOUS
<1>2. /\ events[1] \in Events /\ n \in Nat \ {0} /\ Len(events') = n - 1 /\ DOMAIN events = 1 .. n
      /\ \A i \in DOMAIN events' :
           i \in Nat \ {0} /\ i + 1 \in DOMAIN events /\ events'[i] = events[i + 1]
      /\ \A z : \A i \in Nat \ {0} : \A j \in Int : Cut(z, i, j)' <=> Cut(z, i + 1, j + 1)
      /\ \A z : \A j \in Int :
           \/ Cut(z, 1, j) /\ events[1].source = z /\ events[1].type = "Disconnected"
           \/ Cut(z, 1, j) => Cut(z, 2, j)
  BY <1>1, ReceivedEvent DEF TypeOK
<1>3. \A z, f : FromChain(z, f) => FromChain(z, f)'
  BY DEF FromChain
<1>4. \A i \in DOMAIN events : FromChain(events[i].source, events[i])
  BY DEF SessionsInOrder
<1>5. \A i \in DOMAIN events' : FromChain(events[i].source, events[i])'
  BY <1>2, <1>3, <1>4
<1>6. ASSUME NEW y \in Source PROVE SessionOf(y)'
  <2>1. SessionOf(y)
    BY DEF SessionsInOrder
  <2>2. \A f, g : InOrder(f, g)' <=> InOrder(f, g)
    BY DEF InOrder
  <2>3. \A f : HasSent(y, f)' <=> HasSent(y, f)
    BY DEF HasSent, Sent
  <2>4. ASSUME NEW i \in DOMAIN events', NEW j \in DOMAIN events',
               events'[i].source = y, events'[j].source = y, i < j, ~ Cut(y, i, j)'
        PROVE  InOrder(events'[i], events'[j])
    <3>1. /\ i + 1 \in DOMAIN events /\ j + 1 \in DOMAIN events /\ i + 1 < j + 1
          /\ events[i + 1].source = y /\ events[j + 1].source = y /\ ~ Cut(y, i + 1, j + 1)
      BY <1>2, <2>4
    <3> QED BY <1>2, <2>1, <3>1 DEF SessionOf
  <2>5. PICK m : m = n - 1
    OBVIOUS
  <2>6. m \in Nat /\ Len(events') = m /\ m + 1 = Len(events)
    BY <1>1, <1>2, <2>5
  <2>7. ASSUME NEW i \in DOMAIN events', events'[i].source = y, ~ Cut(y, i, m)'
        PROVE  /\ link'[y].status \notin {"down", "greet"}
               /\ link'[y].status = "stream" => \A f : f = events'[i] => HasSent(y, f)'
    <3>1. i + 1 \in DOMAIN events /\ events[i + 1].source = y /\ ~ Cut(y, i + 1, Len(events))
      BY <1>2, <2>6, <2>7
    <3> QED BY <1>2, <2>1, <2>3, <2>7, <3>1 DEF SessionOf
  <2>8. ASSUME y \in connected', link'[y].status \in {"down", "greet"}
        PROVE  Cut(y, 1, m)'
    <3>1. Cut(y, 1, Len(events))
      <4>1. CASE y \in connected
        BY <2>1, <2>8, <4>1 DEF SessionOf
      <4>2. CASE events[1].type = "Connected" /\ events[1].source = y
        <5>1. 1 \in DOMAIN events
          BY <1>2
        <5> QED BY <2>1, <2>8, <4>2, <5>1 DEF SessionOf
      <4> QED BY <2>8, <4>1, <4>2
    <3>2. ~ (events[1].source = y /\ events[1].type = "Disconnected")
      BY <2>8
    <3>3. Cut(y, 2, n)
      BY <1>1, <1>2, <3>1, <3>2
    <3>4. 1 \in Nat \ {0} /\ m \in Int /\ 1 + 1 = 2 /\ m + 1 = n
      BY <1>1, <2>6
    <3> QED BY <1>2, <3>3, <3>4
  <2> QED BY <2>1, <2>2, <2>4, <2>6, <2>7, <2>8 DEF SessionOf
<1> QED BY <1>5, <1>6

(* What is to come of the session moves one place forward.                 *)
LEMMA Reindexed ==
  ASSUME TypeOK, events # << >>, events' = Tail(events), UNCHANGED <<link, active>>,
         ~ (events[1].source = active /\ events[1].type = "Disconnected"),
         NEW n, n = Len(events)
  PROVE  /\ n \in Nat \ {0} /\ Len(events') = n - 1 /\ 1 \in DOMAIN events
         /\ \A j \in DOMAIN events' :
              j \in Nat \ {0} /\ j + 1 \in DOMAIN events /\ events'[j] = events[j + 1]
         /\ \A j \in DOMAIN events' : Coming(j)' <=> Coming(j + 1)
         /\ \A i \in DOMAIN events : i \in Nat \ {0} /\ (i = 1 \/ \E l \in DOMAIN events' : l + 1 = i)
         /\ Continues' <=> Continues
         /\ events[1].source = active => Coming(1)
<1>1. PICK a : a = active
  OBVIOUS
<1>2. /\ n \in Nat \ {0} /\ Len(events') = n - 1 /\ DOMAIN events = 1 .. n /\ 1 \in DOMAIN events
      /\ \A i \in DOMAIN events' :
           i \in Nat \ {0} /\ i + 1 \in DOMAIN events /\ events'[i] = events[i + 1]
      /\ \A i \in Nat \ {0} : \A j \in Int : Cut(a, i, j)' <=> Cut(a, i + 1, j + 1)
      /\ \A j \in Int : Cut(a, 1, j) => Cut(a, 2, j)
      /\ \A j \in Int : Cut(a, 2, j) => Cut(a, 1, j)
  BY <1>1, ReceivedEvent DEF TypeOK
<1>3. ASSUME NEW j \in Nat, NEW l, l = j + 1 PROVE Cut(a, 1, j)' <=> Cut(a, 1, l)
  <2>1. 1 \in Nat \ {0} /\ j \in Int /\ l \in Int /\ 1 + 1 = 2
    BY <1>3
  <2>2. Cut(a, 1, j)' <=> Cut(a, 1 + 1, j + 1)
    BY <1>2, <2>1
  <2>3. Cut(a, 1, j)' <=> Cut(a, 2, l)
    BY <1>3, <2>1, <2>2
  <2>4. Cut(a, 1, l) => Cut(a, 2, l)
    BY <1>2, <2>1
  <2>5. Cut(a, 2, l) => Cut(a, 1, l)
    BY <1>2, <2>1
  <2> QED BY <2>3, <2>4, <2>5
<1>4. ASSUME NEW j \in DOMAIN events' PROVE Coming(j)' <=> Coming(j + 1)
  <2>1. PICK l : l = j + 1
    OBVIOUS
  <2>2. j \in Nat /\ l \in DOMAIN events /\ events'[j] = events[l]
    BY <1>2, <2>1
  <2>3. Cut(a, 1, j)' <=> Cut(a, 1, l)
    BY <1>3, <2>1, <2>2
  <2>4. Coming(j)' <=> events'[j].source = a /\ ~ Cut(a, 1, j)'
    BY <1>1 DEF Coming
  <2>5. Coming(l) <=> events[l].source = a /\ ~ Cut(a, 1, l)
    BY <1>1, <2>2 DEF Coming
  <2> QED BY <2>1, <2>2, <2>3, <2>4, <2>5
<1>5. Continues' <=> Continues
  <2>1. PICK m : m = n - 1
    OBVIOUS
  <2>2. m \in Nat /\ n = m + 1 /\ Len(events') = m
    BY <1>2, <2>1
  <2>3. Cut(a, 1, m)' <=> Cut(a, 1, n)
    BY <1>3, <2>2
  <2>4. Continues' <=> link[a].status = "stream" /\ ~ Cut(a, 1, m)'
    BY <1>1, <2>2 DEF Continues
  <2>5. Continues <=> link[a].status = "stream" /\ ~ Cut(a, 1, n)
    BY <1>1 DEF Continues
  <2> QED BY <2>3, <2>4, <2>5
<1>6. ASSUME NEW i \in DOMAIN events
      PROVE  i \in Nat \ {0} /\ (i = 1 \/ \E l \in DOMAIN events' : l + 1 = i)
  <2>1. i = 1 \/ i - 1 \in DOMAIN events'
    BY TailFacts DEF TypeOK
  <2>2. i \in 1 .. n /\ n \in Nat
    BY <1>2
  <2>3. i \in Nat \ {0} /\ (i - 1) + 1 = i
    BY <2>2
  <2> QED BY <2>1, <2>3
<1>7. ASSUME events[1].source = active PROVE Coming(1)
  <2>1. \A m \in DOMAIN events : 1 <= m /\ m <= 1 => m = 1
    BY <1>2
  <2>2. ~ Cut(active, 1, 1)
    BY <1>7, <2>1 DEF Cut
  <2> QED BY <1>2, <1>7, <2>2 DEF Coming
<1> QED BY <1>2, <1>4, <1>5, <1>6, <1>7

(* An event that the state does not take passes it by.                     *)
LEMMA PassedBy ==
  ASSUME TypeOK, events # << >>, events' = Tail(events),
         UNCHANGED <<ledger, delivered, link, active>>,
         \/ events[1].source # active
         \/ events[1].type = "Connected",
         NEW u, NEW buf
  PROVE  /\ Ordered(u, buf) => Ordered(u, buf)'
         /\ \A x : Complete(x, u, buf) => Complete(x, u, buf)'
<1>1. PICK n : n = Len(events)
  OBVIOUS
<1>2. /\ n \in Nat \ {0} /\ Len(events') = n - 1 /\ 1 \in DOMAIN events
      /\ \A j \in DOMAIN events' :
           j \in Nat \ {0} /\ j + 1 \in DOMAIN events /\ events'[j] = events[j + 1]
      /\ \A j \in DOMAIN events' : Coming(j)' <=> Coming(j + 1)
      /\ \A i \in DOMAIN events : i \in Nat \ {0} /\ (i = 1 \/ \E l \in DOMAIN events' : l + 1 = i)
      /\ Continues' <=> Continues
  BY <1>1, Reindexed
<1>8. ASSUME Ordered(u, buf) PROVE Ordered(u, buf)'
  <2>1. ASSUME NEW j \in DOMAIN events', Coming(j)'
        PROVE  /\ IsAhead(u, events'[j])
               /\ \A i \in DOMAIN buf : InOrder(buf[i], events'[j])
    BY <1>2, <1>8, <2>1 DEF Ordered
  <2>2. (\A f, g : InOrder(f, g)' <=> InOrder(f, g)) /\ (\A f : IsAhead(u, f)' <=> IsAhead(u, f))
    BY DEF InOrder, IsAhead
  <2>3. \A k, s : Sent(active, k, s)' <=> Sent(active, k, s)
    BY DEF Sent
  <2>4. \A f : HasSent(active, f)' <=> HasSent(active, f)
    BY DEF HasSent, Sent
  <2> QED BY <1>2, <1>8, <2>1, <2>2, <2>3, <2>4 DEF Ordered
<1>9. ASSUME NEW x, Complete(x, u, buf) PROVE Complete(x, u, buf)'
  <2>1. ASSUME NEW m \in Nat, NEW k, NEW s, Held(u, buf, m + 1, k, s)
        PROVE  Held(u, buf, m, k, s)'
    <3>1. ASSUME NEW i \in DOMAIN events, i < m + 1, Coming(i), IsWrite(events[i], k, s)
          PROVE  \E l \in DOMAIN events' : l < m /\ Coming(l)' /\ IsWrite(events'[l], k, s)
      <4>1. i # 1
        BY <3>1 DEF Coming, IsWrite
      <4>2. PICK l \in DOMAIN events' : l + 1 = i
        BY <1>2, <4>1
      <4>3. l < m
        BY <1>2, <3>1, <4>2
      <4>4. Coming(l)' /\ events'[l] = events[i]
        BY <1>2, <3>1, <4>2
      <4> QED BY <3>1, <4>3, <4>4
    <3>2. (Staged(u, k, s)' <=> Staged(u, k, s)) /\ (Buffered(buf, k, s)' <=> Buffered(buf, k, s))
      BY DEF Staged, Buffered, IsWrite
    <3> QED BY <2>1, <3>1, <3>2 DEF Held, IsWrite
  <2>2. \A s : Changed(s)' = Changed(s)
    BY DEF Changed
  <2>3. ASSUME NEW j \in DOMAIN events', NEW c \in Slot, Coming(j)', IsConfirm(events'[j], c),
               NEW s \in (x + 1) .. c, NEW k \in Changed(s)
        PROVE  Held(u, buf, j, k, s)'
    <3>1. j + 1 \in DOMAIN events /\ Coming(j + 1) /\ IsConfirm(events[j + 1], c) /\ j \in Nat
      BY <1>2, <2>3
    <3>2. Held(u, buf, j + 1, k, s)
      BY <1>9, <3>1 DEF Complete
    <3> QED BY <2>1, <3>1, <3>2
  <2>4. ASSUME Continues', NEW s \in (x + 1) .. delivered, NEW k \in Changed(s), Sent(active, k, s)',
               NEW m, m = Len(events') + 1
        PROVE  Held(u, buf, m, k, s)'
    <3>1. m = n /\ m \in Nat /\ m + 1 = Len(events) + 1
      BY <1>1, <1>2, <2>4
    <3>2. Continues /\ Sent(active, k, s)
      BY <1>2, <2>4 DEF Sent
    <3>3. Held(u, buf, m + 1, k, s)
      BY <1>9, <3>1, <3>2 DEF Complete
    <3> QED BY <2>1, <3>1, <3>3
  <2>5. /\ \A k, s : Staged(u, k, s)' <=> Staged(u, k, s)
        /\ \A e, c : IsConfirm(e, c)' <=> IsConfirm(e, c)
        /\ \A e, k, s : IsWrite(e, k, s)' <=> IsWrite(e, k, s)
    BY DEF Staged, IsConfirm, IsWrite
  <2> QED BY <1>9, <2>2, <2>3, <2>4, <2>5 DEF Complete
<1> QED BY <1>8, <1>9

(* An event of the session that is taken stands behind those taken before. *)
LEMMA Taken ==
  ASSUME TypeOK, SessionsInOrder, events # << >>, events' = Tail(events),
         UNCHANGED <<ledger, delivered, link, active>>,
         events[1].source = active, events[1].type \in {"Account", "ConfirmedSlot"},
         NEW u, NEW buf \in Seq(StateEvents), NEW more, more = Append(buf, Decoded(events[1]))
  PROVE  /\ more \in Seq(StateEvents)
         /\ \A i \in DOMAIN buf : i \in DOMAIN more /\ more[i] = buf[i]
         /\ (\A i \in DOMAIN buf : FromChain(active, buf[i])) =>
              \A i \in DOMAIN more : FromChain(active, more[i])
         /\ Ordered(u, buf) => Ordered(u, more)'
         /\ \A x : Complete(x, u, buf) => Complete(x, u, more)'
<1>1. PICK n : n = Len(events)
  OBVIOUS
<1>2. /\ n \in Nat \ {0} /\ Len(events') = n - 1 /\ 1 \in DOMAIN events
      /\ \A j \in DOMAIN events' :
           j \in Nat \ {0} /\ j + 1 \in DOMAIN events /\ events'[j] = events[j + 1]
      /\ \A j \in DOMAIN events' : Coming(j)' <=> Coming(j + 1)
      /\ \A i \in DOMAIN events : i \in Nat \ {0} /\ (i = 1 \/ \E l \in DOMAIN events' : l + 1 = i)
      /\ Continues' <=> Continues
      /\ Coming(1)
  BY <1>1, Reindexed
<1>3. PICK e \in Events : e = events[1]
  BY <1>2 DEF TypeOK
<1>4. PICK d \in StateEvents : d = Decoded(e)
  BY <1>3, EventFacts
<1>5. /\ d.type = e.type
      /\ e.type = "Account" => d.write = e.write
      /\ e.type = "ConfirmedSlot" => d.slot = e.slot
  BY <1>3, <1>4, EventFacts
<1>6. /\ \A k, s : IsWrite(d, k, s) <=> IsWrite(e, k, s)
      /\ \A c : IsConfirm(d, c) <=> IsConfirm(e, c)
      /\ \A f : InOrder(d, f) <=> InOrder(e, f)
      /\ \A f : InOrder(f, d) <=> InOrder(f, e)
      /\ IsAhead(u, d) <=> IsAhead(u, e)
      /\ HasSent(active, d) <=> HasSent(active, e)
      /\ FromChain(active, d) <=> FromChain(active, e)
  BY <1>3, <1>5 DEF IsWrite, IsConfirm, InOrder, IsAhead, HasSent, FromChain
<1>7. PICK p : p = Len(buf) + 1
  OBVIOUS
<1>8. /\ more \in Seq(StateEvents) /\ DOMAIN more = DOMAIN buf \cup {p} /\ p \in Nat
      /\ \A i \in DOMAIN buf : more[i] = buf[i] /\ i \in Nat /\ i < p
      /\ more[p] = d
  BY <1>3, <1>4, <1>7, AppendFacts
<1>9. FromChain(active, e) /\ SessionOf(active)
  BY <1>2, <1>3 DEF SessionsInOrder, TypeOK
<1>10. ASSUME \A i \in DOMAIN buf : FromChain(active, buf[i]), NEW i \in DOMAIN more
       PROVE  FromChain(active, more[i])
  <2>1. CASE i \in DOMAIN buf
    BY <1>8, <1>10, <2>1
  <2>2. CASE i = p
    BY <1>6, <1>8, <1>9, <2>2
  <2> QED BY <1>8, <2>1, <2>2
<1>11. Continues => HasSent(active, e)
  BY <1>2, <1>3, <1>9 DEF SessionOf, Continues
<1>12. ASSUME NEW j \in DOMAIN events', Coming(j)'
       PROVE  InOrder(e, events'[j])
  <2>1. /\ j + 1 \in DOMAIN events /\ Coming(j + 1) /\ 1 < j + 1 /\ events'[j] = events[j + 1]
    BY <1>2, <1>12
  <2> QED BY <1>2, <1>3, <1>9, <2>1 DEF SessionOf, Coming
<1>13. ASSUME Ordered(u, buf) PROVE Ordered(u, more)'
  <2>1. IsAhead(u, d) /\ \A i \in DOMAIN buf : InOrder(buf[i], d)
    BY <1>2, <1>3, <1>6, <1>13 DEF Ordered
  <2>2. \A i \in DOMAIN more : IsAhead(u, more[i])
    BY <1>8, <1>13, <2>1 DEF Ordered
  <2>3. ASSUME NEW i \in DOMAIN more, NEW j \in DOMAIN more, i < j PROVE InOrder(more[i], more[j])
    <3>1. i \in DOMAIN buf
      BY <1>8, <2>3
    <3>2. CASE j \in DOMAIN buf
      BY <1>8, <1>13, <2>3, <3>1, <3>2 DEF Ordered
    <3>3. CASE j = p
      BY <1>8, <2>1, <3>1, <3>3
    <3> QED BY <1>8, <3>2, <3>3
  <2>4. ASSUME NEW j \in DOMAIN events', Coming(j)'
        PROVE  /\ IsAhead(u, events'[j])
               /\ \A i \in DOMAIN more : InOrder(more[i], events'[j])
    <3>1. IsAhead(u, events'[j]) /\ \A i \in DOMAIN buf : InOrder(buf[i], events'[j])
      BY <1>2, <1>13, <2>4 DEF Ordered
    <3>2. InOrder(d, events'[j])
      BY <1>6, <1>12, <2>4
    <3> QED BY <1>8, <3>1, <3>2
  <2>5. ASSUME Continues, NEW i \in DOMAIN more PROVE HasSent(active, more[i])
    <3>1. CASE i \in DOMAIN buf
      BY <1>8, <1>13, <2>5, <3>1 DEF Ordered
    <3>2. CASE i = p
      BY <1>6, <1>8, <1>11, <2>5, <3>2
    <3> QED BY <1>8, <3>1, <3>2
  <2>6. Continues =>
          /\ \A k \in Key : Sent(active, k, u.versions[k].slot)
          /\ u.bootstrapSlot < u.confirmedSlot => u.confirmedSlot <= link[active].at
    BY <1>13 DEF Ordered
  <2>7. (\A f, g : InOrder(f, g)' <=> InOrder(f, g)) /\ (\A f : IsAhead(u, f)' <=> IsAhead(u, f))
    BY DEF InOrder, IsAhead
  <2>8. \A k, s : Sent(active, k, s)' <=> Sent(active, k, s)
    BY DEF Sent
  <2>9. \A f : HasSent(active, f)' <=> HasSent(active, f)
    BY DEF HasSent, Sent
  <2> QED BY <1>2, <2>2, <2>3, <2>4, <2>5, <2>6, <2>7, <2>8, <2>9 DEF Ordered
<1>14. ASSUME NEW x, Complete(x, u, buf) PROVE Complete(x, u, more)'
  <2>1. ASSUME NEW m \in Nat, NEW k, NEW s, Held(u, buf, m + 1, k, s)
        PROVE  Held(u, more, m, k, s)'
    <3>1. ASSUME NEW i \in DOMAIN events, i < m + 1, Coming(i), IsWrite(events[i], k, s)
          PROVE  \/ IsWrite(more[p], k, s)
                 \/ \E l \in DOMAIN events' : l < m /\ Coming(l)' /\ IsWrite(events'[l], k, s)
      <4>1. CASE i = 1
        BY <1>3, <1>6, <1>8, <3>1, <4>1
      <4>2. ASSUME NEW l \in DOMAIN events', l + 1 = i
            PROVE  l < m /\ Coming(l)' /\ IsWrite(events'[l], k, s)
        <5>1. l < m
          BY <1>2, <3>1, <4>2
        <5>2. Coming(l)' /\ events'[l] = events[i]
          BY <1>2, <3>1, <4>2
        <5> QED BY <3>1, <5>1, <5>2
      <4> QED BY <1>2, <4>1, <4>2
    <3>2. Staged(u, k, s)' <=> Staged(u, k, s)
      BY DEF Staged
    <3>3. Buffered(more, k, s)' <=> Buffered(more, k, s)
      BY DEF Buffered, IsWrite
    <3>4. Buffered(buf, k, s) \/ IsWrite(more[p], k, s) => Buffered(more, k, s)
      BY <1>8 DEF Buffered
    <3>5. \A f : IsWrite(f, k, s)' <=> IsWrite(f, k, s)
      BY DEF IsWrite
    <3> QED BY <2>1, <3>1, <3>2, <3>3, <3>4, <3>5 DEF Held
  <2>2. \A s : Changed(s)' = Changed(s)
    BY DEF Changed
  <2>3. ASSUME NEW j \in DOMAIN events', NEW c \in Slot, Coming(j)', IsConfirm(events'[j], c),
               NEW s \in (x + 1) .. c, NEW k \in Changed(s)
        PROVE  Held(u, more, j, k, s)'
    <3>1. j + 1 \in DOMAIN events /\ Coming(j + 1) /\ IsConfirm(events[j + 1], c) /\ j \in Nat
      BY <1>2, <2>3
    <3>2. Held(u, buf, j + 1, k, s)
      BY <1>14, <3>1 DEF Complete
    <3> QED BY <2>1, <3>1, <3>2
  <2>4. ASSUME Continues', NEW s \in (x + 1) .. delivered, NEW k \in Changed(s), Sent(active, k, s)',
               NEW m, m = Len(events') + 1
        PROVE  Held(u, more, m, k, s)'
    <3>1. m = n /\ m \in Nat /\ m + 1 = Len(events) + 1
      BY <1>1, <1>2, <2>4
    <3>2. Continues /\ Sent(active, k, s)
      BY <1>2, <2>4 DEF Sent
    <3>3. Held(u, buf, m + 1, k, s)
      BY <1>14, <3>1, <3>2 DEF Complete
    <3> QED BY <2>1, <3>1, <3>3
  <2>5. /\ \A k, s : Staged(u, k, s)' <=> Staged(u, k, s)
        /\ \A f, c : IsConfirm(f, c)' <=> IsConfirm(f, c)
        /\ \A f, k, s : IsWrite(f, k, s)' <=> IsWrite(f, k, s)
    BY DEF Staged, IsConfirm, IsWrite
  <2>6. ASSUME NEW j \in DOMAIN more, NEW c \in Slot, IsConfirm(more[j], c),
               NEW s \in (x + 1) .. c, NEW k \in Changed(s)
        PROVE  Staged(u, k, s) \/ \E i \in DOMAIN more : i < j /\ IsWrite(more[i], k, s)
    <3>1. CASE j \in DOMAIN buf
      <4>1. Staged(u, k, s) \/ \E i \in DOMAIN buf : i < j /\ IsWrite(buf[i], k, s)
        BY <1>8, <1>14, <2>6, <3>1 DEF Complete
      <4> QED BY <1>8, <4>1
    <3>2. CASE j = p
      <4>1. IsConfirm(events[1], c)
        BY <1>3, <1>6, <1>8, <2>6, <3>2
      <4>2. Held(u, buf, 1, k, s)
        BY <1>2, <1>14, <4>1 DEF Complete
      <4>3. ~ \E i \in DOMAIN events : i < 1
        BY <1>2
      <4>4. Staged(u, k, s) \/ Buffered(buf, k, s)
        BY <4>2, <4>3 DEF Held
      <4> QED BY <1>8, <3>2, <4>4 DEF Buffered
    <3> QED BY <1>8, <3>1, <3>2
  <2> QED BY <2>2, <2>3, <2>4, <2>5, <2>6 DEF Complete
<1> QED BY <1>8, <1>10, <1>13, <1>14

(* A new state takes everything that a new buffer will hold.               *)
LEMMA FreshStart ==
  TypeOK /\ SessionsInOrder =>
    /\ Ordered(NewUpdater, << >>)
    /\ \A x \in Slot : delivered <= x => Complete(x, NewUpdater, << >>)
<1> SUFFICES ASSUME TypeOK, SessionsInOrder
             PROVE  /\ Ordered(NewUpdater, << >>)
                    /\ \A x \in Slot : delivered <= x => Complete(x, NewUpdater, << >>)
  OBVIOUS
<1>1. /\ NewUpdater.bootstrapSlot = 0 /\ NewUpdater.confirmedSlot = 0 /\ ~ (0 < 0)
      /\ \A k \in Key : NewUpdater.versions[k].slot = -1
      /\ DOMAIN << >> = {}
  BY InitialValues
<1>2. ASSUME NEW j \in DOMAIN events PROVE IsAhead(NewUpdater, events[j])
  <2>1. events[j].type = "Account" => events[j].write.key \in Key /\ events[j].write.slot \in Nat
    BY SlotFacts, EventFacts DEF TypeOK
  <2> QED BY <1>1, <2>1 DEF IsAhead
<1>3. \A k \in Key : Sent(active, k, NewUpdater.versions[k].slot)
  <2>1. link[active].at \in Nat
    BY SlotFacts DEF TypeOK, Links
  <2> QED BY <1>1, <2>1 DEF Sent
<1>4. Ordered(NewUpdater, << >>)
  BY <1>1, <1>2, <1>3 DEF Ordered
<1>5. ASSUME NEW x \in Slot, delivered <= x PROVE Complete(x, NewUpdater, << >>)
  <2>1. x \in Nat /\ delivered \in Nat
    BY SlotFacts DEF TypeOK
  <2>2. ASSUME NEW j \in DOMAIN events, NEW c \in Slot, IsConfirm(events[j], c) PROVE c <= delivered /\ c \in Nat
    <3>1. c \in 1 .. delivered
      BY <2>2 DEF SessionsInOrder, FromChain, IsConfirm
    <3> QED BY <2>1, <3>1
  <2>3. \A c \in Nat : c <= delivered => \A s \in (x + 1) .. c : FALSE
    BY <1>5, <2>1
  <2>4. \A j \in DOMAIN events, c \in Slot : IsConfirm(events[j], c) => \A s \in (x + 1) .. c : FALSE
    BY <2>2, <2>3
  <2>5. \A s \in (x + 1) .. delivered : FALSE
    BY <1>5, <2>1
  <2>6. DOMAIN << >> = {}
    OBVIOUS
  <2> QED BY <2>4, <2>5, <2>6 DEF Complete
<1> QED BY <1>4, <1>5

(* The same after a step.                                                  *)
LEMMA FreshStartNext ==
  ASSUME TypeOK', SessionsInOrder'
  PROVE  /\ Ordered(NewUpdater, << >>)'
         /\ \A x \in Slot : delivered' <= x => Complete(x, NewUpdater, << >>)'
<1>1. (TypeOK /\ SessionsInOrder =>
         /\ Ordered(NewUpdater, << >>)
         /\ \A x \in Slot : delivered <= x => Complete(x, NewUpdater, << >>))'
  BY FreshStart, PTL
<1> QED BY <1>1

(* The next source is a connected one, if there is one.                    *)
LEMMA NextIsConnected ==
  ASSUME NEW a \in Source, NEW conn \in SUBSET Source
  PROVE  /\ NextConnected(a, conn) \in Source
         /\ conn # {} => NextConnected(a, conn) \in conn
<1>1. SourceCount \in Nat \ {0} /\ Source = 0 .. SourceCount - 1 /\ a \in Nat
  BY SourceAssumption
<1>2. CASE conn = {}
  BY <1>2 DEF NextConnected
<1>3. CASE conn # {}
  <2> DEFINE O == { o \in 1 .. SourceCount : (a + o) % SourceCount \in conn }
  <2>1. PICK c \in conn : c \in 0 .. SourceCount - 1
    BY <1>1, <1>3
  <2>2. PICK o \in 1 .. SourceCount : (a + o) % SourceCount = c
    <3>1. CASE c > a
      <4>1. c - a \in 1 .. SourceCount /\ (a + (c - a)) % SourceCount = c
        BY <1>1, <2>1, <3>1
      <4> QED BY <4>1
    <3>2. CASE c <= a
      <4>1. c - a + SourceCount \in 1 .. SourceCount /\ a + (c - a + SourceCount) = c + SourceCount
        BY <1>1, <2>1, <3>2
      <4>2. (c + SourceCount) % SourceCount = c
        BY <1>1, <2>1
      <4> QED BY <4>1, <4>2
    <3> QED BY <1>1, <2>1, <3>1, <3>2
  <2>3. O \subseteq Nat /\ O # {}
    <3>1. o \in O
      BY <2>1, <2>2
    <3>2. 1 .. SourceCount \subseteq Nat
      BY <1>1
    <3> QED BY <3>1, <3>2
  <2>4. Min(O) \in O
    <3> HIDE DEF O
    <3> QED BY <2>3, MinIsLowerBound
  <2>5. (a + Min(O)) % SourceCount \in conn
    BY <2>4
  <2> QED BY <1>3, <2>5 DEF NextConnected
<1> QED BY <1>2, <1>3

-----------------------------------------------------------------------------
(* The updater thread                                                      *)

(* What a fetch can return at the earliest.                                *)
LEMMA FetchFloorFacts ==
  ASSUME delivered \in Slot, NEW m \in Slot
  PROVE  /\ FetchFloor(m) \in Slot /\ m <= FetchFloor(m)
         /\ rpc # "lagging" => delivered <= FetchFloor(m)
<1>1. m \in Nat /\ delivered \in Nat
  BY SlotFacts
<1>2. Max({m, delivered}) = IF m >= delivered THEN m ELSE delivered
  BY <1>1, MaxOfTwo
<1> QED BY <1>1, <1>2 DEF FetchFloor

(* invalidate takes the readiness away and leaves the rest.                *)
LEMMA InvalidateFacts ==
  ASSUME NEW st \in Stores
  PROVE  /\ Invalidate(st) \in Stores /\ ~ Invalidate(st).ready
         /\ Invalidate(st).slot = st.slot /\ Invalidate(st).accounts = st.accounts
BY DEF Invalidate, Stores

(* A thread that neither serves nor replays and has nothing buffered needs *)
(* no more than a fetch that will bring what the servers have streamed.    *)
LEMMA StartsAnew ==
  /\ TypeOK /\ SessionsInOrder /\ PhasesInOrder /\ StoreIsLedger
  /\ ~ Serving /\ ~ Replaying
  /\ Working => buffered = << >>
  /\ phase = "bootstrap" /\ rpc # "lagging" => delivered <= floor
  => ServiceInv
<1> SUFFICES ASSUME TypeOK, SessionsInOrder, PhasesInOrder, StoreIsLedger, ~ Serving, ~ Replaying,
                    Working => buffered = << >>,
                    phase = "bootstrap" /\ rpc # "lagging" => delivered <= floor
             PROVE  ServiceInv
  OBVIOUS
<1>1. fresh = NewUpdater /\ floor \in Slot /\ phase # "serve" /\ phase # "install"
  BY DEF PhasesInOrder, TypeOK, Serving
<1>2. Overtakes
  BY <1>1 DEF Overtakes
<1>3. Working => Ordered(fresh, buffered)
  BY <1>1, FreshStart
<1>4. ASSUME rpc # "lagging", Fetching PROVE Complete(floor, fresh, buffered)
  <2>1. phase = "bootstrap" /\ buffered = << >>
    BY <1>1, <1>4 DEF Fetching, Working
  <2> QED BY <1>1, <1>4, <2>1, FreshStart
<1> QED BY <1>1, <1>2, <1>3, <1>4 DEF ServiceInv

(* The same after a step.                                                  *)
LEMMA StartsAnewNext ==
  ASSUME TypeOK', SessionsInOrder', PhasesInOrder', StoreIsLedger', ~ Serving', ~ Replaying',
         Working' => buffered' = << >>,
         phase' = "bootstrap" /\ rpc' # "lagging" => delivered' <= floor'
  PROVE  ServiceInv'
<1>1. (/\ TypeOK /\ SessionsInOrder /\ PhasesInOrder /\ StoreIsLedger
       /\ ~ Serving /\ ~ Replaying
       /\ Working => buffered = << >>
       /\ phase = "bootstrap" /\ rpc # "lagging" => delivered <= floor
       => ServiceInv)'
  BY StartsAnew, PTL
<1> QED BY <1>1

(* What the store holds remains true of a chain that stays.                *)
LEMMA StoreStays ==
  ASSUME StoreIsLedger, UNCHANGED chain, store'.slot = store.slot, store'.accounts = store.accounts,
         store'.ready => store.ready
  PROVE  StoreIsLedger'
BY DEF StoreIsLedger, chain, AsOf, PageSlots

(* The head of the loop.                                                   *)
LEMMA LoopHeadInv ==
  ASSUME ServiceInv, NEW act \in Source, NEW conn \in SUBSET Source, LoopHead(act, conn),
         UNCHANGED <<chain, link, delivered, stop, faults>>, fresh = NewUpdater,
         events' \in Seq(Events), \A y \in Source : SessionOf(y)',
         \A i \in DOMAIN events' : FromChain(events[i].source, events[i])'
  PROVE  ServiceInv'
<1>1. TypeOK /\ SessionsInOrder /\ StoreIsLedger
  BY DEF ServiceInv
<1>2. UNCHANGED <<ledger, tip, rpc>>
  BY DEF chain
<1>3. PICK a \in Source : a = IF act \in conn THEN act ELSE NextConnected(act, conn)
  BY NextIsConnected
<1>4. /\ store' = Invalidate(store) /\ connected' = conn /\ active' = a
      /\ phase' = (IF a \in conn THEN "bootstrap" ELSE "wait")
      /\ floor' = (IF a \in conn THEN FetchFloor(1) ELSE 0)
      /\ buffered' = << >> /\ refreshing' = FALSE /\ UNCHANGED <<updater, fresh>>
  BY <1>3 DEF LoopHead, AfterSelection, NewBuffer
<1>5. /\ store' \in Stores /\ ~ store'.ready
      /\ store'.slot = store.slot /\ store'.accounts = store.accounts
  BY <1>1, <1>4, InvalidateFacts DEF TypeOK
<1>6. /\ FetchFloor(1) \in Slot /\ 1 <= FetchFloor(1) /\ FetchFloor(1) \in Nat
      /\ rpc # "lagging" => delivered <= FetchFloor(1)
  BY <1>1, FetchFloorFacts, SlotFacts DEF TypeOK
<1>7. phase' \in {"wait", "bootstrap"} /\ (phase' = "bootstrap" => a \in conn)
  BY <1>4
<1>8. TypeOK'
  <2>1. floor' \in Slot /\ buffered' \in Seq(StateEvents) /\ phase' \in Phases
    BY <1>4, <1>6, <1>7, SlotFacts DEF Phases
  <2> QED BY <1>1, <1>2, <1>4, <1>5, <2>1 DEF TypeOK
<1>9. SessionsInOrder'
  <2>1. delivered' <= tip'
    BY <1>1, <1>2 DEF SessionsInOrder
  <2>2. \A i \in DOMAIN buffered' : FALSE
    BY <1>4
  <2> QED BY <2>1, <2>2 DEF SessionsInOrder
<1>10. PhasesInOrder'
  BY <1>4, <1>5, <1>6, <1>7 DEF PhasesInOrder, Working, Serving, Replaying, Fetching
<1>11. StoreIsLedger'
  BY <1>1, <1>5, StoreStays
<1>12. ~ Serving' /\ ~ Replaying'
  BY <1>7 DEF Serving, Replaying
<1>13. phase' = "bootstrap" /\ rpc' # "lagging" => delivered' <= floor'
  BY <1>2, <1>4, <1>6, <1>7
<1> QED BY <1>4, <1>8, <1>9, <1>10, <1>11, <1>12, <1>13, StartsAnewNext

(* An abandoned bootstrap.                                                 *)
LEMMA LeaveBootstrapInv ==
  ASSUME ServiceInv, NEW act \in Source, NEW conn \in SUBSET Source, LeaveBootstrap(act, conn),
         UNCHANGED <<chain, link, delivered, stop, faults>>, fresh = NewUpdater,
         events' \in Seq(Events), \A y \in Source : SessionOf(y)',
         \A i \in DOMAIN events' : FromChain(events[i].source, events[i])'
  PROVE  ServiceInv'
<1>1. CASE LoopHead(act, conn)
  BY <1>1, LoopHeadInv
<1>2. CASE /\ phase' = "stopped" /\ active' = act /\ connected' = conn
           /\ store' = Invalidate(store) /\ buffered' = << >>
           /\ UNCHANGED <<updater, fresh, refreshing, floor>>
  <2>1. TypeOK /\ SessionsInOrder /\ StoreIsLedger /\ UNCHANGED <<ledger, tip, rpc>>
    BY DEF ServiceInv, chain
  <2>2. /\ store' \in Stores /\ ~ store'.ready
        /\ store'.slot = store.slot /\ store'.accounts = store.accounts
    BY <1>2, <2>1, InvalidateFacts DEF TypeOK
  <2>3. TypeOK'
    BY <1>2, <2>1, <2>2 DEF TypeOK, Phases
  <2>4. SessionsInOrder'
    <3>1. delivered' <= tip'
      BY <2>1 DEF SessionsInOrder
    <3>2. \A i \in DOMAIN buffered' : FALSE
      BY <1>2
    <3> QED BY <3>1, <3>2 DEF SessionsInOrder
  <2>5. PhasesInOrder'
    BY <1>2, <2>2 DEF PhasesInOrder, Working, Serving, Replaying, Fetching
  <2>6. StoreIsLedger'
    BY <2>1, <2>2, StoreStays
  <2>7. ~ Serving' /\ ~ Replaying' /\ ~ Working' /\ phase' # "bootstrap"
    BY <1>2 DEF Serving, Replaying, Working
  <2> QED BY <2>3, <2>4, <2>5, <2>6, <2>7, StartsAnewNext
<1> QED BY <1>1, <1>2 DEF LeaveBootstrap

(* An event that changes at most which sources are connected.              *)
LEMMA PassByInv ==
  ASSUME ServiceInv, events # << >>, events' = Tail(events),
         UNCHANGED <<chain, link, delivered, stop, faults>>,
         UNCHANGED <<phase, active, states, refresh>>, connected' \in SUBSET Source,
         \A z \in connected' :
           z \in connected \/ (events[1].type = "Connected" /\ events[1].source = z),
         events[1].type = "Disconnected" => events[1].source \notin connected',
         Working => /\ active \in connected'
                    /\ events[1].source # active \/ events[1].type = "Connected"
  PROVE  ServiceInv'
<1>1. /\ TypeOK /\ SessionsInOrder
      /\ UNCHANGED <<ledger, tip, rpc, updater, fresh, store, refreshing, buffered, floor>>
  BY DEF ServiceInv, chain, states, refresh
<1>2. events' \in Seq(Events)
  BY <1>1, ReceivedEvent DEF TypeOK
<1>3. TypeOK'
  BY <1>1, <1>2 DEF TypeOK
<1>4. /\ \A y \in Source : SessionOf(y)'
      /\ \A i \in DOMAIN events' : FromChain(events[i].source, events[i])'
  BY <1>1, ReceivedSessions
<1>5. SessionsInOrder'
  <2>1. delivered' <= tip'
    BY <1>1 DEF SessionsInOrder
  <2>2. \A y, f : FromChain(y, f) => FromChain(y, f)'
    BY <1>1 DEF FromChain
  <2> QED BY <1>1, <1>4, <2>1, <2>2 DEF SessionsInOrder
<1>6. /\ (Working' <=> Working) /\ (Serving' <=> Serving)
      /\ (Replaying' <=> Replaying) /\ (Fetching' <=> Fetching)
      /\ (Serving => Working) /\ (Replaying => Working) /\ (Fetching => Working)
  BY <1>1 DEF Working, Serving, Replaying, Fetching
<1>7. PhasesInOrder' /\ Overtakes'
  BY <1>1, <1>6 DEF ServiceInv, PhasesInOrder, Overtakes, IsConfirm
<1>8. StoreIsLedger'
  BY <1>1, StoreStays DEF ServiceInv
<1>9. \A u : FromSession(u) => FromSession(u)'
  BY <1>1 DEF FromSession, AsOf, PageSlots
<1>10. ASSUME Working
       PROVE  /\ \A u, buf : Ordered(u, buf) => Ordered(u, buf)'
              /\ \A x, u, buf : Complete(x, u, buf) => Complete(x, u, buf)'
  BY <1>1, <1>10, PassedBy
<1>11. \A x : TakesOver(x) => TakesOver(x)'
  BY <1>1 DEF TakesOver, Staged, Buffered, IsWrite
<1> QED BY <1>1, <1>3, <1>5, <1>6, <1>7, <1>8, <1>9, <1>10, <1>11 DEF ServiceInv

(* What a received event is.                                               *)
LEMMA ReceiveFacts ==
  ASSUME TypeOK, NEW e, Receive(e)
  PROVE  /\ events # << >> /\ events' = Tail(events) /\ e = events[1] /\ e \in Events
         /\ e.source \in Source /\ events' \in Seq(Events)
         /\ UNCHANGED <<chain, ledger, tip, rpc, link, delivered, stop, faults>>
<1>1. events # << >> /\ events' = Tail(events) /\ e = Head(events)
  BY DEF Receive
<1>2. events \in Seq(Events)
  BY DEF TypeOK
<1>3. Head(events) = events[1] /\ events[1] \in Events /\ events' \in Seq(Events)
  BY <1>1, <1>2, TailFacts
<1> QED BY <1>1, <1>3, EventFacts DEF Receive, chain

(* Waiting for a source.                                                   *)
LEMMA WaitInv == ServiceInv /\ (\E e \in Range(events) : WaitReceives(e)) => ServiceInv'
<1> SUFFICES ASSUME ServiceInv, NEW e \in Range(events), WaitReceives(e) PROVE ServiceInv'
  OBVIOUS
<1>1. TypeOK /\ SessionsInOrder /\ PhasesInOrder /\ StoreIsLedger
  BY DEF ServiceInv
<1>2. /\ events # << >> /\ events' = Tail(events) /\ e = events[1] /\ e \in Events
      /\ e.source \in Source /\ events' \in Seq(Events)
      /\ UNCHANGED <<chain, ledger, tip, rpc, link, delivered, stop, faults>>
  BY <1>1, ReceiveFacts DEF WaitReceives
<1>3. phase = "wait" /\ ~ Working /\ connected \subseteq Source
  BY <1>1 DEF WaitReceives, Working, TypeOK
<1>4. CASE /\ e.type = "Connected"
           /\ connected' = connected \cup {e.source}
           /\ active' = e.source
           /\ phase' = "bootstrap"
           /\ floor' = FetchFloor(1)
           /\ UNCHANGED <<states, refreshing, buffered>>
  <2>1. UNCHANGED <<updater, fresh, store, refreshing, buffered>> /\ buffered = << >> /\ fresh = NewUpdater
    BY <1>1, <1>3, <1>4 DEF states, PhasesInOrder, Replaying
  <2>2. /\ FetchFloor(1) \in Slot /\ 1 <= FetchFloor(1) /\ FetchFloor(1) \in Nat
        /\ rpc # "lagging" => delivered <= FetchFloor(1)
    BY <1>1, FetchFloorFacts, SlotFacts DEF TypeOK
  <2>3. TypeOK'
    BY <1>1, <1>2, <1>4, <2>1, <2>2 DEF TypeOK, Phases
  <2>4. /\ \A y \in Source : SessionOf(y)'
        /\ \A i \in DOMAIN events' : FromChain(events[i].source, events[i])'
    <3>1. \A z \in connected' : z \in connected \/ (events[1].type = "Connected" /\ events[1].source = z)
      BY <1>2, <1>4
    <3>2. events[1].type = "Disconnected" => events[1].source \notin connected'
      BY <1>2, <1>4
    <3> QED BY <1>1, <1>2, <3>1, <3>2, ReceivedSessions
  <2>5. SessionsInOrder'
    <3>1. delivered' <= tip' /\ \A i \in DOMAIN buffered' : FALSE
      BY <1>1, <1>2, <2>1 DEF SessionsInOrder
    <3> QED BY <2>4, <3>1 DEF SessionsInOrder
  <2>6. ~ store.ready /\ ~ refreshing
    BY <1>1, <1>3 DEF PhasesInOrder, Serving
  <2>7. PhasesInOrder'
    BY <1>4, <2>1, <2>2, <2>6 DEF PhasesInOrder, Working, Serving, Replaying, Fetching
  <2>8. StoreIsLedger'
    BY <1>1, <1>2, <2>1, StoreStays
  <2>9. ~ Serving' /\ ~ Replaying' /\ buffered' = << >>
    BY <1>4, <2>1 DEF Serving, Replaying
  <2>10. rpc' # "lagging" => delivered' <= floor'
    BY <1>2, <1>4, <2>2
  <2> QED BY <2>3, <2>5, <2>7, <2>8, <2>9, <2>10, StartsAnewNext
<1>5. CASE /\ e.type = "Disconnected"
           /\ connected' = connected \ {e.source}
           /\ UNCHANGED <<phase, active, states, refresh>>
  BY <1>2, <1>3, <1>5, PassByInv
<1>6. CASE e.type \in {"Account", "ConfirmedSlot", "Malformed"} /\ UNCHANGED service
  <2>1. UNCHANGED <<phase, active, connected, states, refresh>>
    BY <1>6 DEF service, place
  <2>2. e.type # "Disconnected"
    BY <1>6
  <2> QED BY <1>2, <1>3, <2>1, <2>2, PassByInv
<1> QED BY <1>4, <1>5, <1>6 DEF WaitReceives

(* A thread that ends without the final invalidate.                        *)
LEMMA ExitInv ==
  ASSUME ServiceInv, Exit, ~ Replaying, UNCHANGED <<chain, link, delivered, stop, faults>>,
         events' \in Seq(Events), \A y \in Source : SessionOf(y)',
         \A i \in DOMAIN events' : FromChain(events[i].source, events[i])'
  PROVE  ServiceInv'
<1>1. /\ TypeOK /\ SessionsInOrder /\ PhasesInOrder /\ StoreIsLedger
      /\ UNCHANGED <<ledger, tip, rpc, active, connected, updater, fresh, store>>
      /\ UNCHANGED <<refreshing, buffered, floor>>
      /\ phase' = "exited"
  BY DEF ServiceInv, Exit, chain, states, refresh
<1>2. TypeOK'
  BY <1>1 DEF TypeOK, Phases
<1>3. SessionsInOrder'
  <2>1. delivered' <= tip'
    BY <1>1 DEF SessionsInOrder
  <2>2. \A y, f : FromChain(y, f) => FromChain(y, f)'
    BY <1>1 DEF FromChain
  <2> QED BY <1>1, <2>1, <2>2 DEF SessionsInOrder
<1>4. PhasesInOrder'
  BY <1>1 DEF PhasesInOrder, Working, Serving, Replaying, Fetching
<1>5. StoreIsLedger'
  BY <1>1, StoreStays
<1>6. ~ Serving' /\ ~ Replaying' /\ ~ Working' /\ phase' # "bootstrap"
  BY <1>1 DEF Serving, Replaying, Working
<1> QED BY <1>2, <1>3, <1>4, <1>5, <1>6, StartsAnewNext

(* Buffering for the fetched state to come.                                *)
LEMMA BootstrapReceivesInv == ServiceInv /\ (\E e \in Range(events) : BootstrapReceives(e)) => ServiceInv'
<1> SUFFICES ASSUME ServiceInv, NEW e \in Range(events), BootstrapReceives(e) PROVE ServiceInv'
  OBVIOUS
<1>1. TypeOK /\ SessionsInOrder /\ PhasesInOrder /\ StoreIsLedger
  BY DEF ServiceInv
<1>2. /\ events # << >> /\ events' = Tail(events) /\ e = events[1] /\ e \in Events
      /\ e.source \in Source /\ events' \in Seq(Events)
      /\ UNCHANGED <<chain, ledger, tip, rpc, link, delivered, stop, faults>>
  BY <1>1, ReceiveFacts DEF BootstrapReceives
<1>3. /\ phase = "bootstrap" /\ Working /\ ~ Replaying /\ ~ Serving /\ Fetching
      /\ connected \subseteq Source /\ active \in connected /\ active \in Source
      /\ fresh = NewUpdater
  BY <1>1 DEF BootstrapReceives, Working, Serving, Replaying, Fetching, TypeOK, PhasesInOrder
<1>4. CASE /\ e.type = "Connected"
           /\ connected' = connected \cup {e.source}
           /\ UNCHANGED <<phase, active, states, refresh>>
  BY <1>2, <1>3, <1>4, PassByInv
<1>5. CASE /\ e.type = "Disconnected" /\ e.source # active
           /\ connected' = connected \ {e.source}
           /\ UNCHANGED <<phase, active, states, refresh>>
  BY <1>2, <1>3, <1>5, PassByInv
<1>6. CASE e.type \in {"Account", "ConfirmedSlot", "Malformed"} /\ e.source # active /\ UNCHANGED service
  <2>1. UNCHANGED <<phase, active, connected, states, refresh>>
    BY <1>6 DEF service, place
  <2>2. e.type # "Disconnected"
    BY <1>6
  <2> QED BY <1>2, <1>3, <1>6, <2>1, <2>2, PassByInv
<1>7. CASE /\ e.type = "Disconnected" /\ e.source = active
           /\ LET conn == connected \ {e.source}
              IN  LeaveBootstrap(NextConnected(active, conn), conn)
  <2>1. PICK conn \in SUBSET Source : conn = connected \ {e.source}
    BY <1>3
  <2>2. PICK act \in Source : act = NextConnected(active, conn)
    BY <1>3, NextIsConnected
  <2>3. LeaveBootstrap(act, conn)
    BY <1>7, <2>1, <2>2
  <2>4. connected' = conn
    BY <2>3 DEF LeaveBootstrap, LoopHead
  <2>5. /\ \A y \in Source : SessionOf(y)'
        /\ \A i \in DOMAIN events' : FromChain(events[i].source, events[i])'
    <3>1. (\A z \in connected' : z \in connected) /\ events[1].source \notin connected'
      BY <1>2, <2>1, <2>4
    <3> QED BY <1>1, <1>2, <3>1, ReceivedSessions
  <2> QED BY <1>2, <1>3, <2>3, <2>5, LeaveBootstrapInv
<1>8. ASSUME UNCHANGED connected, e.type # "Disconnected"
      PROVE  /\ \A y \in Source : SessionOf(y)'
             /\ \A i \in DOMAIN events' : FromChain(events[i].source, events[i])'
  BY <1>1, <1>2, <1>8, ReceivedSessions
<1>9. CASE e.type \in {"Account", "ConfirmedSlot", "Malformed"} /\ Exit
  <2>1. UNCHANGED connected /\ e.type # "Disconnected"
    BY <1>9 DEF Exit
  <2> QED BY <1>2, <1>3, <1>8, <1>9, <2>1, ExitInv
<1>10. CASE e.type = "Malformed" /\ LeaveBootstrap(NextConnected(active, connected), connected)
  <2>1. PICK conn \in SUBSET Source : conn = connected
    BY <1>3
  <2>2. PICK act \in Source : act = NextConnected(active, conn)
    BY <1>3, NextIsConnected
  <2>3. LeaveBootstrap(act, conn)
    BY <1>10, <2>1, <2>2
  <2>4. UNCHANGED connected /\ e.type # "Disconnected"
    BY <1>10, <2>1, <2>3 DEF LeaveBootstrap, LoopHead
  <2> QED BY <1>2, <1>3, <1>8, <2>3, <2>4, LeaveBootstrapInv
<1>11. CASE /\ e.type \in {"Account", "ConfirmedSlot"} /\ e.source = active
            /\ buffered' = Append(buffered, Decoded(e))
            /\ UNCHANGED <<place, states, refreshing, floor>>
  <2>1. UNCHANGED <<phase, active, connected, updater, fresh, store, refreshing, floor>>
    BY <1>11 DEF place, states
  <2>2. PICK b \in Seq(StateEvents) : b = buffered
    BY <1>1 DEF TypeOK
  <2>3. PICK more : more = Append(b, Decoded(events[1]))
    OBVIOUS
  <2>4. /\ more \in Seq(StateEvents)
        /\ (\A i \in DOMAIN b : FromChain(active, b[i])) => \A i \in DOMAIN more : FromChain(active, more[i])
        /\ \A u : Ordered(u, b) => Ordered(u, more)'
        /\ \A u, x : Complete(x, u, b) => Complete(x, u, more)'
    BY <1>1, <1>2, <1>11, <2>1, <2>3, Taken
  <2>5. buffered' = more
    BY <1>2, <1>11, <2>2, <2>3
  <2>6. TypeOK'
    BY <1>1, <1>2, <2>1, <2>4, <2>5 DEF TypeOK
  <2>7. SessionsInOrder'
    <3>1. delivered' <= tip' /\ \A i \in DOMAIN b : FromChain(active, b[i])
      BY <1>1, <1>2, <2>2 DEF SessionsInOrder
    <3>2. \A y, f : FromChain(y, f) => FromChain(y, f)'
      BY <1>2 DEF FromChain
    <3>3. e.type # "Disconnected"
      BY <1>11
    <3> QED BY <1>8, <2>1, <2>4, <2>5, <3>1, <3>2, <3>3 DEF SessionsInOrder
  <2>8. /\ Working' /\ ~ Serving' /\ ~ Replaying' /\ Fetching' /\ phase' = "bootstrap"
    BY <1>3, <2>1 DEF Working, Serving, Replaying, Fetching
  <2>9. PhasesInOrder'
    BY <1>1, <1>3, <2>1, <2>8 DEF PhasesInOrder, Serving
  <2>10. StoreIsLedger'
    BY <1>1, <1>2, <2>1, StoreStays
  <2>11. Overtakes'
    BY <2>8 DEF Overtakes
  <2>12. Ordered(fresh, b) /\ (rpc # "lagging" => Complete(floor, fresh, b))
    BY <1>3, <2>2 DEF ServiceInv
  <2>13. Ordered(fresh, buffered)' /\ (rpc' # "lagging" => Complete(floor, fresh, buffered)')
    BY <1>2, <2>1, <2>4, <2>5, <2>12
  <2> QED BY <2>6, <2>7, <2>8, <2>9, <2>10, <2>11, <2>13 DEF ServiceInv
<1> QED BY <1>4, <1>5, <1>6, <1>7, <1>9, <1>10, <1>11 DEF BootstrapReceives

-----------------------------------------------------------------------------
(* Fetches and replay                                                      *)

(* What a step of the updater alone does not touch.                        *)
LEMMA Unmoved ==
  ASSUME UNCHANGED <<chain, feed, active>>
  PROVE  /\ UNCHANGED <<ledger, tip, rpc, link, events, delivered>>
         /\ \A u, buf : Ordered(u, buf) => Ordered(u, buf)'
         /\ \A u : FromSession(u) => FromSession(u)'
         /\ \A x, u, buf : Complete(x, u, buf) => Complete(x, u, buf)'
         /\ SessionsInOrder /\ UNCHANGED connected /\ (\A i \in DOMAIN buffered' : FromChain(active, buffered'[i]))
              => SessionsInOrder'
<1>1. UNCHANGED <<ledger, tip, rpc, link, events, delivered>>
  BY DEF chain, feed
<1>2. \A u, buf : Ordered(u, buf) => Ordered(u, buf)'
  BY <1>1, SameChannel
<1>3. \A u : FromSession(u) => FromSession(u)'
  BY <1>1 DEF FromSession, AsOf, PageSlots
<1>4. \A x, u, buf : Complete(x, u, buf) => Complete(x, u, buf)'
  <2>1. \A n, k, s, u, buf : Held(u, buf, n, k, s)' <=> Held(u, buf, n, k, s)
    BY <1>1 DEF Held, Coming, Cut, Buffered, Staged, IsWrite
  <2>2. \A j : Coming(j)' <=> Coming(j)
    BY <1>1 DEF Coming, Cut
  <2>3. Continues' <=> Continues
    BY <1>1 DEF Continues, Cut
  <2>4. \A k, s : Sent(active, k, s)' <=> Sent(active, k, s)
    BY <1>1 DEF Sent
  <2>5. \A s : Changed(s)' = Changed(s)
    BY <1>1 DEF Changed
  <2> QED BY <1>1, <2>1, <2>2, <2>3, <2>4, <2>5 DEF Complete, Staged, IsWrite, IsConfirm
<1>5. ASSUME SessionsInOrder, UNCHANGED connected, \A i \in DOMAIN buffered' : FromChain(active, buffered'[i])
      PROVE  SessionsInOrder'
  <2>1. \A y : SessionOf(y)' <=> SessionOf(y)
    BY <1>1, <1>5, SameChannel
  <2>2. \A y, f : FromChain(y, f) => FromChain(y, f)'
    BY <1>1 DEF FromChain
  <2> QED BY <1>1, <1>5, <2>1, <2>2 DEF SessionsInOrder
<1> QED BY <1>1, <1>2, <1>3, <1>4, <1>5

(* What is complete is so from any later slot on.                          *)
LEMMA CompleteLater ==
  ASSUME NEW x \in Int, NEW z \in Int, x <= z, NEW u, NEW v, NEW buf, Complete(x, u, buf),
         \A k, s : s \in Int /\ Staged(u, k, s) => Staged(v, k, s)
  PROVE  Complete(z, v, buf)
<1>1. \A c : \A s \in (z + 1) .. c : s \in (x + 1) .. c /\ s \in Int
  OBVIOUS
<1>2. \A n, k, s : s \in Int /\ Held(u, buf, n, k, s) => Held(v, buf, n, k, s)
  BY DEF Held
<1>3. ASSUME NEW j \in DOMAIN buf, NEW c \in Slot, IsConfirm(buf[j], c),
             NEW s \in (z + 1) .. c, NEW k \in Changed(s)
      PROVE  Staged(v, k, s) \/ \E i \in DOMAIN buf : i < j /\ IsWrite(buf[i], k, s)
  BY <1>1, <1>3 DEF Complete
<1>4. ASSUME NEW j \in DOMAIN events, NEW c \in Slot, Coming(j), IsConfirm(events[j], c),
             NEW s \in (z + 1) .. c, NEW k \in Changed(s)
      PROVE  Held(v, buf, j, k, s)
  <2>1. Held(u, buf, j, k, s)
    BY <1>1, <1>4 DEF Complete
  <2> QED BY <1>1, <1>2, <2>1
<1>5. ASSUME Continues, NEW s \in (z + 1) .. delivered, NEW k \in Changed(s), Sent(active, k, s)
      PROVE  Held(v, buf, Len(events) + 1, k, s)
  <2>1. Held(u, buf, Len(events) + 1, k, s)
    BY <1>1, <1>5 DEF Complete
  <2> QED BY <1>1, <1>2, <2>1
<1> QED BY <1>3, <1>4, <1>5 DEF Complete

(* What the fetched state needs has been buffered or is to come.           *)
LEMMA FetchedState ==
  ASSUME TypeOK, floor > 0, NEW f \in Fetchable, NEW v, v = FromFetchedAltState(active, f)
  PROVE  /\ v \in StateUpdaters /\ FromSession(v) /\ v.recovering
         /\ v.bootstrapSlot = f.slot /\ v.confirmedSlot = f.slot
         /\ f.slot \in Slot /\ floor <= f.slot /\ f.slot <= tip
         /\ \A buf : Ordered(NewUpdater, buf) => Ordered(v, buf)
         /\ \A buf : Complete(floor, NewUpdater, buf) => Complete(f.slot, v, buf)
<1>1. /\ f \in FetchedAltStates /\ f.slot \in Slot /\ f.slot \in Nat
      /\ floor <= f.slot /\ f.slot <= tip /\ floor \in Nat /\ floor \in Int /\ f.slot \in Int
      /\ AsOf(f.accounts, PageSlots(f.slot)) /\ f.accounts \in Accounts
  <2>1. f \in FetchedAltStates /\ f.slot \in floor .. tip /\ AsOf(f.accounts, PageSlots(f.slot))
    BY DEF Fetchable
  <2>2. f.slot \in Slot /\ f.accounts \in Accounts
    BY <2>1 DEF FetchedAltStates
  <2>3. floor \in Slot /\ tip \in Slot
    BY DEF TypeOK
  <2> QED BY <2>1, <2>2, <2>3, SlotFacts
<1>2. /\ v \in StateUpdaters /\ v.recovering /\ v.source = active
      /\ v.bootstrapSlot = f.slot /\ v.confirmedSlot = f.slot /\ v.accounts = f.accounts
      /\ \A s \in Slot : v.pending[s] = << >>
      /\ \A k \in Key : v.versions[k] = Unversioned
      /\ v.versions = NewUpdater.versions /\ v.pending = NewUpdater.pending
  <2>1. [s \in Slot |-> << >>] \in [Slot -> Seq(Write)]
    OBVIOUS
  <2>2. [k \in Key |-> Unversioned] \in Versions
    BY DEF Versions
  <2>3. active \in Source
    BY DEF TypeOK
  <2>4. v \in StateUpdaters
    BY <1>1, <2>1, <2>2, <2>3 DEF FromFetchedAltState, StateUpdaters
  <2> QED BY <2>4 DEF FromFetchedAltState, NewUpdater
<1>3. FromSession(v)
  <2>1. \A s \in Slot : \A i \in DOMAIN v.pending[s] : FALSE
    BY <1>2
  <2>2. 0 < f.slot /\ f.slot <= f.slot
    BY <1>1
  <2> QED BY <1>1, <1>2, <2>1, <2>2 DEF FromSession
<1>4. ~ (v.bootstrapSlot < v.confirmedSlot) /\ ~ (NewUpdater.bootstrapSlot < NewUpdater.confirmedSlot)
  BY <1>1, <1>2, InitialValues
<1>5. \A buf : Ordered(NewUpdater, buf) => Ordered(v, buf)
  <2>1. \A e : IsAhead(NewUpdater, e) => IsAhead(v, e)
    BY <1>2, <1>4 DEF IsAhead
  <2> QED BY <1>2, <1>4, <2>1 DEF Ordered
<1>6. \A buf : Complete(floor, NewUpdater, buf) => Complete(f.slot, v, buf)
  <2>1. \A k, s : Staged(NewUpdater, k, s) => Staged(v, k, s)
    BY <1>2 DEF Staged
  <2> QED BY <1>1, <2>1, CompleteLater
<1> QED BY <1>1, <1>2, <1>3, <1>5, <1>6

(* The bootstrap's fetch returns.                                          *)
LEMMA BootstrapFetchedInv == ServiceInv /\ (\E f \in Fetchable : BootstrapFetched(f)) => ServiceInv'
<1> SUFFICES ASSUME ServiceInv, NEW f \in Fetchable, BootstrapFetched(f) PROVE ServiceInv'
  OBVIOUS
<1>1. /\ TypeOK /\ SessionsInOrder /\ PhasesInOrder /\ StoreIsLedger
      /\ phase = "bootstrap" /\ phase' = "replay"
      /\ UNCHANGED <<chain, feed, active, connected, updater, store, stop, faults>>
      /\ UNCHANGED <<refreshing, buffered, floor>>
  BY DEF ServiceInv, BootstrapFetched, refresh
<1>2. PICK v : v = FromFetchedAltState(active, f)
  OBVIOUS
<1>3. fresh' = v /\ fresh = NewUpdater /\ floor > 0
  BY <1>1, <1>2 DEF BootstrapFetched, PhasesInOrder, Replaying, Fetching
<1>4. /\ v \in StateUpdaters /\ FromSession(v) /\ v.recovering /\ v.confirmedSlot = f.slot
      /\ \A buf : Ordered(NewUpdater, buf) => Ordered(v, buf)
      /\ \A buf : Complete(floor, NewUpdater, buf) => Complete(f.slot, v, buf)
  BY <1>1, <1>2, <1>3, FetchedState
<1>5. PICK b : b = buffered
  OBVIOUS
<1>6. Ordered(v, b) /\ (rpc # "lagging" => Complete(v.confirmedSlot, v, b))
  BY <1>1, <1>3, <1>4, <1>5 DEF ServiceInv, Working, Fetching
<1>7. /\ UNCHANGED <<ledger, tip, rpc, link, events, delivered>>
      /\ FromSession(v)' /\ Ordered(v, b)'
      /\ rpc # "lagging" => \A x : x = v.confirmedSlot => Complete(x, v, b)'
      /\ SessionsInOrder /\ UNCHANGED connected /\ (\A i \in DOMAIN buffered' : FromChain(active, buffered'[i]))
           => SessionsInOrder'
  BY <1>1, <1>4, <1>6, Unmoved
<1>8. SessionsInOrder'
  BY <1>1, <1>7 DEF SessionsInOrder
<1>9. TypeOK'
  BY <1>1, <1>3, <1>4, <1>7 DEF TypeOK, Phases
<1>10. PhasesInOrder'
  BY <1>1, <1>3, <1>4 DEF PhasesInOrder, Working, Serving, Replaying, Fetching
<1>11. StoreIsLedger'
  BY <1>1, StoreStays
<1>12. Overtakes' /\ ~ Serving' /\ ~ Fetching'
  BY <1>1 DEF Overtakes, Serving, Fetching
<1>13. FromSession(fresh)' /\ Ordered(fresh, buffered)'
  BY <1>1, <1>3, <1>5, <1>7
<1>14. rpc' # "lagging" => Complete(fresh.confirmedSlot, fresh, buffered)'
  BY <1>1, <1>3, <1>5, <1>7
<1> QED BY <1>1, <1>8, <1>9, <1>10, <1>11, <1>12, <1>13, <1>14 DEF ServiceInv

(* The bootstrap's fetch fails, and is begun again after a sleep.          *)
LEMMA BootstrapFetchFailsInv == ServiceInv /\ BootstrapFetchFails => ServiceInv'
<1> SUFFICES ASSUME ServiceInv, BootstrapFetchFails PROVE ServiceInv'
  OBVIOUS
<1>1. /\ TypeOK /\ SessionsInOrder /\ PhasesInOrder /\ StoreIsLedger
      /\ phase = "bootstrap" /\ phase' = "sleep" /\ buffered' = << >>
      /\ UNCHANGED <<chain, feed, active, connected, updater, fresh, store, refreshing, floor, stop>>
      /\ faults' = faults + 1
  BY DEF ServiceInv, BootstrapFetchFails, states, Fault
<1>2. /\ UNCHANGED <<ledger, tip, rpc, link, events, delivered>>
      /\ SessionsInOrder /\ UNCHANGED connected /\ (\A i \in DOMAIN buffered' : FromChain(active, buffered'[i]))
           => SessionsInOrder'
  BY <1>1, Unmoved
<1>3. SessionsInOrder'
  BY <1>1, <1>2
<1>4. TypeOK'
  BY <1>1, <1>2 DEF TypeOK, Phases
<1>5. PhasesInOrder'
  BY <1>1 DEF PhasesInOrder, Working, Serving, Replaying, Fetching
<1>6. StoreIsLedger'
  BY <1>1, StoreStays
<1>7. ~ Serving' /\ ~ Replaying' /\ phase' # "bootstrap"
  BY <1>1 DEF Serving, Replaying
<1> QED BY <1>1, <1>3, <1>4, <1>5, <1>6, <1>7, StartsAnewNext

(* The sleep before the retry ends.                                        *)
LEMMA SleepEndsInv == ServiceInv /\ SleepEnds => ServiceInv'
<1> SUFFICES ASSUME ServiceInv, SleepEnds PROVE ServiceInv'
  OBVIOUS
<1>1. /\ TypeOK /\ SessionsInOrder /\ PhasesInOrder /\ phase = "sleep"
      /\ UNCHANGED <<chain, ledger, tip, rpc, link, events, delivered, stop, faults>>
      /\ LeaveBootstrap(active, connected)
  BY DEF ServiceInv, SleepEnds, chain, feed
<1>2. PICK act \in Source : act = active
  BY <1>1 DEF TypeOK
<1>3. PICK conn \in SUBSET Source : conn = connected
  BY <1>1 DEF TypeOK
<1>4. LeaveBootstrap(act, conn)
  BY <1>1, <1>2, <1>3
<1>5. connected' = connected /\ fresh = NewUpdater /\ active \in connected
  BY <1>1, <1>3, <1>4 DEF LeaveBootstrap, LoopHead, PhasesInOrder, Replaying, Working
<1>6. events' \in Seq(Events) /\ \A i \in DOMAIN events' : FromChain(events[i].source, events[i])'
  BY <1>1 DEF TypeOK, SessionsInOrder, FromChain
<1>7. \A y \in Source : SessionOf(y)'
  <2>1. \A i, j, y : Cut(y, i, j)' <=> Cut(y, i, j)
    BY <1>1 DEF Cut
  <2>2. \A y, e : HasSent(y, e)' <=> HasSent(y, e)
    BY <1>1 DEF HasSent, Sent
  <2>3. \A e, f : InOrder(e, f)' <=> InOrder(e, f)
    BY DEF InOrder
  <2> QED BY <1>1, <1>5, <2>1, <2>2, <2>3 DEF SessionOf, SessionsInOrder
<1> QED BY <1>1, <1>4, <1>5, <1>6, <1>7, LeaveBootstrapInv

(* What the service does not notice.                                       *)
LEMMA ServiceStays ==
  ServiceInv /\ UNCHANGED <<chain, feed, service>> /\ stop' \in BOOLEAN /\ faults' \in Nat => ServiceInv'
<1> SUFFICES ASSUME ServiceInv, UNCHANGED <<chain, feed, service>>, stop' \in BOOLEAN, faults' \in Nat
             PROVE  ServiceInv'
  OBVIOUS
<1>1. UNCHANGED <<chain, feed, phase, active, connected, updater, fresh, store, refreshing, buffered, floor>>
  BY DEF service, place, states, refresh
<1>2. /\ TypeOK /\ SessionsInOrder /\ PhasesInOrder /\ StoreIsLedger /\ Overtakes
      /\ UNCHANGED <<ledger, tip, rpc, link, events, delivered>>
  BY <1>1, Unmoved DEF ServiceInv
<1>3. SessionsInOrder'
  BY <1>1, <1>2, Unmoved DEF SessionsInOrder
<1>4. TypeOK'
  BY <1>1, <1>2 DEF TypeOK
<1>5. /\ (Working' <=> Working) /\ (Serving' <=> Serving)
      /\ (Replaying' <=> Replaying) /\ (Fetching' <=> Fetching)
  BY <1>1 DEF Working, Serving, Replaying, Fetching
<1>6. PhasesInOrder' /\ Overtakes'
  BY <1>1, <1>2, <1>5 DEF PhasesInOrder, Overtakes, IsConfirm
<1>7. StoreIsLedger'
  BY <1>1, <1>2, StoreStays
<1>8. \A x : TakesOver(x) => TakesOver(x)'
  BY <1>1 DEF TakesOver, Staged, Buffered, IsWrite
<1>9. /\ \A u, buf : Ordered(u, buf) => Ordered(u, buf)'
      /\ \A u : FromSession(u) => FromSession(u)'
      /\ \A x, u, buf : Complete(x, u, buf) => Complete(x, u, buf)'
  BY <1>1, Unmoved
<1> QED BY <1>1, <1>2, <1>3, <1>4, <1>5, <1>6, <1>7, <1>8, <1>9 DEF ServiceInv

(* A stop is requested.                                                    *)
LEMMA RequestStopInv == ServiceInv /\ RequestStop => ServiceInv'
<1> SUFFICES ASSUME ServiceInv, RequestStop PROVE ServiceInv'
  OBVIOUS
<1>1. UNCHANGED <<chain, feed, service>> /\ stop' \in BOOLEAN /\ faults' \in Nat
  BY DEF ServiceInv, TypeOK, RequestStop, Fault
<1> QED BY <1>1, ServiceStays

(* The updater notices the stop.                                           *)
LEMMA UpdaterStopsInv == ServiceInv /\ UpdaterStops => ServiceInv'
<1> SUFFICES ASSUME ServiceInv, UpdaterStops PROVE ServiceInv'
  OBVIOUS
<1>1. /\ TypeOK /\ SessionsInOrder /\ PhasesInOrder /\ StoreIsLedger
      /\ phase \in {"wait", "bootstrap", "serve"} /\ phase' = "stopped"
      /\ store' = Invalidate(store)
      /\ UNCHANGED <<chain, feed, active, connected, updater, fresh, refreshing, buffered, floor, stop, faults>>
  BY DEF ServiceInv, UpdaterStops, refresh
<1>2. /\ UNCHANGED <<ledger, tip, rpc, link, events, delivered>>
      /\ SessionsInOrder /\ UNCHANGED connected /\ (\A i \in DOMAIN buffered' : FromChain(active, buffered'[i]))
           => SessionsInOrder'
  BY <1>1, Unmoved
<1>3. SessionsInOrder'
  BY <1>1, <1>2 DEF SessionsInOrder
<1>4. /\ store' \in Stores /\ ~ store'.ready
      /\ store'.slot = store.slot /\ store'.accounts = store.accounts
  BY <1>1, InvalidateFacts DEF TypeOK
<1>5. TypeOK'
  BY <1>1, <1>2, <1>4 DEF TypeOK, Phases
<1>6. PhasesInOrder'
  BY <1>1, <1>4 DEF PhasesInOrder, Working, Serving, Replaying, Fetching
<1>7. StoreIsLedger'
  BY <1>1, <1>4, StoreStays
<1>8. ~ Serving' /\ ~ Replaying' /\ ~ Working' /\ phase' # "bootstrap"
  BY <1>1 DEF Serving, Replaying, Working
<1> QED BY <1>3, <1>5, <1>6, <1>7, <1>8, StartsAnewNext

(* The channel closes.                                                     *)
LEMMA AllSourcesStoppedInv == ServiceInv /\ AllSourcesStopped => ServiceInv'
<1> SUFFICES ASSUME ServiceInv, AllSourcesStopped PROVE ServiceInv'
  OBVIOUS
<1>1. /\ TypeOK /\ SessionsInOrder /\ ~ Replaying /\ Exit /\ connected' = connected
      /\ UNCHANGED <<chain, ledger, tip, rpc, link, events, delivered, stop, faults>>
  BY DEF ServiceInv, AllSourcesStopped, Replaying, Exit, chain, feed
<1>2. events' \in Seq(Events) /\ \A i \in DOMAIN events' : FromChain(events[i].source, events[i])'
  BY <1>1 DEF TypeOK, SessionsInOrder, FromChain
<1>3. \A y \in Source : SessionOf(y)'
  <2>1. \A i, j, y : Cut(y, i, j)' <=> Cut(y, i, j)
    BY <1>1 DEF Cut
  <2>2. \A y, e : HasSent(y, e)' <=> HasSent(y, e)
    BY <1>1 DEF HasSent, Sent
  <2>3. \A e, f : InOrder(e, f)' <=> InOrder(e, f)
    BY DEF InOrder
  <2> QED BY <1>1, <2>1, <2>2, <2>3 DEF SessionOf, SessionsInOrder
<1> QED BY <1>1, <1>2, <1>3, ExitInv

(* A process that has just started.                                        *)
LEMMA NewProcess ==
  /\ ledger \in [Slot -> Accounts] /\ tip \in Slot /\ rpc \in Rpc
  /\ delivered \in Slot /\ delivered <= tip /\ faults \in Nat /\ stop \in BOOLEAN
  /\ link = [y \in Source |-> Down] /\ events = << >>
  /\ phase = "wait" /\ active = 0 /\ connected = {}
  /\ updater = NewUpdater /\ fresh = NewUpdater /\ store = NewStore
  /\ refreshing = FALSE /\ buffered = << >> /\ floor = 0
  => ServiceInv
<1> SUFFICES ASSUME ledger \in [Slot -> Accounts], tip \in Slot, rpc \in Rpc,
                    delivered \in Slot, delivered <= tip, faults \in Nat, stop \in BOOLEAN,
                    link = [y \in Source |-> Down], events = << >>,
                    phase = "wait", active = 0, connected = {},
                    updater = NewUpdater, fresh = NewUpdater, store = NewStore,
                    refreshing = FALSE, buffered = << >>, floor = 0
             PROVE  ServiceInv
  OBVIOUS
<1>1. TypeOK
  <2>1. link \in [Source -> Links] /\ active \in Source /\ connected \subseteq Source
    BY InitialValues
  <2>2. updater \in StateUpdaters /\ fresh \in StateUpdaters /\ store \in Stores
    BY InitialValues
  <2>3. /\ events \in Seq(Events) /\ buffered \in Seq(StateEvents) /\ phase \in Phases
        /\ refreshing \in BOOLEAN /\ floor \in Slot
    BY SlotFacts DEF Phases
  <2> QED BY <2>1, <2>2, <2>3 DEF TypeOK
<1>2. DOMAIN events = {} /\ DOMAIN buffered = {}
  OBVIOUS
<1>3. \A y \in Source : SessionOf(y)
  BY <1>2, InitialValues, SlotFacts DEF SessionOf
<1>4. SessionsInOrder
  BY <1>2, <1>3 DEF SessionsInOrder
<1>5. PhasesInOrder
  BY InitialValues DEF PhasesInOrder, Working, Serving, Replaying, Fetching
<1>6. StoreIsLedger
  BY InitialValues, SlotFacts DEF StoreIsLedger
<1>7. ~ Serving /\ ~ Replaying /\ ~ Working /\ phase # "bootstrap"
  BY DEF Serving, Replaying, Working
<1> QED BY <1>1, <1>4, <1>5, <1>6, <1>7, StartsAnew

(* The initial states.                                                     *)
LEMMA InitInv == Init => ServiceInv
<1> SUFFICES ASSUME Init PROVE ServiceInv
  OBVIOUS
<1>1. tip = 1 /\ tip \in Slot /\ 0 <= tip
  BY SlotFacts DEF Init, ChainInit
<1>2. PICK first \in [Key -> {1, NoAccount}] :
        ledger = [s \in 0 .. MaxSlot |-> IF s = 0 THEN [k \in Key |-> NoAccount] ELSE first]
  BY DEF Init, ChainInit
<1>3. 1 \in Account
  BY ContentAssumption, SlotFacts
<1>4. first \in Accounts
  BY <1>3 DEF Accounts, MaybeAccount
<1>5. ledger \in [Slot -> Accounts]
  BY <1>2, <1>4, InitialValues DEF Slot
<1> QED BY <1>1, <1>5, NewProcess, SlotFacts DEF Init

(* The process is started again.                                           *)
LEMMA ProcessStartsInv == ServiceInv /\ ProcessStarts => ServiceInv'
<1> SUFFICES ASSUME ServiceInv, ProcessStarts PROVE ServiceInv'
  OBVIOUS
<1>1. /\ ledger' \in [Slot -> Accounts] /\ tip' \in Slot /\ rpc' \in Rpc
      /\ delivered' \in Slot /\ delivered' <= tip' /\ faults' \in Nat
  BY DEF ServiceInv, TypeOK, SessionsInOrder, ProcessStarts, chain
<1>2. (/\ ledger \in [Slot -> Accounts] /\ tip \in Slot /\ rpc \in Rpc
       /\ delivered \in Slot /\ delivered <= tip /\ faults \in Nat /\ stop \in BOOLEAN
       /\ link = [y \in Source |-> Down] /\ events = << >>
       /\ phase = "wait" /\ active = 0 /\ connected = {}
       /\ updater = NewUpdater /\ fresh = NewUpdater /\ store = NewStore
       /\ refreshing = FALSE /\ buffered = << >> /\ floor = 0
       => ServiceInv)'
  BY NewProcess, PTL
<1> QED BY <1>1, <1>2 DEF ProcessStarts

-----------------------------------------------------------------------------
(* Refresh                                                                 *)

(* What a serving thread keeps while nothing is received.                  *)
LEMMA ServingStays ==
  ASSUME ServiceInv, phase = "serve", phase' \in {"serve", "install"},
         UNCHANGED <<chain, feed, active, connected, updater, store>>
  PROVE  /\ TypeOK /\ SessionsInOrder /\ PhasesInOrder /\ StoreIsLedger /\ Overtakes
         /\ UNCHANGED <<ledger, tip, rpc, link, events, delivered>>
         /\ fresh = NewUpdater /\ active \in connected /\ active \in Source
         /\ store.ready /\ ~ updater.recovering /\ store.slot = updater.confirmedSlot
         /\ store.source = active
         /\ updater.confirmedSlot \in Slot /\ 0 < updater.confirmedSlot
         /\ StoreIsLedger' /\ FromSession(updater)' /\ Ordered(updater, << >>)'
         /\ rpc # "lagging" => Complete(updater.confirmedSlot, updater, << >>)'
         /\ Working' /\ Serving' /\ (Replaying' <=> phase' = "install")
<1>1. Serving /\ Working
  BY DEF Serving, Working
<1>2. /\ TypeOK /\ SessionsInOrder /\ PhasesInOrder /\ StoreIsLedger /\ Overtakes
      /\ FromSession(updater) /\ Ordered(updater, << >>)
      /\ rpc # "lagging" => Complete(updater.confirmedSlot, updater, << >>)
      /\ fresh = NewUpdater /\ active \in connected /\ active \in Source
      /\ store.ready /\ ~ updater.recovering /\ store.slot = updater.confirmedSlot
      /\ store.source = active
  BY <1>1 DEF ServiceInv, PhasesInOrder, TypeOK, Replaying
<1>3. PICK u \in StateUpdaters : u = updater
  BY <1>2 DEF TypeOK
<1>4. /\ UNCHANGED <<ledger, tip, rpc, link, events, delivered>>
      /\ FromSession(u)' /\ Ordered(u, << >>)'
      /\ rpc # "lagging" => Complete(u.confirmedSlot, u, << >>)'
  BY <1>2, <1>3, Unmoved
<1>5. /\ FromSession(updater)' /\ Ordered(updater, << >>)'
      /\ rpc # "lagging" => Complete(updater.confirmedSlot, updater, << >>)'
  BY <1>3, <1>4
<1>6. updater.confirmedSlot \in Slot /\ 0 < updater.confirmedSlot
  BY <1>2, UpdaterFacts, SlotFacts DEF TypeOK, FromSession
<1>7. StoreIsLedger'
  BY <1>2, StoreStays
<1>8. Working' /\ Serving' /\ (Replaying' <=> phase' = "install")
  BY DEF Working, Serving, Replaying
<1> QED BY <1>2, <1>4, <1>5, <1>6, <1>7, <1>8

(* A refresh starts its fetch.                                             *)
LEMMA RefreshDueInv == ServiceInv /\ RefreshDue => ServiceInv'
<1> SUFFICES ASSUME ServiceInv, RefreshDue PROVE ServiceInv'
  OBVIOUS
<1>1. /\ phase = "serve" /\ phase' = "serve" /\ ~ refreshing /\ refreshing' = TRUE
      /\ floor' = FetchFloor(updater.confirmedSlot) /\ buffered' = << >>
      /\ UNCHANGED <<chain, feed, active, connected, updater, fresh, store, stop, faults>>
  BY DEF RefreshDue, RefreshMinimum, place, states
<1>2. /\ TypeOK /\ SessionsInOrder /\ PhasesInOrder
      /\ UNCHANGED <<ledger, tip, rpc, link, events, delivered>>
      /\ fresh = NewUpdater /\ active \in connected
      /\ store.ready /\ ~ updater.recovering /\ store.slot = updater.confirmedSlot
      /\ store.source = active
      /\ updater.confirmedSlot \in Slot /\ 0 < updater.confirmedSlot
      /\ StoreIsLedger' /\ FromSession(updater)' /\ Ordered(updater, << >>)'
      /\ rpc # "lagging" => Complete(updater.confirmedSlot, updater, << >>)'
      /\ Working' /\ Serving' /\ ~ Replaying'
  BY <1>1, ServingStays
<1>3. /\ floor' \in Slot /\ updater.confirmedSlot <= floor' /\ 0 < floor'
      /\ rpc # "lagging" => delivered <= floor'
  <2>1. /\ FetchFloor(updater.confirmedSlot) \in Slot
        /\ updater.confirmedSlot <= FetchFloor(updater.confirmedSlot)
        /\ rpc # "lagging" => delivered <= FetchFloor(updater.confirmedSlot)
    BY <1>2, FetchFloorFacts DEF TypeOK
  <2> QED BY <1>1, <1>2, <2>1, SlotFacts
<1>4. SessionsInOrder'
  BY <1>1, <1>2, Unmoved
<1>5. TypeOK'
  BY <1>1, <1>2, <1>3 DEF TypeOK
<1>6. PhasesInOrder'
  BY <1>1, <1>2, <1>3 DEF PhasesInOrder
<1>7. Overtakes'
  BY <1>1, <1>3 DEF Overtakes
<1>8. /\ Ordered(NewUpdater, << >>)'
      /\ rpc' # "lagging" => \A x : x = floor' => Complete(x, NewUpdater, << >>)'
  BY <1>2, <1>3, <1>4, <1>5, FreshStartNext
<1>9. Ordered(fresh, buffered)' /\ (rpc' # "lagging" => Complete(floor, fresh, buffered)')
  BY <1>1, <1>2, <1>8
<1>10. ASSUME rpc # "lagging" PROVE TakesOver(floor)'
  <2>1. ASSUME NEW k, NEW s \in Slot, Staged(updater, k, s) PROVE s <= floor'
    <3>1. s <= delivered
      BY <1>1, <2>1 DEF Staged, ServiceInv, FromSession, Serving
    <3> QED BY <1>2, <1>3, <1>10, <3>1, SlotFacts DEF TypeOK
  <2> QED BY <1>1, <2>1 DEF TakesOver, Staged
<1> QED BY <1>1, <1>2, <1>4, <1>5, <1>6, <1>7, <1>9, <1>10 DEF ServiceInv

(* The refresh's fetch returns.                                            *)
LEMMA RefreshFetchedInv == ServiceInv /\ (\E f \in Fetchable : RefreshFetched(f)) => ServiceInv'
<1> SUFFICES ASSUME ServiceInv, NEW f \in Fetchable, RefreshFetched(f) PROVE ServiceInv'
  OBVIOUS
<1>1. /\ phase = "serve" /\ phase' = "install" /\ refreshing /\ refreshing' = FALSE
      /\ UNCHANGED <<chain, feed, active, connected, updater, store, buffered, floor, stop, faults>>
  BY DEF RefreshFetched
<1>2. /\ TypeOK /\ SessionsInOrder /\ PhasesInOrder /\ Overtakes
      /\ UNCHANGED <<ledger, tip, rpc, link, events, delivered>>
      /\ fresh = NewUpdater /\ active \in connected
      /\ store.ready /\ ~ updater.recovering /\ store.slot = updater.confirmedSlot
      /\ store.source = active
      /\ updater.confirmedSlot \in Slot /\ 0 < updater.confirmedSlot
      /\ StoreIsLedger' /\ FromSession(updater)' /\ Ordered(updater, << >>)'
      /\ rpc # "lagging" => Complete(updater.confirmedSlot, updater, << >>)'
      /\ Working' /\ Serving' /\ Replaying'
  BY <1>1, ServingStays
<1>3. PICK v : v = FromFetchedAltState(active, f)
  OBVIOUS
<1>4. fresh' = v /\ floor > 0
  BY <1>1, <1>2, <1>3 DEF RefreshFetched, PhasesInOrder, Fetching
<1>5. /\ v \in StateUpdaters /\ FromSession(v) /\ v.recovering
      /\ v.bootstrapSlot = f.slot /\ v.confirmedSlot = f.slot
      /\ f.slot \in Slot /\ floor <= f.slot
      /\ \A buf : Ordered(NewUpdater, buf) => Ordered(v, buf)
      /\ \A buf : Complete(floor, NewUpdater, buf) => Complete(f.slot, v, buf)
  BY <1>2, <1>3, <1>4, FetchedState
<1>6. PICK b : b = buffered
  OBVIOUS
<1>7. Ordered(v, b) /\ (rpc # "lagging" => Complete(v.confirmedSlot, v, b))
  BY <1>1, <1>2, <1>5, <1>6 DEF ServiceInv, Working, Fetching
<1>8. /\ FromSession(v)' /\ Ordered(v, b)'
      /\ rpc # "lagging" => \A x : x = v.confirmedSlot => Complete(x, v, b)'
  BY <1>1, <1>5, <1>7, Unmoved
<1>9. SessionsInOrder'
  BY <1>1, <1>2, Unmoved DEF SessionsInOrder
<1>10. TypeOK'
  BY <1>1, <1>2, <1>4, <1>5 DEF TypeOK, Phases
<1>11. PhasesInOrder'
  BY <1>1, <1>2, <1>4, <1>5 DEF PhasesInOrder, Fetching
<1>12. Overtakes'
  <2>1. updater.confirmedSlot <= floor => updater.confirmedSlot <= f.slot
    BY <1>2, <1>5, SlotFacts DEF TypeOK
  <2>2. \/ updater.confirmedSlot <= floor
        \/ \E i \in DOMAIN buffered : IsConfirm(buffered[i], updater.confirmedSlot)
    BY <1>1, <1>2 DEF Overtakes
  <2> QED BY <1>1, <1>4, <1>5, <2>1, <2>2 DEF Overtakes, IsConfirm
<1>13. FromSession(fresh)' /\ Ordered(fresh, buffered)'
  BY <1>1, <1>4, <1>6, <1>8
<1>14. rpc' # "lagging" => Complete(fresh.confirmedSlot, fresh, buffered)'
  BY <1>1, <1>2, <1>4, <1>6, <1>8
<1>15. ASSUME rpc # "lagging" PROVE TakesOver(fresh.bootstrapSlot)'
  <2>1. TakesOver(floor)
    BY <1>1, <1>15 DEF ServiceInv
  <2>2. ASSUME NEW k \in Key, NEW s \in Slot, Staged(updater, k, s)
        PROVE  s <= f.slot \/ Buffered(buffered, k, s)
    <3>1. s <= floor \/ s <= fresh.versions[k].slot \/ Buffered(buffered, k, s)
      BY <2>1, <2>2 DEF TakesOver
    <3>2. ~ (s <= fresh.versions[k].slot)
      BY <1>2, InitialValues, SlotFacts
    <3>3. s <= floor => s <= f.slot
      BY <1>2, <1>5, SlotFacts DEF TypeOK
    <3> QED BY <3>1, <3>2, <3>3
  <2> QED BY <1>1, <1>4, <1>5, <2>2 DEF TakesOver, Staged, Buffered, IsWrite
<1>16. ~ Fetching' /\ phase' # "serve"
  BY <1>1 DEF Fetching
<1> QED BY <1>1, <1>2, <1>9, <1>10, <1>11, <1>12, <1>13, <1>14, <1>15, <1>16 DEF ServiceInv

(* The refresh fails.                                                      *)
LEMMA RefreshFailsInv == ServiceInv /\ RefreshFails => ServiceInv'
<1> SUFFICES ASSUME ServiceInv, RefreshFails PROVE ServiceInv'
  OBVIOUS
<1>1. /\ phase = "serve" /\ phase' = "serve" /\ refreshing' = FALSE /\ floor' = 0 /\ buffered' = << >>
      /\ UNCHANGED <<chain, feed, active, connected, updater, fresh, store, stop>>
      /\ faults' = faults + 1
  BY DEF RefreshFails, EndRefresh, Fault, place, states
<1>2. /\ TypeOK /\ SessionsInOrder /\ PhasesInOrder
      /\ UNCHANGED <<ledger, tip, rpc, link, events, delivered>>
      /\ fresh = NewUpdater /\ active \in connected
      /\ store.ready /\ ~ updater.recovering /\ store.slot = updater.confirmedSlot
      /\ store.source = active
      /\ StoreIsLedger' /\ FromSession(updater)' /\ Ordered(updater, << >>)'
      /\ rpc # "lagging" => Complete(updater.confirmedSlot, updater, << >>)'
      /\ Working' /\ Serving' /\ ~ Replaying'
  BY <1>1, ServingStays
<1>3. SessionsInOrder'
  BY <1>1, <1>2, Unmoved
<1>4. TypeOK'
  <2>1. floor' \in Slot /\ refreshing' \in BOOLEAN
    BY <1>1, SlotFacts
  <2>2. buffered' \in Seq(StateEvents) /\ phase' \in Phases
    BY <1>1 DEF Phases
  <2>3. faults' \in Nat
    BY <1>1, <1>2 DEF TypeOK
  <2> QED BY <1>1, <1>2, <2>1, <2>2, <2>3 DEF TypeOK
<1>5. ~ Fetching'
  BY <1>1 DEF Fetching
<1>6. PhasesInOrder'
  BY <1>1, <1>2, <1>5 DEF PhasesInOrder
<1>7. Overtakes'
  BY <1>1 DEF Overtakes
<1>8. Ordered(fresh, buffered)'
  <2>1. Ordered(NewUpdater, << >>)'
    BY <1>3, <1>4, FreshStartNext
  <2> QED BY <1>1, <1>2, <2>1
<1> QED BY <1>1, <1>2, <1>3, <1>4, <1>5, <1>6, <1>7, <1>8 DEF ServiceInv

-----------------------------------------------------------------------------
(* Applying events                                                         *)

(* An applied event leaves the object and the store well formed.           *)
LEMMA AppliedType ==
  ASSUME NEW u \in StateUpdaters, NEW d \in StateEvents, NEW st \in Stores
  PROVE  /\ ApplyStateEvent(d, u) \in StateUpdaters
         /\ ApplyStateEventStore(d, u, st) \in Stores
<1>1. CASE d.type = "Account"
  <2>1. d.write \in Write
    BY <1>1, StateEventFacts
  <2>2. Queue(u, d.write) \in StateUpdaters
    <3>1. CASE Accepts(u, d.write)
      BY <2>1, <3>1, QueueFields
    <3>2. CASE ~ Accepts(u, d.write)
      BY <3>2 DEF Queue
    <3> QED BY <3>1, <3>2
  <2> QED BY <1>1, <2>2 DEF ApplyStateEvent, ApplyStateEventStore
<1>2. CASE d.type # "Account"
  <2>1. d.slot \in Slot
    BY <1>2, StateEventFacts
  <2>2. u.confirmedSlot \in Slot /\ u.source \in Source \cup {NoSource}
    BY UpdaterFacts
  <2>3. Confirm(u, d.slot) \in StateUpdaters
    <3>1. CASE d.slot <= u.confirmedSlot
      BY <3>1 DEF Confirm
    <3>2. CASE ~ (d.slot <= u.confirmedSlot)
      <4>1. d.slot > u.confirmedSlot
        BY <2>1, <2>2, <3>2, SlotFacts
      <4> QED BY <2>1, <4>1, ConfirmFields
    <3> QED BY <3>1, <3>2
  <2>4. ConfirmStore(u, st, d.slot) \in Stores
    <3>1. ApplyPendingThrough(u, d.slot).accounts \in Accounts
      BY <2>1, ApplyType
    <3>2. Publish(st, u.source, d.slot, ApplyPendingThrough(u, d.slot).accounts) \in Stores
      BY <2>1, <2>2, <3>1, PublishType
    <3> QED BY <3>2 DEF ConfirmStore
  <2> QED BY <1>2, <2>3, <2>4 DEF ApplyStateEvent, ApplyStateEventStore
<1> QED BY <1>1, <1>2

(* A state takes the first event of its buffer.                            *)
LEMMA EventTaken ==
  ASSUME TypeOK, SessionsInOrder, NEW u, NEW buf, CanTake(u, buf), buf # << >>,
         NEW v, v = ApplyStateEvent(buf[1], u), NEW rest, rest = Tail(buf)
  PROVE  /\ CanTake(v, rest)
         /\ v.bootstrapSlot = u.bootstrapSlot /\ v.recovering = u.recovering
         /\ u.confirmedSlot <= v.confirmedSlot
         /\ v.confirmedSlot = u.confirmedSlot \/ IsConfirm(buf[1], v.confirmedSlot)
         /\ \A c : IsConfirm(buf[1], c) => c <= v.confirmedSlot
         /\ \A k \in Key : u.versions[k].slot <= v.versions[k].slot
         /\ \A k, s : IsWrite(buf[1], k, s) => s < u.bootstrapSlot \/ s <= v.versions[k].slot
         /\ \A k \in Key, s \in Slot : Staged(v, k, s) => Staged(u, k, s) \/ IsWrite(buf[1], k, s)
<1>1. u \in StateUpdaters /\ buf \in Seq(StateEvents) /\ buf[1] \in StateEvents
  BY TailFacts DEF CanTake
<1>2. u.confirmedSlot \in Nat /\ \A k \in Key : u.versions[k].slot \in Int
  BY <1>1, UpdaterFacts, SlotFacts
<1>3. CASE buf[1].type = "Account"
  <2>1. PICK w : w = buf[1].write
    OBVIOUS
  <2>2. v = Queue(u, w)
    BY <1>3, <2>1 DEF ApplyStateEvent
  <2>3. /\ CanTake(v, rest)
        /\ w \in Write /\ (w.slot < u.bootstrapSlot \/ w.slot <= v.versions[w.key].slot)
        /\ v.bootstrapSlot = u.bootstrapSlot /\ v.confirmedSlot = u.confirmedSlot
        /\ v.recovering = u.recovering
        /\ \A k \in Key : u.versions[k].slot <= v.versions[k].slot
        /\ \A k \in Key, s \in Slot : Staged(v, k, s) => Staged(u, k, s) \/ (k = w.key /\ s = w.slot)
        <3>1. TypeOK /\ SessionsInOrder /\ CanTake(u, buf) /\ buf # << >>
      OBVIOUS
    <3>2. buf[1].type = "Account" /\ w = buf[1].write /\ v = Queue(u, w) /\ rest = Tail(buf)
      BY <1>3, <2>1, <2>2
    <3>3. CanTake(v, rest)
      BY ONLY <3>1, <3>2, WriteTaken
    <3>4. w \in Write /\ (w.slot < u.bootstrapSlot \/ w.slot <= v.versions[w.key].slot)
      BY ONLY <3>1, <3>2, WriteTaken
    <3>5. /\ v.bootstrapSlot = u.bootstrapSlot /\ v.confirmedSlot = u.confirmedSlot
          /\ v.recovering = u.recovering
      BY ONLY <3>1, <3>2, WriteTaken
    <3>6. ASSUME NEW k \in Key PROVE u.versions[k].slot <= v.versions[k].slot
      BY ONLY <3>1, <3>2, <3>6, WriteTaken
    <3>7. ASSUME NEW k \in Key, NEW s \in Slot, Staged(v, k, s)
          PROVE  Staged(u, k, s) \/ (k = w.key /\ s = w.slot)
      BY ONLY <3>1, <3>2, <3>7, WriteTaken
    <3> QED BY <3>3, <3>4, <3>5, <3>6, <3>7
  <2>4. (\A k, s : IsWrite(buf[1], k, s) <=> k = w.key /\ s = w.slot) /\ (\A c : ~ IsConfirm(buf[1], c))
    BY <1>3, <2>1 DEF IsWrite, IsConfirm
  <2>5. u.confirmedSlot <= v.confirmedSlot
    BY <1>2, <2>3
  <2> QED BY <2>3, <2>4, <2>5
<1>4. CASE buf[1].type = "ConfirmedSlot"
  <2>1. PICK c : c = buf[1].slot
    OBVIOUS
  <2>2. v = Confirm(u, c)
    BY <1>4, <2>1 DEF ApplyStateEvent
  <2>3. /\ CanTake(v, rest)
        /\ c \in Slot
        /\ u.confirmedSlot < c => v.confirmedSlot = c
        /\ c <= u.confirmedSlot => v = u
        /\ v.bootstrapSlot = u.bootstrapSlot /\ v.versions = u.versions
        /\ v.recovering = u.recovering
        /\ \A k \in Key, s \in Slot : Staged(v, k, s) => Staged(u, k, s)
    <3>1. TypeOK /\ SessionsInOrder /\ CanTake(u, buf) /\ buf # << >>
      OBVIOUS
    <3>2. buf[1].type = "ConfirmedSlot" /\ c = buf[1].slot /\ v = Confirm(u, c) /\ rest = Tail(buf)
      BY <1>4, <2>1, <2>2
    <3>3. CanTake(v, rest)
      BY ONLY <3>1, <3>2, ConfirmTaken
    <3>4. c \in Slot /\ (u.confirmedSlot < c => v.confirmedSlot = c) /\ (c <= u.confirmedSlot => v = u)
      BY ONLY <3>1, <3>2, ConfirmTaken
    <3>5. v.bootstrapSlot = u.bootstrapSlot /\ v.versions = u.versions /\ v.recovering = u.recovering
      BY ONLY <3>1, <3>2, ConfirmTaken
    <3>6. ASSUME NEW k \in Key, NEW s \in Slot, Staged(v, k, s) PROVE Staged(u, k, s)
      BY ONLY <3>1, <3>2, <3>6, ConfirmTaken
    <3> QED BY <3>3, <3>4, <3>5, <3>6
  <2>4. (\A k, s : ~ IsWrite(buf[1], k, s)) /\ (\A d : IsConfirm(buf[1], d) <=> d = c)
    BY <1>4, <2>1 DEF IsWrite, IsConfirm
  <2>5. u.confirmedSlot <= v.confirmedSlot /\ c <= v.confirmedSlot
        /\ (v.confirmedSlot = u.confirmedSlot \/ v.confirmedSlot = c)
    BY <1>2, <2>3, SlotFacts
  <2>6. \A k \in Key : u.versions[k].slot <= v.versions[k].slot
    BY <1>2, <2>3
  <2> QED BY <2>3, <2>4, <2>5, <2>6
<1> QED BY <1>1, <1>3, <1>4, StateEventFacts

(* A recovering object leaves the store alone.                             *)
LEMMA RecoveringIsSilent ==
  ASSUME NEW u, NEW st, NEW d, u.recovering
  PROVE  ApplyStateEventStore(d, u, st) = st
BY DEF ApplyStateEventStore, ConfirmStore

(* The object that is replayed into takes the next buffered event.         *)
LEMMA ReplayEventInv == ServiceInv /\ ReplayEvent => ServiceInv'
<1> SUFFICES ASSUME ServiceInv, ReplayEvent PROVE ServiceInv'
  OBVIOUS
<1>1. /\ phase \in {"replay", "install"} /\ buffered # << >> /\ buffered' = Tail(buffered)
      /\ fresh' = ApplyStateEvent(Head(buffered), fresh)
      /\ store' = ApplyStateEventStore(Head(buffered), fresh, store)
      /\ UNCHANGED <<chain, feed, phase, active, connected, updater, refreshing, floor, stop, faults>>
  BY DEF ReplayEvent, place
<1>2. /\ TypeOK /\ SessionsInOrder /\ PhasesInOrder /\ StoreIsLedger /\ Overtakes
      /\ Replaying /\ Working /\ fresh.recovering
  BY <1>1 DEF ServiceInv, PhasesInOrder, Replaying, Working
<1>3. PICK u : u = fresh
  OBVIOUS
<1>4. PICK b \in Seq(StateEvents) : b = buffered
  BY <1>2 DEF TypeOK
<1>5. CanTake(u, b)
  BY <1>2, <1>3, <1>4 DEF ServiceInv, CanTake, TypeOK, SessionsInOrder
<1>6. Head(buffered) = b[1] /\ b # << >>
  BY <1>1, <1>4, TailFacts
<1>7. PICK v : v = ApplyStateEvent(b[1], u)
  OBVIOUS
<1>8. PICK rest : rest = Tail(b)
  OBVIOUS
<1>9. /\ fresh' = v /\ buffered' = rest /\ store' = store
  BY <1>1, <1>2, <1>3, <1>4, <1>6, <1>7, <1>8, RecoveringIsSilent
<1>10. /\ CanTake(v, rest)
       /\ v.bootstrapSlot = u.bootstrapSlot /\ v.recovering = u.recovering
       /\ u.confirmedSlot <= v.confirmedSlot
       /\ \A c : IsConfirm(b[1], c) => c <= v.confirmedSlot
       /\ \A k \in Key : u.versions[k].slot <= v.versions[k].slot
       /\ \A k, s : IsWrite(b[1], k, s) => s < u.bootstrapSlot \/ s <= v.versions[k].slot
  BY <1>2, <1>5, <1>6, <1>7, <1>8, EventTaken, ZenonT(40)
<1>11. /\ v \in StateUpdaters /\ rest \in Seq(StateEvents)
       /\ \A i \in DOMAIN rest : FromChain(active, rest[i])
       /\ FromSession(v) /\ Ordered(v, rest)
       /\ rpc # "lagging" => Complete(v.confirmedSlot, v, rest)
  BY <1>10 DEF CanTake
<1>12. /\ UNCHANGED <<ledger, tip, rpc, link, events, delivered>>
       /\ FromSession(v)' /\ Ordered(v, rest)'
       /\ rpc # "lagging" => \A x : x = v.confirmedSlot => Complete(x, v, rest)'
       /\ \A z : FromSession(z) => FromSession(z)'
       /\ \A z, q : Ordered(z, q) => Ordered(z, q)'
       /\ \A x, z, q : Complete(x, z, q) => Complete(x, z, q)'
  BY <1>1, <1>11, Unmoved
<1>13. SessionsInOrder'
  BY <1>1, <1>2, <1>9, <1>11, Unmoved
<1>14. TypeOK'
  BY <1>1, <1>2, <1>9, <1>11, <1>12 DEF TypeOK
<1>15. /\ Working' /\ Replaying' /\ ~ Fetching' /\ ~ Fetching /\ (Serving' <=> Serving)
       /\ (Serving <=> phase = "install")
  BY <1>1 DEF Working, Replaying, Fetching, Serving
<1>16. PhasesInOrder'
  <2>1. phase \notin {"wait", "sleep", "serve"}
    BY <1>1
  <2> QED BY <1>1, <1>2, <1>3, <1>9, <1>10, <1>15, <2>1 DEF PhasesInOrder
<1>17. StoreIsLedger'
  BY <1>1, <1>2, <1>9, StoreStays
<1>18. u \in StateUpdaters /\ u.confirmedSlot \in Nat /\ v.confirmedSlot \in Nat
       /\ updater.confirmedSlot \in Nat /\ u.bootstrapSlot \in Nat
       /\ (\A k \in Key : u.versions[k].slot \in Int /\ v.versions[k].slot \in Int)
  BY <1>2, <1>3, <1>11, UpdaterFacts, SlotFacts DEF TypeOK
<1>19. \A i \in DOMAIN b : i = 1 \/ (i - 1 \in DOMAIN rest /\ b[i] = rest[i - 1])
  BY <1>4, <1>6, <1>8, TailFacts
<1>20. Overtakes'
  <2> SUFFICES ASSUME phase = "install"
               PROVE  \/ updater.confirmedSlot <= v.confirmedSlot
                      \/ \E i \in DOMAIN rest : IsConfirm(rest[i], updater.confirmedSlot)
    BY <1>1, <1>9 DEF Overtakes, IsConfirm
  <2>1. CASE updater.confirmedSlot <= u.confirmedSlot
    BY <1>10, <1>18, <2>1
  <2>2. ASSUME NEW i \in DOMAIN b, IsConfirm(b[i], updater.confirmedSlot)
        PROVE  \/ updater.confirmedSlot <= v.confirmedSlot
               \/ \E j \in DOMAIN rest : IsConfirm(rest[j], updater.confirmedSlot)
    BY <1>10, <1>19, <2>2
  <2> QED BY <1>2, <1>3, <1>4, <2>1, <2>2 DEF Overtakes
<1>21. ASSUME rpc # "lagging", phase = "install" PROVE TakesOver(fresh.bootstrapSlot)'
  <2>1. TakesOver(u.bootstrapSlot)
    BY <1>3, <1>21 DEF ServiceInv
  <2>2. ASSUME NEW k \in Key, NEW s \in Slot, Staged(updater, k, s)
        PROVE  s <= v.bootstrapSlot \/ s <= v.versions[k].slot \/ Buffered(rest, k, s)
    <3>1. s <= u.bootstrapSlot \/ s <= u.versions[k].slot \/ Buffered(b, k, s)
      BY <1>3, <1>4, <2>1, <2>2 DEF TakesOver
    <3>2. s \in Nat
      BY SlotFacts
    <3>3. CASE s <= u.bootstrapSlot \/ s <= u.versions[k].slot
      BY <1>10, <1>18, <3>2, <3>3
    <3>4. ASSUME NEW i \in DOMAIN b, IsWrite(b[i], k, s)
          PROVE  s <= v.bootstrapSlot \/ s <= v.versions[k].slot \/ Buffered(rest, k, s)
      <4>1. CASE i = 1
        BY <1>10, <1>18, <3>2, <3>4, <4>1
      <4>2. CASE i # 1
        BY <1>19, <3>4, <4>2 DEF Buffered
      <4> QED BY <4>1, <4>2
    <3> QED BY <3>1, <3>3, <3>4 DEF Buffered
  <2> QED BY <1>1, <1>9, <2>2 DEF TakesOver, Staged, Buffered, IsWrite
<1>22. FromSession(fresh)' /\ Ordered(fresh, buffered)'
  BY <1>9, <1>12
<1>23. rpc' # "lagging" => Complete(fresh.confirmedSlot, fresh, buffered)'
  BY <1>9, <1>12
<1>24. Serving => FromSession(updater)' /\ Ordered(updater, << >>)'
  BY <1>1, <1>12 DEF ServiceInv
<1>25. Serving /\ rpc # "lagging" => Complete(updater.confirmedSlot, updater, << >>)'
  BY <1>1, <1>12 DEF ServiceInv
<1>26. phase' = "install" <=> phase = "install"
  BY <1>1
<1> QED BY <1>1, <1>12, <1>13, <1>14, <1>15, <1>16, <1>17, <1>20, <1>21, <1>22, <1>23, <1>24, <1>25
        DEF ServiceInv

(* The replayed object takes the place of the serving one.                 *)
LEMMA ReplayEndsInv == ServiceInv /\ ReplayEnds => ServiceInv'
<1> SUFFICES ASSUME ServiceInv, ReplayEnds PROVE ServiceInv'
  OBVIOUS
<1>1. /\ phase \in {"replay", "install"} /\ buffered = << >> /\ buffered' = << >>
      /\ updater' = FinishRecovery(fresh)
      /\ store' = FinishRecoveryStore(fresh, store)
      /\ fresh' = NewUpdater /\ phase' = "serve" /\ floor' = 0
      /\ UNCHANGED <<chain, feed, active, connected, refreshing, stop, faults>>
  BY DEF ReplayEnds, Replayed
<1>2. /\ TypeOK /\ SessionsInOrder /\ PhasesInOrder /\ StoreIsLedger
      /\ Replaying /\ Working /\ ~ refreshing /\ active \in connected
  BY <1>1 DEF ServiceInv, PhasesInOrder, Replaying, Working
<1>3. PICK u : u = fresh
  OBVIOUS
<1>4. CanTake(u, << >>)
  <2>1. << >> \in Seq(StateEvents) /\ DOMAIN << >> = {}
    OBVIOUS
  <2> QED BY <1>1, <1>2, <1>3, <2>1 DEF ServiceInv, CanTake, TypeOK
<1>5. PICK v : v = FinishRecovery(u)
  OBVIOUS
<1>6. PICK c : c = u.confirmedSlot
  OBVIOUS
<1>7. /\ CanTake(v, << >>) /\ v.accounts = ApplyPendingThrough(u, c).accounts
      /\ v.confirmedSlot = c /\ ~ v.recovering
  BY <1>2, <1>4, <1>5, <1>6, RecoveryFinished
<1>8. /\ v \in StateUpdaters /\ FromSession(v) /\ Ordered(v, << >>)
      /\ rpc # "lagging" => Complete(v.confirmedSlot, v, << >>)
      /\ u \in StateUpdaters /\ FromSession(u)
  BY <1>4, <1>7 DEF CanTake
<1>9. c \in Slot /\ c \in Nat /\ 0 < c /\ c <= tip /\ u.source = active /\ v.accounts \in Accounts
  BY <1>6, <1>7, <1>8, UpdaterFacts, SlotFacts DEF FromSession
<1>10. store' = Publish(store, active, c, v.accounts)
  BY <1>1, <1>3, <1>6, <1>7, <1>9 DEF FinishRecoveryStore
<1>11. /\ store'.slot = c /\ store'.ready /\ store'.source = active
       /\ store'.accounts = v.accounts \/ (store.slot = c /\ store'.accounts = store.accounts)
  BY <1>10 DEF Publish
<1>12. store' \in Stores
  BY <1>2, <1>9, <1>10, PublishType DEF TypeOK
<1>13. /\ UNCHANGED <<ledger, tip, rpc, link, events, delivered>>
       /\ FromSession(v)' /\ Ordered(v, << >>)'
       /\ rpc # "lagging" => \A x : x = v.confirmedSlot => Complete(x, v, << >>)'
  BY <1>1, <1>8, Unmoved
<1>14. SessionsInOrder'
  BY <1>1, <1>2, Unmoved
<1>15. TypeOK'
  <2>1. updater' \in StateUpdaters /\ fresh' \in StateUpdaters
    BY <1>1, <1>3, <1>5, <1>8, InitialValues
  <2>2. floor' \in Slot /\ phase' \in Phases /\ buffered' \in Seq(StateEvents)
    BY <1>1, SlotFacts DEF Phases
  <2> QED BY <1>1, <1>2, <1>12, <1>13, <2>1, <2>2 DEF TypeOK
<1>16. Working' /\ Serving' /\ ~ Replaying' /\ ~ Fetching' /\ updater' = v
  BY <1>1, <1>2, <1>3, <1>5 DEF Working, Serving, Replaying, Fetching
<1>17. PhasesInOrder'
  BY <1>1, <1>2, <1>7, <1>11, <1>16 DEF PhasesInOrder
<1>18. StoreIsLedger'
  <2>1. ASSUME rpc # "lagging" PROVE AsOf(store.accounts, PageSlots(store.slot))'
    <3>1. PICK t : t = store'.accounts
      OBVIOUS
    <3>2. AsOf(t, PageSlots(c))
      <4>1. CASE t = v.accounts
        BY <1>7, <1>8, <2>1, <4>1 DEF FromSession
      <4>2. CASE store.slot = c /\ t = store.accounts
        BY <1>2, <1>9, <2>1, <4>2 DEF StoreIsLedger
      <4> QED BY <1>11, <3>1, <4>1, <4>2
    <3> QED BY <1>11, <1>13, <3>1, <3>2 DEF AsOf, PageSlots
  <2> QED BY <1>9, <1>11, <1>13, <2>1 DEF StoreIsLedger
<1>19. Overtakes'
  BY <1>1, <1>2 DEF Overtakes
<1>20. Ordered(fresh, buffered)'
  <2>1. Ordered(NewUpdater, << >>)'
    BY <1>14, <1>15, FreshStartNext
  <2> QED BY <1>1, <2>1
<1>21. /\ FromSession(updater)' /\ Ordered(updater, << >>)'
       /\ rpc' # "lagging" => Complete(updater.confirmedSlot, updater, << >>)'
  BY <1>13, <1>16
<1>22. ~ (phase' = "serve" /\ refreshing') /\ phase' # "install"
  BY <1>1, <1>2
<1> QED BY <1>14, <1>15, <1>16, <1>17, <1>18, <1>19, <1>20, <1>21, <1>22 DEF ServiceInv

(* Staging confirms nothing.                                               *)
LEMMA QueueConfirmsNothing ==
  ASSUME NEW u \in StateUpdaters, NEW w \in Write
  PROVE  Queue(u, w).confirmedSlot = u.confirmedSlot /\ Queue(u, w).recovering = u.recovering
<1>1. CASE Accepts(u, w)
  BY <1>1, QueueFields
<1>2. CASE ~ Accepts(u, w)
  BY <1>2 DEF Queue
<1> QED BY <1>1, <1>2

(* What the serving object and the store hold after an event.              *)
LEMMA ServedStore ==
  ASSUME NEW u \in StateUpdaters, ~ u.recovering, NEW st \in Stores,
         st.slot = u.confirmedSlot, st.ready, st.source = u.source,
         NEW d \in StateEvents, NEW v, v = ApplyStateEvent(d, u),
         NEW t, t = ApplyStateEventStore(d, u, st)
  PROVE  /\ t.ready /\ t.slot = v.confirmedSlot /\ t.source = u.source
         /\ t = st \/ t.accounts = v.accounts
<1>1. u.confirmedSlot \in Nat
  BY UpdaterFacts, SlotFacts
<1>2. CASE d.type = "Account"
  <2>1. t = st /\ v = Queue(u, d.write) /\ d.write \in Write
    BY <1>2, StateEventFacts DEF ApplyStateEvent, ApplyStateEventStore
  <2>2. v.confirmedSlot = u.confirmedSlot
    BY <2>1, QueueConfirmsNothing
  <2> QED BY <2>1, <2>2
<1>3. CASE d.type # "Account"
  <2>1. PICK c \in Slot : c = d.slot
    BY <1>3, StateEventFacts
  <2>2. v = Confirm(u, c) /\ t = ConfirmStore(u, st, c) /\ c \in Nat
    BY <1>3, <2>1, SlotFacts DEF ApplyStateEvent, ApplyStateEventStore
  <2>3. CASE c <= u.confirmedSlot
    BY <2>2, <2>3 DEF Confirm, ConfirmStore
  <2>4. CASE ~ (c <= u.confirmedSlot)
    <3>1. c > u.confirmedSlot /\ c # u.confirmedSlot
      BY <1>1, <2>2, <2>4
    <3>2. v.confirmedSlot = c /\ v.accounts = ApplyPendingThrough(u, c).accounts
      BY <2>2, <3>1, ConfirmFields
    <3>3. t = Publish(st, u.source, c, v.accounts)
      BY <2>2, <2>4, <3>2 DEF ConfirmStore
    <3> QED BY <3>1, <3>2, <3>3 DEF Publish
  <2> QED BY <2>3, <2>4
<1> QED BY <1>2, <1>3

(* A state takes the only event of its buffer.                             *)
LEMMA OneEventTaken ==
  TypeOK /\ SessionsInOrder => \A x, e : CanTake(x, << e >>) =>
    \A z : z = ApplyStateEvent(e, x) =>
      /\ CanTake(z, << >>)
      /\ z.confirmedSlot = x.confirmedSlot \/ (e.type = "ConfirmedSlot" /\ e.slot = z.confirmedSlot)
      /\ \A k \in Key, s \in Slot :
           (\E i \in DOMAIN z.pending[s] : z.pending[s][i].key = k) =>
             \/ \E i \in DOMAIN x.pending[s] : x.pending[s][i].key = k
             \/ e.type = "Account" /\ e.write.key = k /\ e.write.slot = s
<1> SUFFICES ASSUME TypeOK, SessionsInOrder, NEW x, NEW e, CanTake(x, << e >>),
                    NEW z, z = ApplyStateEvent(e, x)
             PROVE  /\ CanTake(z, << >>)
                    /\ z.confirmedSlot = x.confirmedSlot \/ (e.type = "ConfirmedSlot" /\ e.slot = z.confirmedSlot)
                    /\ \A k \in Key, s \in Slot :
                         (\E i \in DOMAIN z.pending[s] : z.pending[s][i].key = k) =>
                           \/ \E i \in DOMAIN x.pending[s] : x.pending[s][i].key = k
                           \/ e.type = "Account" /\ e.write.key = k /\ e.write.slot = s
  OBVIOUS
<1>1. PICK q : q = << e >>
  OBVIOUS
<1>2. q # << >> /\ q[1] = e /\ Tail(q) = << >>
  BY <1>1
<1>3. PICK r : r = Tail(q)
  OBVIOUS
<1>4. TypeOK /\ SessionsInOrder /\ CanTake(x, q) /\ q # << >> /\ z = ApplyStateEvent(q[1], x) /\ r = Tail(q)
  BY <1>1, <1>2, <1>3
<1>5. CanTake(z, r) /\ (z.confirmedSlot = x.confirmedSlot \/ IsConfirm(q[1], z.confirmedSlot))
  BY ONLY <1>4, EventTaken
<1>6. ASSUME NEW k \in Key, NEW s \in Slot, Staged(z, k, s)
      PROVE  Staged(x, k, s) \/ IsWrite(q[1], k, s)
  BY ONLY <1>4, <1>6, EventTaken
<1> QED BY <1>2, <1>3, <1>5, <1>6 DEF Staged, IsWrite, IsConfirm

(* The same after a step.                                                  *)
LEMMA OneEventTakenNext ==
  ASSUME TypeOK', SessionsInOrder', NEW u, NEW d, CanTake(u, << d >>)',
         NEW v, v = ApplyStateEvent(d, u)
  PROVE  /\ CanTake(v, << >>)'
         /\ v.confirmedSlot = u.confirmedSlot \/ (d.type = "ConfirmedSlot" /\ d.slot = v.confirmedSlot)
         /\ \A k \in Key, s \in Slot :
              (\E i \in DOMAIN v.pending[s] : v.pending[s][i].key = k) =>
                \/ \E i \in DOMAIN u.pending[s] : u.pending[s][i].key = k
                \/ d.type = "Account" /\ d.write.key = k /\ d.write.slot = s
<1>1. (TypeOK /\ SessionsInOrder => \A x, e : CanTake(x, << e >>) =>
         \A z : z = ApplyStateEvent(e, x) =>
           /\ CanTake(z, << >>)
           /\ z.confirmedSlot = x.confirmedSlot \/ (e.type = "ConfirmedSlot" /\ e.slot = z.confirmedSlot)
           /\ \A k \in Key, s \in Slot :
                (\E i \in DOMAIN z.pending[s] : z.pending[s][i].key = k) =>
                  \/ \E i \in DOMAIN x.pending[s] : x.pending[s][i].key = k
                  \/ e.type = "Account" /\ e.write.key = k /\ e.write.slot = s)'
  BY OneEventTaken, PTL
<1> QED BY <1>1

(* Serving applies an event of the active source.                          *)
LEMMA ServedEvent ==
  ASSUME ServiceInv, phase = "serve", NEW e, Receive(e),
         e.type \in {"Account", "ConfirmedSlot"}, e.source = active,
         updater' = ApplyStateEvent(Decoded(e), updater),
         store' = ApplyStateEventStore(Decoded(e), updater, store),
         BufferRefreshEvent(Decoded(e)),
         UNCHANGED <<phase, active, connected, fresh>>
  PROVE  ServiceInv'
<1>1. /\ Working /\ Serving /\ ~ Replaying /\ TypeOK /\ SessionsInOrder /\ PhasesInOrder
      /\ StoreIsLedger /\ Overtakes
  BY DEF ServiceInv, Working, Serving, Replaying
<1>2. /\ events # << >> /\ events' = Tail(events) /\ e = events[1] /\ e \in Events
      /\ e.source \in Source /\ events' \in Seq(Events)
      /\ UNCHANGED <<chain, ledger, tip, rpc, link, delivered, stop, faults>>
  BY <1>1, ReceiveFacts
<1>3. PICK u \in StateUpdaters : u = updater
  BY <1>1 DEF TypeOK
<1>4. PICK d \in StateEvents : d = Decoded(e)
  BY <1>2, EventFacts
<1>5. PICK b \in Seq(StateEvents) : b = buffered
  BY <1>1 DEF TypeOK
<1>6. PICK v : v = ApplyStateEvent(d, u)
  OBVIOUS
<1>7. PICK t : t = ApplyStateEventStore(d, u, store)
  OBVIOUS
<1>8. updater' = v /\ store' = t /\ fresh' = NewUpdater /\ fresh = NewUpdater
  BY <1>1, <1>3, <1>4, <1>6, <1>7 DEF PhasesInOrder
<1>9. /\ FromSession(u) /\ Ordered(u, << >>) /\ Ordered(NewUpdater, b)
      /\ rpc # "lagging" => Complete(u.confirmedSlot, u, << >>)
      /\ store.ready /\ ~ u.recovering /\ store.slot = u.confirmedSlot
      /\ store.source = active /\ active \in connected /\ u.source = active
  BY <1>1, <1>3, <1>5, <1>8 DEF ServiceInv, PhasesInOrder, FromSession
<1>10. v \in StateUpdaters /\ t \in Stores
  BY <1>1, <1>6, <1>7, AppliedType DEF TypeOK
<1>11. /\ t.ready /\ t.slot = v.confirmedSlot /\ t.source = active
       /\ t = store \/ t.accounts = v.accounts
  BY <1>1, <1>6, <1>7, <1>9, ServedStore DEF TypeOK
<1>12. PICK one : one = << d >>
  OBVIOUS
<1>13. << >> \in Seq(StateEvents) /\ one = Append(<< >>, Decoded(events[1])) /\ DOMAIN << >> = {}
  BY <1>2, <1>4, <1>12
<1>14. PICK more : more = Append(b, Decoded(events[1]))
  OBVIOUS
<1>15. /\ one \in Seq(StateEvents)
       /\ \A i \in DOMAIN one : FromChain(active, one[i])
       /\ Ordered(u, one)'
       /\ \A x : Complete(x, u, << >>) => Complete(x, u, one)'
  <2>1. PICK none : none = << >>
    OBVIOUS
  <2>2. none \in Seq(StateEvents) /\ one = Append(none, Decoded(events[1])) /\ DOMAIN none = {}
        /\ Ordered(u, none)
    BY <1>9, <1>13, <2>1
  <2>3. /\ TypeOK /\ SessionsInOrder /\ events # << >> /\ events' = Tail(events)
        /\ UNCHANGED <<ledger, delivered, link, active>>
        /\ events[1].source = active /\ events[1].type \in {"Account", "ConfirmedSlot"}
    BY <1>1, <1>2
  <2>4. none \in Seq(StateEvents) /\ one = Append(none, Decoded(events[1]))
    BY <2>2
  <2>5. one \in Seq(StateEvents)
    BY ONLY <2>3, <2>4, Taken
  <2>6. (\A i \in DOMAIN none : FromChain(active, none[i])) =>
           \A i \in DOMAIN one : FromChain(active, one[i])
    BY ONLY <2>3, <2>4, Taken
  <2>7. Ordered(u, none) => Ordered(u, one)'
    BY ONLY <2>3, <2>4, Taken
  <2>8. ASSUME NEW x, Complete(x, u, none) PROVE Complete(x, u, one)'
    BY ONLY <2>3, <2>4, <2>8, Taken
  <2> QED BY <2>1, <2>2, <2>5, <2>6, <2>7, <2>8
<1>16. /\ more \in Seq(StateEvents)
       /\ \A i \in DOMAIN b : i \in DOMAIN more /\ more[i] = b[i]
       /\ (\A i \in DOMAIN b : FromChain(active, b[i])) =>
            \A i \in DOMAIN more : FromChain(active, more[i])
       /\ Ordered(NewUpdater, b) => Ordered(NewUpdater, more)'
       /\ \A x : Complete(x, NewUpdater, b) => Complete(x, NewUpdater, more)'
  BY <1>1, <1>2, <1>14, Taken
<1>17. \E i \in DOMAIN more : more[i] = d
  BY <1>2, <1>4, <1>14, AppendFacts
<1>18. \/ ~ refreshing' /\ buffered' = << >> /\ floor' \in Slot
       \/ refreshing /\ refreshing' /\ buffered' = more /\ floor' = floor
  <2>1. CASE ~ refreshing /\ UNCHANGED refresh
    BY <1>1, <2>1 DEF refresh, PhasesInOrder, TypeOK
  <2>2. CASE /\ refreshing /\ buffered' = Append(buffered, Decoded(e)) /\ UNCHANGED <<refreshing, floor>>
    BY <1>2, <1>5, <1>14, <2>2
  <2>3. CASE refreshing /\ EndRefresh
    BY <2>3, SlotFacts DEF EndRefresh
  <2> QED BY <2>1, <2>2, <2>3 DEF BufferRefreshEvent
<1>19. floor' \in Slot /\ refreshing' \in BOOLEAN /\ buffered' \in Seq(StateEvents)
  BY <1>1, <1>13, <1>16, <1>18 DEF TypeOK, BufferRefreshEvent, refresh, EndRefresh
<1>20. TypeOK'
  BY <1>1, <1>2, <1>8, <1>10, <1>19 DEF TypeOK
<1>21. /\ \A y \in Source : SessionOf(y)'
       /\ \A i \in DOMAIN events' : FromChain(events[i].source, events[i])'
  <2>1. (\A z \in connected' : z \in connected) /\ e.type # "Disconnected"
    OBVIOUS
  <2> QED BY <1>1, <1>2, <2>1, ReceivedSessions
<1>22. \A y, f : FromChain(y, f) => FromChain(y, f)'
  BY <1>2 DEF FromChain
<1>23. SessionsInOrder'
  <2>1. delivered' <= tip' /\ \A i \in DOMAIN b : FromChain(active, b[i])
    BY <1>1, <1>2, <1>5 DEF SessionsInOrder
  <2>2. \A i \in DOMAIN buffered' : FromChain(active, buffered'[i])
    BY <1>13, <1>16, <1>18, <2>1
  <2> QED BY <1>21, <1>22, <2>1, <2>2 DEF SessionsInOrder
<1>24. CanTake(u, one)'
  <2>1. FromSession(u)'
    BY <1>2, <1>9 DEF FromSession, AsOf, PageSlots
  <2>2. \A i \in DOMAIN one : FromChain(active, one[i])'
    BY <1>15, <1>22
  <2>3. rpc' # "lagging" => \A x : x = u.confirmedSlot => Complete(x, u, one)'
    BY <1>2, <1>9, <1>15
  <2> QED BY <1>3, <1>15, <2>1, <2>2, <2>3 DEF CanTake
<1>25. /\ CanTake(v, << >>)'
       /\ v.confirmedSlot = u.confirmedSlot \/ (d.type = "ConfirmedSlot" /\ d.slot = v.confirmedSlot)
       /\ \A k \in Key, s \in Slot :
            (\E i \in DOMAIN v.pending[s] : v.pending[s][i].key = k) =>
              \/ \E i \in DOMAIN u.pending[s] : u.pending[s][i].key = k
              \/ d.type = "Account" /\ d.write.key = k /\ d.write.slot = s
  BY <1>6, <1>12, <1>20, <1>23, <1>24, OneEventTakenNext
<1>26. /\ FromSession(v)' /\ Ordered(v, << >>)'
       /\ rpc' # "lagging" => \A x : x = v.confirmedSlot => Complete(x, v, << >>)'
  BY <1>25 DEF CanTake
<1>27. /\ FromSession(updater)' /\ Ordered(updater, << >>)'
       /\ rpc' # "lagging" => Complete(updater.confirmedSlot, updater, << >>)'
  BY <1>8, <1>26
<1>28. /\ Working' /\ Serving' /\ ~ Replaying' /\ phase' = "serve" /\ (Fetching' <=> refreshing')
  BY DEF Working, Serving, Replaying, Fetching
<1>29. v.recovering = FALSE
  <2>1. CASE d.type = "Account"
    <3>1. PICK w \in Write : w = d.write
      BY <2>1, StateEventFacts
    <3>2. v = Queue(u, w)
      BY <1>6, <2>1, <3>1 DEF ApplyStateEvent
    <3>3. u.recovering = FALSE
      BY <1>9, UpdaterFacts
    <3> QED BY <3>2, <3>3, QueueConfirmsNothing
  <2>2. CASE d.type # "Account"
    <3>1. PICK c \in Slot : c = d.slot
      BY <2>2, StateEventFacts
    <3>2. v = Confirm(u, c)
      BY <1>6, <2>2, <3>1 DEF ApplyStateEvent
    <3>3. CASE c <= u.confirmedSlot
      BY <1>9, <1>3, <3>2, <3>3, UpdaterFacts DEF Confirm
    <3>4. CASE ~ (c <= u.confirmedSlot)
      <4>1. c > u.confirmedSlot
        BY <3>4, UpdaterFacts, SlotFacts
      <4> QED BY <1>9, <1>3, <3>2, <4>1, ConfirmFields, UpdaterFacts
    <3> QED BY <3>3, <3>4
  <2> QED BY <2>1, <2>2
<1>30. PhasesInOrder'
  <2>1. refreshing' => floor' > 0
    BY <1>1, <1>18 DEF PhasesInOrder, Fetching
  <2>2. ~ refreshing' => buffered' = << >>
    BY <1>18
  <2> QED BY <1>8, <1>9, <1>11, <1>28, <1>29, <2>1, <2>2 DEF PhasesInOrder
<1>31. StoreIsLedger'
  <2>1. ASSUME rpc # "lagging" PROVE AsOf(store.accounts, PageSlots(store.slot))'
    <3>1. CASE t = store
      BY <1>1, <1>2, <1>8, <1>9, <2>1, <3>1, SlotFacts DEF StoreIsLedger, AsOf, PageSlots, TypeOK, Stores
    <3>2. CASE t.accounts = v.accounts
      <4>1. AsOf(v.accounts, PageSlots(v.confirmedSlot))'
        BY <1>2, <1>26, <2>1 DEF FromSession
      <4> QED BY <1>8, <1>11, <3>2, <4>1
    <3> QED BY <1>11, <3>1, <3>2
  <2>2. 0 < v.confirmedSlot /\ v.confirmedSlot <= tip'
    BY <1>10, <1>26, UpdaterFacts, SlotFacts DEF FromSession
  <2> QED BY <1>2, <1>8, <1>11, <2>1, <2>2 DEF StoreIsLedger
<1>32. Overtakes'
  <2> SUFFICES ASSUME refreshing'
               PROVE  \/ v.confirmedSlot <= floor'
                      \/ \E i \in DOMAIN buffered' : IsConfirm(buffered'[i], v.confirmedSlot)
    BY <1>8, <1>28 DEF Overtakes, IsConfirm
  <2>1. refreshing /\ buffered' = more /\ floor' = floor
    BY <1>18
  <2>2. CASE v.confirmedSlot = u.confirmedSlot
    <3>1. \/ u.confirmedSlot <= floor
          \/ \E i \in DOMAIN b : IsConfirm(b[i], u.confirmedSlot)
      BY <1>1, <1>3, <1>5, <2>1 DEF Overtakes
    <3> QED BY <1>16, <2>1, <2>2, <3>1
  <2>3. CASE d.type = "ConfirmedSlot" /\ d.slot = v.confirmedSlot
    <3>1. IsConfirm(d, v.confirmedSlot)
      BY <2>3 DEF IsConfirm
    <3> QED BY <1>17, <2>1, <3>1
  <2> QED BY <1>25, <2>2, <2>3
<1>33. /\ Ordered(fresh, buffered)'
       /\ rpc # "lagging" /\ refreshing' => Complete(floor, fresh, buffered)'
  <2>1. CASE ~ refreshing' /\ buffered' = << >>
    <3>1. Ordered(NewUpdater, << >>)'
      BY <1>20, <1>23, FreshStartNext
    <3> QED BY <1>8, <2>1, <3>1
  <2>2. CASE refreshing /\ refreshing' /\ buffered' = more /\ floor' = floor
    <3>1. rpc # "lagging" => Complete(floor, NewUpdater, b)
      BY <1>5, <1>8, <2>2 DEF ServiceInv, Fetching
    <3>2. PICK x : x = floor
      OBVIOUS
    <3>3. Ordered(NewUpdater, more)' /\ (rpc # "lagging" => Complete(x, NewUpdater, more)')
      BY <1>9, <1>16, <3>1, <3>2
    <3> QED BY <1>8, <2>2, <3>2, <3>3
  <2> QED BY <1>18, <2>1, <2>2
<1>34. ASSUME rpc # "lagging", refreshing' PROVE TakesOver(floor)'
  <2>1. refreshing /\ buffered' = more /\ floor' = floor
    BY <1>18, <1>34
  <2>2. TakesOver(floor)
    BY <1>34, <2>1 DEF ServiceInv
  <2>3. ASSUME NEW k \in Key, NEW s \in Slot, Staged(v, k, s)
        PROVE  s <= floor \/ s <= NewUpdater.versions[k].slot \/ Buffered(more, k, s)
    <3>1. CASE Staged(u, k, s)
      <4>1. s <= floor \/ s <= NewUpdater.versions[k].slot \/ Buffered(b, k, s)
        BY <1>3, <1>5, <1>8, <2>2, <3>1 DEF TakesOver
      <4> QED BY <1>16, <4>1 DEF Buffered
    <3>2. CASE d.type = "Account" /\ d.write.key = k /\ d.write.slot = s
      BY <1>17, <3>2 DEF Buffered, IsWrite
    <3> QED BY <1>25, <2>3, <3>1, <3>2 DEF Staged
  <2> QED BY <1>8, <2>1, <2>3 DEF TakesOver, Staged, Buffered, IsWrite
<1> QED BY <1>2, <1>20, <1>23, <1>27, <1>28, <1>30, <1>31, <1>32, <1>33, <1>34 DEF ServiceInv

(* Serving receives an event.                                              *)
LEMMA ServeReceivesInv == ServiceInv /\ (\E e \in Range(events) : ServeReceives(e)) => ServiceInv'
<1> SUFFICES ASSUME ServiceInv, NEW e \in Range(events), ServeReceives(e) PROVE ServiceInv'
  OBVIOUS
<1>1. TypeOK /\ SessionsInOrder /\ PhasesInOrder
  BY DEF ServiceInv
<1>2. /\ events # << >> /\ events' = Tail(events) /\ e = events[1] /\ e \in Events
      /\ e.source \in Source /\ events' \in Seq(Events)
      /\ UNCHANGED <<chain, ledger, tip, rpc, link, delivered, stop, faults>>
  BY <1>1, ReceiveFacts DEF ServeReceives
<1>3. /\ phase = "serve" /\ Working /\ fresh = NewUpdater
      /\ connected \subseteq Source /\ active \in connected /\ active \in Source
  BY <1>1 DEF ServeReceives, Working, Replaying, TypeOK, PhasesInOrder
<1>4. CASE /\ e.type = "Connected"
           /\ connected' = connected \cup {e.source}
           /\ UNCHANGED <<phase, active, states, refresh>>
  BY <1>2, <1>3, <1>4, PassByInv
<1>5. CASE /\ e.type = "Disconnected" /\ e.source # active
           /\ connected' = connected \ {e.source}
           /\ UNCHANGED <<phase, active, states, refresh>>
  BY <1>2, <1>3, <1>5, PassByInv
<1>6. CASE e.type \in {"Account", "ConfirmedSlot", "Malformed"} /\ e.source # active /\ UNCHANGED service
  <2>1. UNCHANGED <<phase, active, connected, states, refresh>>
    BY <1>6 DEF service, place
  <2>2. e.type # "Disconnected"
    BY <1>6
  <2> QED BY <1>2, <1>3, <1>6, <2>1, <2>2, PassByInv
<1>7. ASSUME NEW conn \in SUBSET Source, conn \subseteq connected,
             e.type = "Disconnected" => e.source \notin conn,
             LoopHead(NextConnected(active, conn), conn)
      PROVE  ServiceInv'
  <2>1. PICK act \in Source : act = NextConnected(active, conn)
    BY <1>3, NextIsConnected
  <2>2. LoopHead(act, conn) /\ connected' = conn
    BY <1>7, <2>1 DEF LoopHead
  <2>3. /\ \A y \in Source : SessionOf(y)'
        /\ \A i \in DOMAIN events' : FromChain(events[i].source, events[i])'
    <3>1. (\A z \in connected' : z \in connected)
          /\ (events[1].type = "Disconnected" => events[1].source \notin connected')
      BY <1>2, <1>7, <2>2
    <3> QED BY <1>1, <1>2, <3>1, ReceivedSessions
  <2> QED BY <1>2, <1>3, <2>2, <2>3, LoopHeadInv
<1>8. CASE /\ e.type = "Disconnected" /\ e.source = active
           /\ LET conn == connected \ {e.source}
              IN  LoopHead(NextConnected(active, conn), conn)
  <2>1. PICK conn \in SUBSET Source : conn = connected \ {e.source}
    BY <1>3
  <2>2. LoopHead(NextConnected(active, conn), conn)
    BY <1>8, <2>1
  <2> QED BY <1>7, <2>1, <2>2
<1>9. CASE e.type = "Malformed" /\ e.source = active /\ LoopHead(NextConnected(active, connected), connected)
  <2>1. PICK conn \in SUBSET Source : conn = connected
    BY <1>3
  <2>2. LoopHead(NextConnected(active, conn), conn) /\ e.type # "Disconnected"
    BY <1>9, <2>1
  <2> QED BY <1>7, <2>1, <2>2
<1>10. CASE /\ e.type \in {"Account", "ConfirmedSlot"} /\ e.source = active
            /\ updater' = ApplyStateEvent(Decoded(e), updater)
            /\ store' = ApplyStateEventStore(Decoded(e), updater, store)
            /\ BufferRefreshEvent(Decoded(e))
            /\ UNCHANGED <<phase, active, connected, fresh>>
  BY <1>3, <1>10, ServedEvent DEF ServeReceives
<1> QED BY <1>4, <1>5, <1>6, <1>8, <1>9, <1>10 DEF ServeReceives

-----------------------------------------------------------------------------
(* The theorems                                                            *)

LEMMA StutterInv == ServiceInv /\ UNCHANGED vars => ServiceInv'
<1> SUFFICES ASSUME ServiceInv, UNCHANGED vars PROVE ServiceInv'
  OBVIOUS
<1>1. UNCHANGED <<chain, feed, service>> /\ stop' \in BOOLEAN /\ faults' \in Nat
  BY DEF ServiceInv, TypeOK, vars
<1> QED BY <1>1, ServiceStays

LEMMA ReceiveStepInv == ServiceInv /\ ReceiveStep => ServiceInv'
<1> SUFFICES ASSUME ServiceInv, NEW e \in Range(events),
                    WaitReceives(e) \/ BootstrapReceives(e) \/ ServeReceives(e)
             PROVE  ServiceInv'
  BY DEF ReceiveStep
<1> QED BY WaitInv, BootstrapReceivesInv, ServeReceivesInv

LEMMA NextInv == ServiceInv /\ [Next]_vars => ServiceInv'
<1> SUFFICES ASSUME ServiceInv, [Next]_vars PROVE ServiceInv'
  OBVIOUS
<1>1. ASSUME NEW y \in Source,
             SourceStep(y) \/ SubscribeFails(y) \/ SendMalformed(y) \/ StreamFails(y) \/ SourceStops(y)
      PROVE  ServiceInv'
  BY <1>1, SourceInv
<1>2. CASE FetchStep
  BY <1>2, BootstrapFetchedInv, RefreshFetchedInv DEF FetchStep
<1>3. CASE LocalStep
  BY <1>3, SleepEndsInv, ReplayEventInv, ReplayEndsInv DEF LocalStep
<1> QED BY <1>1, <1>2, <1>3, ConfirmBlockInv, ReceiveStepInv, BootstrapFetchFailsInv,
           RefreshDueInv, RefreshFailsInv, RequestStopInv, UpdaterStopsInv,
           AllSourcesStoppedInv, ProcessStartsInv, StutterInv DEF Next

(* The inductive invariant of the service: every session of a source is on *)
(* its way, in order and complete, through the channel and the buffers     *)
(* into the state that bootstrap, serving and refresh build from it.       *)
THEOREM ServiceInvHolds == Spec => []ServiceInv
<1> QED BY InitInv, NextInv, PTL DEF Spec

(* The variables of the service keep their types.                          *)
THEOREM ServiceTypeCorrect == Spec => []TypeOK
<1>1. ServiceInv => TypeOK
  BY DEF ServiceInv
<1> QED BY <1>1, ServiceInvHolds, PTL

(* A ready cache serves the ledger as of the slot it reports, through      *)
(* bootstrap, replay, refresh and failover.                                *)
THEOREM ReadyServesLedger == Spec => []ServesTheLedger
<1>1. ServiceInv => ServesTheLedger
  <2> SUFFICES ASSUME ServiceInv, store.ready, rpc # "lagging"
               PROVE  AsOf(store.accounts, PageSlots(store.slot))
    BY DEF ServesTheLedger
  <2> QED BY DEF ServiceInv, StoreIsLedger
<1> QED BY <1>1, ServiceInvHolds, PTL

(* The cache is ready only while the updater serves from a connected       *)
(* source, under the slot that its state has confirmed.                    *)
THEOREM ReadyIsServing == Spec => []ReadyMeansServing
<1>1. ServiceInv => ReadyMeansServing
  BY DEF ServiceInv, ReadyMeansServing, PhasesInOrder, Working, Serving
<1> QED BY <1>1, ServiceInvHolds, PTL

(* Failover never mixes the write versions of two validators in one state  *)
(* or one buffer.                                                          *)
THEOREM StatesOfOneValidator == Spec => []OneValidator
<1>1. ServiceInv => OneValidator
  BY DEF ServiceInv, OneValidator, Serving, FromSession, SessionsInOrder, FromChain
<1> QED BY <1>1, ServiceInvHolds, PTL

(* Confirming in the serving state never takes the store back.             *)
LEMMA ServedSlotUp ==
  ASSUME NEW u \in StateUpdaters, NEW st, st.slot = u.confirmedSlot,
         NEW d \in StateEvents, NEW t, t = ApplyStateEventStore(d, u, st)
  PROVE  t = st \/ st.slot <= t.slot
<1>1. CASE d.type = "Account"
  BY <1>1 DEF ApplyStateEventStore
<1>2. CASE d.type # "Account"
  <2>1. PICK c \in Slot : c = d.slot
    BY <1>2, StateEventFacts
  <2>2. t = ConfirmStore(u, st, c) /\ c \in Nat /\ u.confirmedSlot \in Nat
    BY <1>2, <2>1, SlotFacts, UpdaterFacts DEF ApplyStateEventStore
  <2>3. CASE c <= u.confirmedSlot \/ u.recovering
    BY <2>2, <2>3 DEF ConfirmStore
  <2>4. CASE ~ (c <= u.confirmedSlot \/ u.recovering)
    <3>1. t = Publish(st, u.source, c, ApplyPendingThrough(u, c).accounts) /\ st.slot <= c
      BY <2>2, <2>4 DEF ConfirmStore
    <3>2. t.slot = c
      BY <3>1 DEF Publish
    <3> QED BY <3>1, <3>2
  <2> QED BY <2>3, <2>4
<1> QED BY <1>1, <1>2

(* What an event does to the store.                                        *)
LEMMA ReceiveKeepsStore ==
  ServiceInv /\ ReceiveStep => store' = store \/ ~ store'.ready \/ store.slot <= store'.slot
<1> SUFFICES ASSUME ServiceInv, NEW e \in Range(events),
                    WaitReceives(e) \/ BootstrapReceives(e) \/ ServeReceives(e)
             PROVE  store' = store \/ ~ store'.ready \/ store.slot <= store'.slot
  BY DEF ReceiveStep
<1>1. TypeOK /\ PhasesInOrder /\ store \in Stores /\ updater \in StateUpdaters
  BY DEF ServiceInv, TypeOK
<1>2. ~ Invalidate(store).ready
  BY <1>1, InvalidateFacts
<1>3. CASE WaitReceives(e)
  BY <1>3 DEF WaitReceives, states, service
<1>4. \A a, c : LeaveBootstrap(a, c) => ~ store'.ready
  BY <1>2 DEF LeaveBootstrap, LoopHead
<1>5. \A a, c : LoopHead(a, c) => ~ store'.ready
  BY <1>2 DEF LoopHead
<1>6. CASE BootstrapReceives(e)
  BY <1>4, <1>6 DEF BootstrapReceives, states, service, Exit
<1>7. CASE ServeReceives(e)
  <2>1. phase = "serve" /\ store.slot = updater.confirmedSlot
    BY <1>1, <1>7 DEF ServeReceives, PhasesInOrder, Serving
  <2>2. PICK d \in StateEvents : e.type \in {"Account", "ConfirmedSlot"} => d = Decoded(e)
    <3>1. e \in Events
      BY <1>1, <1>7, ReceiveFacts DEF ServeReceives
    <3>2. CASE e.type \in {"Account", "ConfirmedSlot"}
      BY <3>1, <3>2, EventFacts
    <3>3. CASE ~ e.type \in {"Account", "ConfirmedSlot"}
      <4>1. [type |-> "ConfirmedSlot", slot |-> 0] \in StateEvents
        BY SlotFacts DEF StateEvents
      <4> QED BY <3>3, <4>1
    <3> QED BY <3>2, <3>3
  <2>3. CASE e.type \in {"Account", "ConfirmedSlot"} /\ store' = ApplyStateEventStore(Decoded(e), updater, store)
    BY <1>1, <2>1, <2>2, <2>3, ServedSlotUp
  <2> QED BY <1>5, <1>7, <2>3 DEF ServeReceives, states, service
<1> QED BY <1>3, <1>6, <1>7

(* What the end of a replay does to the store and to the staged writes.    *)
LEMMA ReplayEndsKeeps ==
  ASSUME ServiceInv, ReplayEnds
  PROVE  /\ ~ store.ready \/ store.slot <= store'.slot
         /\ rpc # "lagging" => StagedSurvives
<1>1. /\ phase \in {"replay", "install"} /\ buffered = << >>
      /\ updater' = FinishRecovery(fresh) /\ store' = FinishRecoveryStore(fresh, store)
  BY DEF ReplayEnds, Replayed
<1>2. /\ TypeOK /\ SessionsInOrder /\ PhasesInOrder /\ Overtakes
      /\ updater \in StateUpdaters /\ fresh \in StateUpdaters
      /\ Replaying /\ Working /\ DOMAIN << >> = {} /\ << >> \in Seq(StateEvents)
  BY <1>1 DEF ServiceInv, TypeOK, Replaying, Working
<1>3. PICK u \in StateUpdaters : u = fresh
  BY <1>2
<1>4. CanTake(u, << >>)
  BY <1>1, <1>2, <1>3 DEF ServiceInv, CanTake
<1>5. PICK v : v = FinishRecovery(u)
  OBVIOUS
<1>6. v.bootstrapSlot = u.bootstrapSlot /\ v.versions = u.versions
  BY <1>2, <1>4, <1>5, RecoveryFinished
<1>7. ~ store.ready \/ store.slot <= store'.slot
  <2>1. store'.slot = u.confirmedSlot
    BY <1>1, <1>3 DEF FinishRecoveryStore, Publish
  <2>2. CASE phase = "replay"
    BY <1>2, <2>2 DEF PhasesInOrder, Serving
  <2>3. CASE phase = "install"
    <3>1. store.slot = updater.confirmedSlot
      BY <1>2, <2>3 DEF PhasesInOrder, Serving
    <3>2. updater.confirmedSlot <= fresh.confirmedSlot
      BY <1>1, <1>2, <2>3 DEF Overtakes
    <3> QED BY <1>3, <2>1, <3>1, <3>2
  <2> QED BY <1>1, <2>2, <2>3
<1>8. ASSUME rpc # "lagging", phase = "install", NEW s \in Slot, NEW i \in DOMAIN updater.pending[s]
      PROVE  \/ s <= updater'.bootstrapSlot
             \/ ~ Older(updater'.versions[updater.pending[s][i].key], updater.pending[s][i])
  <2>1. PICK w \in Write : w = updater.pending[s][i]
    BY <1>2, <1>8, UpdaterFacts
  <2>2. w.slot = s /\ w.version = active + 1 /\ w.key \in Key
    BY <1>8, <2>1 DEF Write, ServiceInv, Serving, FromSession
  <2>3. s <= u.bootstrapSlot \/ s <= u.versions[w.key].slot
    <3>1. TakesOver(fresh.bootstrapSlot)
      BY <1>8 DEF ServiceInv
    <3>2. Staged(updater, w.key, s)
      BY <1>8, <2>1 DEF Staged
    <3>3. ~ Buffered(buffered, w.key, s)
      BY <1>1, <1>2 DEF Buffered
    <3> QED BY <1>3, <2>2, <3>1, <3>2, <3>3 DEF TakesOver
  <2>4. u.versions[w.key] = Unversioned \/ u.versions[w.key].version = active + 1
    BY <1>4, <2>2 DEF CanTake, FromSession
  <2>5. Unversioned.slot < s
    BY SlotFacts DEF Unversioned
  <2>6. CASE s <= u.bootstrapSlot
    BY <1>1, <1>3, <1>5, <1>6, <2>6
  <2>7. CASE s <= u.versions[w.key].slot
    <3>1. PICK o : o = u.versions[w.key]
      OBVIOUS
    <3>2. o.slot \in Int /\ s \in Int /\ active + 1 \in Int
      BY <1>2, <2>2, <3>1, UpdaterFacts, SlotFacts, SourceAssumption DEF TypeOK
    <3>3. o.version = active + 1
      BY <2>4, <2>5, <2>7, <3>1, <3>2 DEF Unversioned
    <3>4. ~ Older(o, w)
      BY <2>2, <2>7, <3>1, <3>2, <3>3 DEF Older
    <3> QED BY <1>1, <1>3, <1>5, <1>6, <2>1, <3>1, <3>4
  <2> QED BY <2>3, <2>6, <2>7
<1> QED BY <1>7, <1>8 DEF StagedSurvives

(* The only step that installs a replacement.                              *)
LEMMA OnlyReplayInstalls ==
  ASSUME [Next]_vars, phase = "install", phase' = "serve" PROVE ReplayEnds
<1>1. ~ UNCHANGED phase
  OBVIOUS
<1>2. ~ ConfirmBlock /\ ~ UNCHANGED vars
  BY <1>1 DEF ConfirmBlock, vars, service, place
<1>3. ASSUME NEW y \in Source,
             SourceStep(y) \/ SubscribeFails(y) \/ SendMalformed(y) \/ StreamFails(y) \/ SourceStops(y)
      PROVE  FALSE
  BY <1>1, <1>3 DEF SourceStep, Subscribe, SendConnected, SendAccount, SendConfirmedSlot, SendDisconnected,
                    SubscribeFails, SendMalformed, StreamFails, SourceStops, service, place
<1>4. ~ ReceiveStep
  BY DEF ReceiveStep, WaitReceives, BootstrapReceives, ServeReceives
<1>5. ~ FetchStep /\ ~ SleepEnds /\ ~ BootstrapFetchFails /\ ~ RefreshDue /\ ~ RefreshFails
  BY DEF FetchStep, BootstrapFetched, RefreshFetched, SleepEnds, BootstrapFetchFails, RefreshDue, RefreshFails
<1>6. ~ ReplayEvent /\ ~ RequestStop
  BY <1>1 DEF ReplayEvent, RequestStop, service, place
<1>7. ~ UpdaterStops /\ ~ AllSourcesStopped /\ ~ ProcessStarts
  BY DEF UpdaterStops, AllSourcesStopped, ProcessStarts
<1> QED BY <1>2, <1>3, <1>4, <1>5, <1>6, <1>7 DEF Next, LocalStep

(* The steps that write the store.                                         *)
LEMMA StoreWriters ==
  ASSUME [Next]_vars, store' # store
  PROVE  ReceiveStep \/ ReplayEvent \/ ReplayEnds \/ SleepEnds \/ UpdaterStops \/ ProcessStarts
<1>1. ~ ConfirmBlock /\ ~ UNCHANGED vars
  BY DEF ConfirmBlock, vars, service, states
<1>2. ASSUME NEW y \in Source,
             SourceStep(y) \/ SubscribeFails(y) \/ SendMalformed(y) \/ StreamFails(y) \/ SourceStops(y)
      PROVE  FALSE
  BY <1>2 DEF SourceStep, Subscribe, SendConnected, SendAccount, SendConfirmedSlot, SendDisconnected,
              SubscribeFails, SendMalformed, StreamFails, SourceStops, service, states
<1>3. ~ (FetchStep \/ BootstrapFetchFails \/ RefreshDue \/ RefreshFails \/ RequestStop \/ AllSourcesStopped)
  BY DEF FetchStep, BootstrapFetched, RefreshFetched, BootstrapFetchFails, RefreshDue, RefreshFails,
         RequestStop, AllSourcesStopped, Exit, service, states
<1> QED BY <1>1, <1>2, <1>3 DEF Next, LocalStep

(* While the cache stays ready the slot it serves never goes back: what a  *)
(* refresh installs was fetched at the served slot or later, or has        *)
(* replayed every confirmation served in between.                          *)
THEOREM ServedSlotNeverFalls == Spec => ServedSlotMonotone
<1>1. ServiceInv /\ [Next]_vars => [store.ready /\ store'.ready => store.slot <= store'.slot]_vars
  <2> SUFFICES ASSUME ServiceInv, Next, store.ready, store'.ready
               PROVE  store.slot <= store'.slot
    OBVIOUS
  <2>1. store.slot \in Nat /\ store \in Stores
    BY SlotFacts DEF ServiceInv, TypeOK, Stores
  <2>2. store' # store => ReceiveStep \/ ReplayEvent \/ ReplayEnds \/ SleepEnds \/ UpdaterStops \/ ProcessStarts
    BY StoreWriters
  <2>3. ~ SleepEnds /\ ~ UpdaterStops
    BY <2>1, InvalidateFacts DEF SleepEnds, UpdaterStops, LeaveBootstrap, LoopHead
  <2>4. ~ ProcessStarts
    BY DEF ProcessStarts, NewStore
  <2>5. CASE ReplayEvent
    <3>1. fresh.recovering
      BY <2>5 DEF ReplayEvent, ServiceInv, PhasesInOrder, Replaying
    <3> QED BY <2>1, <2>5, <3>1, RecoveringIsSilent DEF ReplayEvent
  <2>6. CASE ReplayEnds
    BY <2>6, ReplayEndsKeeps
  <2>7. CASE ReceiveStep
    BY <2>1, <2>7, ReceiveKeepsStore
  <2> QED BY <2>1, <2>2, <2>3, <2>4, <2>5, <2>6, <2>7
<1> QED BY <1>1, ServiceInvHolds, PTL DEF Spec, ServedSlotMonotone

(* A refresh loses no update that was staged when it was installed, unless *)
(* the RPC is behind the servers: the replacement was fetched at that      *)
(* update's slot or later, or has taken it from the events buffered since  *)
(* the fetch began.                                                        *)
THEOREM RefreshLosesNothing == Spec => RefreshKeepsStaged
<1>1. ServiceInv /\ [Next]_vars => [rpc # "lagging" => StagedSurvives]_vars
  <2> SUFFICES ASSUME ServiceInv, [Next]_vars, rpc # "lagging" PROVE StagedSurvives
    OBVIOUS
  <2>1. CASE phase = "install" /\ phase' = "serve"
    BY <2>1, OnlyReplayInstalls, ReplayEndsKeeps
  <2>2. CASE ~ (phase = "install" /\ phase' = "serve")
    BY <2>2 DEF StagedSurvives
  <2> QED BY <2>1, <2>2
<1> QED BY <1>1, ServiceInvHolds, PTL DEF Spec, RefreshKeepsStaged

-----------------------------------------------------------------------------
(* What the updater does to the Store, and what readers are promised       *)

Publishes(t) ==
  \E y \in Source, s \in Shared!Snapshots :
    Shared!MayPublish(s) /\ t = Publish(store, y, s.slot, s.accounts)

(* A real slot that is no lower than the served one may be published.      *)
LEMMA NewerIsPublished ==
  ASSUME NEW y \in Source, NEW c \in Slot, NEW a \in Accounts, c > 0, store.ready => store.slot <= c
  PROVE  Publishes(Publish(store, y, c, a))
<1>1. PICK s : s = [slot |-> c, accounts |-> a]
  OBVIOUS
<1>2. s \in Shared!Snapshots /\ s.slot = c /\ s.accounts = a
  BY <1>1 DEF Shared!Snapshots, Shared!Slot, Slot, Accounts, MaybeAccount
<1>3. store.ready => c >= store.slot
  OBVIOUS
<1>4. Shared!MayPublish(s)
  BY <1>2, <1>3 DEF Shared!MayPublish
<1> QED BY <1>2, <1>4 DEF Publishes

(* What the serving state makes of an event is published or nothing.       *)
LEMMA ServedIsPublished ==
  ASSUME TypeOK, updater.source \in Source, store.slot = updater.confirmedSlot, NEW d \in StateEvents
  PROVE  LET t == ApplyStateEventStore(d, updater, store) IN t = store \/ Publishes(t)
<1>1. CASE d.type = "Account"
  BY <1>1 DEF ApplyStateEventStore
<1>2. CASE d.type # "Account"
  <2>1. PICK c \in Slot : c = d.slot
    BY <1>2, StateEventFacts
  <2>2. updater \in StateUpdaters /\ updater.confirmedSlot \in Nat /\ c \in Nat
    BY SlotFacts, UpdaterFacts DEF TypeOK
  <2>3. ApplyStateEventStore(d, updater, store) = ConfirmStore(updater, store, c)
    BY <1>2, <2>1 DEF ApplyStateEventStore
  <2>4. CASE c <= updater.confirmedSlot \/ updater.recovering
    BY <2>3, <2>4 DEF ConfirmStore
  <2>5. CASE ~ (c <= updater.confirmedSlot \/ updater.recovering)
    <3>1. ApplyPendingThrough(updater, c).accounts \in Accounts
      BY <2>2, ApplyType
    <3>2. c > 0 /\ store.slot <= c
      BY <2>2, <2>5
    <3> QED BY <2>3, <2>5, <3>1, <3>2, NewerIsPublished DEF ConfirmStore
  <2> QED BY <2>4, <2>5
<1> QED BY <1>1, <1>2

(* What an event that is received makes of the store.                      *)
LEMMA ReceiveWrites ==
  ASSUME ServiceInv, ReceiveStep
  PROVE  store' = store \/ store' = Invalidate(store) \/ Publishes(store')
<1>1. PICK e \in Range(events) : WaitReceives(e) \/ BootstrapReceives(e) \/ ServeReceives(e)
  BY DEF ReceiveStep
<1>2. TypeOK /\ PhasesInOrder
  BY DEF ServiceInv
<1>3. CASE WaitReceives(e)
  BY <1>3 DEF WaitReceives, states, service
<1>4. \A a, c : LeaveBootstrap(a, c) \/ LoopHead(a, c) => store' = Invalidate(store)
  BY DEF LeaveBootstrap, LoopHead
<1>5. CASE BootstrapReceives(e)
  BY <1>4, <1>5 DEF BootstrapReceives, states, service, Exit
<1>6. CASE ServeReceives(e)
  <2>1. store.slot = updater.confirmedSlot /\ FromSession(updater)
    BY <1>2, <1>6 DEF ServeReceives, ServiceInv, PhasesInOrder, Serving
  <2>2. updater.source \in Source
    BY <1>2, <2>1 DEF FromSession, TypeOK
  <2>3. CASE /\ e.type \in {"Account", "ConfirmedSlot"}
             /\ store' = ApplyStateEventStore(Decoded(e), updater, store)
    <3>1. e \in Events
      BY <1>2, <1>6, ReceiveFacts DEF ServeReceives
    <3>2. Decoded(e) \in StateEvents
      BY <2>3, <3>1, EventFacts
    <3> QED BY <1>2, <2>1, <2>2, <2>3, <3>2, ServedIsPublished
  <2> QED BY <1>4, <1>6, <2>3 DEF ServeReceives, states, service
<1> QED BY <1>1, <1>3, <1>5, <1>6

(* What a recovery or a refresh makes of the store when it ends.           *)
LEMMA ReplayEndPublishes ==
  ASSUME ServiceInv, ReplayEnds PROVE Publishes(store')
<1>1. /\ TypeOK /\ Replaying /\ fresh \in StateUpdaters /\ FromSession(fresh)
      /\ store' = FinishRecoveryStore(fresh, store)
  BY DEF ReplayEnds, Replaying, ServiceInv, TypeOK
<1>2. PICK c \in Slot : c = fresh.confirmedSlot
  BY <1>1, UpdaterFacts
<1>3. PICK a \in Accounts : a = ApplyPendingThrough(fresh, c).accounts
  BY <1>1, ApplyType
<1>4. fresh.source \in Source /\ c > 0
  BY <1>1, <1>2, SlotFacts, UpdaterFacts DEF FromSession, TypeOK
<1>5. store' = Publish(store, fresh.source, c, a)
  BY <1>1, <1>2, <1>3 DEF FinishRecoveryStore
<1>6. store.ready => store.slot <= c
  BY <1>5, ReplayEndsKeeps DEF Publish
<1> QED BY <1>4, <1>5, <1>6, NewerIsPublished

(* All that happens to the store.                                          *)
LEMMA StoreSteps ==
  ASSUME ServiceInv, [Next]_vars
  PROVE  \/ store' = store
         \/ store' = Invalidate(store)
         \/ Publishes(store')
         \/ ~ Running /\ store' = NewStore
<1>1. CASE ReceiveStep
  BY <1>1, ReceiveWrites
<1>2. CASE ReplayEvent
  <2>1. fresh.recovering
    BY <1>2 DEF ReplayEvent, ServiceInv, PhasesInOrder, Replaying
  <2> QED BY <1>2, <2>1, RecoveringIsSilent DEF ReplayEvent
<1>3. CASE ReplayEnds
  BY <1>3, ReplayEndPublishes
<1>4. CASE SleepEnds \/ UpdaterStops
  BY <1>4 DEF SleepEnds, UpdaterStops, LeaveBootstrap, LoopHead
<1>5. CASE ProcessStarts
  BY <1>5 DEF ProcessStarts
<1> QED BY <1>1, <1>2, <1>3, <1>4, <1>5, StoreWriters

(* The updater thread keeps the contract under which the Store is shared:  *)
(* all it does to a Store is to invalidate it and to publish a real slot,  *)
(* never one below that of a ready store, whichever bootstrap, refresh,    *)
(* confirmation or failover it comes from.                                 *)
THEOREM WriterContractKept == Spec => KeepsWriterContract
<1>1. ServiceInv /\ [Next]_vars =>
        [ \/ store' = Invalidate(store)
          \/ \E y \in Source, s \in Shared!Snapshots :
               Shared!MayPublish(s) /\ store' = Publish(store, y, s.slot, s.accounts)
          \/ ~ Running /\ store' = NewStore ]_store
  BY StoreSteps DEF Publishes
<1> QED BY <1>1, ServiceInvHolds, PTL DEF Spec, KeepsWriterContract

(* The chain grows on its own.                                             *)
LEMMA ChainSteps ==
  ASSUME [Next]_vars
  PROVE  (ConfirmSlot /\ UNCHANGED <<rpc, store>>) \/ UNCHANGED chain
<1>1. CASE ConfirmBlock
  BY <1>1 DEF ConfirmBlock, service, states
<1>2. ASSUME NEW y \in Source,
             SourceStep(y) \/ SubscribeFails(y) \/ SendMalformed(y) \/ StreamFails(y) \/ SourceStops(y)
      PROVE  UNCHANGED chain
  BY <1>2 DEF SourceStep, Subscribe, SendConnected, SendAccount, SendConfirmedSlot, SendDisconnected,
              SubscribeFails, SendMalformed, StreamFails, SourceStops
<1>3. CASE ReceiveStep
  BY <1>3 DEF ReceiveStep, WaitReceives, BootstrapReceives, ServeReceives, Receive
<1>4. CASE FetchStep \/ LocalStep
  BY <1>4 DEF FetchStep, BootstrapFetched, RefreshFetched, LocalStep, SleepEnds, ReplayEvent, ReplayEnds
<1>5. CASE \/ BootstrapFetchFails \/ RefreshDue \/ RefreshFails \/ RequestStop
           \/ UpdaterStops \/ AllSourcesStopped \/ ProcessStarts \/ UNCHANGED vars
  BY <1>5 DEF BootstrapFetchFails, RefreshDue, RefreshFails, RequestStop, UpdaterStops,
              AllSourcesStopped, ProcessStarts, vars
<1> QED BY <1>1, <1>2, <1>3, <1>4, <1>5 DEF Next

(* The tables of the chain hold what its slots wrote.                      *)
Recorded == ledger \in [Slot -> [Key -> Contents]]

LEMMA RecordedInit == Init => Recorded
<1> SUFFICES ASSUME ChainInit PROVE Recorded
  BY DEF Init
<1>1. PICK first \in [Key -> {1, NoAccount}] :
        ledger = [s \in 0 .. MaxSlot |-> IF s = 0 THEN [k \in Key |-> NoAccount] ELSE first]
  BY DEF ChainInit
<1>2. first \in [Key -> Contents] /\ [k \in Key |-> NoAccount] \in [Key -> Contents]
  BY SlotFacts DEF Contents, Slot
<1> QED BY <1>1, <1>2 DEF Recorded, Slot

LEMMA RecordedStep == Recorded /\ [Next]_vars => Recorded'
<1> SUFFICES ASSUME Recorded, [Next]_vars PROVE Recorded'
  OBVIOUS
<1>1. CASE ConfirmSlot
  <2>1. PICK next \in [Key -> Contents] :
          ledger' = [s \in 0 .. MaxSlot |-> IF s <= tip THEN ledger[s] ELSE next]
    BY <1>1 DEF ConfirmSlot
  <2> QED BY <2>1 DEF Recorded, Slot
<1>2. CASE UNCHANGED chain
  BY <1>2 DEF Recorded, chain
<1> QED BY <1>1, <1>2, ChainSteps

(* The slots that a view of slot s spans are those a fetch of it may mix.  *)
LEMMA SpanIsPages ==
  ASSUME TypeOK, rpc # "lagging", NEW s \in Slot, s <= tip,
         NEW v, v.slot = s, v.until = IF rpc = "level" THEN s ELSE MaxSlot
  PROVE  View!Span(v) = PageSlots(s)
<1>1. s \in Nat /\ tip \in Nat /\ tip <= MaxSlot /\ MaxSlot \in Nat
  BY SlotFacts DEF TypeOK
<1> QED BY <1>1 DEF View!Span, PageSlots

(* What there is to read.                                                  *)
LEMMA ServedFacts ==
  store \in Stores =>
    /\ Served = View!None <=> ~ (store.ready /\ rpc # "lagging")
    /\ store.ready /\ rpc # "lagging" =>
         /\ Served.slot = store.slot /\ Served.tables = store.accounts
         /\ Served.until = IF rpc = "level" THEN store.slot ELSE MaxSlot
<1> SUFFICES ASSUME store \in Stores
             PROVE  /\ Served = View!None <=> ~ (store.ready /\ rpc # "lagging")
                    /\ store.ready /\ rpc # "lagging" =>
                         /\ Served.slot = store.slot /\ Served.tables = store.accounts
                         /\ Served.until = IF rpc = "level" THEN store.slot ELSE MaxSlot
  OBVIOUS
<1>1. CASE store.ready /\ rpc # "lagging"
  <2>1. PICK n \in Nat, u \in Nat, t \in Accounts :
          /\ n = store.slot /\ t = store.accounts
          /\ u = IF rpc = "level" THEN store.slot ELSE MaxSlot
    BY SlotFacts DEF Stores
  <2>2. Served = [slot |-> n, until |-> u, tables |-> t]
    BY <1>1, <2>1 DEF Served
  <2>3. DOMAIN [slot |-> n, until |-> u, tables |-> t] # DOMAIN [none |-> TRUE]
    OBVIOUS
  <2> QED BY <1>1, <2>1, <2>2, <2>3 DEF View!None
<1>2. CASE ~ (store.ready /\ rpc # "lagging")
  BY <1>2 DEF Served, View!None
<1> QED BY <1>1, <1>2

(* A store as of its slot is a view that keeps its promise.                *)
LEMMA ServedIsPromised ==
  TypeOK /\ StoreIsLedger /\ Recorded /\ Served # View!None =>
    Served \in View!Views /\ View!Promise(Served)
<1> SUFFICES ASSUME TypeOK, StoreIsLedger, Recorded, Served # View!None
             PROVE  Served \in View!Views /\ View!Promise(Served)
  OBVIOUS
<1>1. /\ store \in Stores /\ store.ready /\ rpc # "lagging"
      /\ Served.slot = store.slot /\ Served.tables = store.accounts
      /\ Served.until = IF rpc = "level" THEN store.slot ELSE MaxSlot
  BY ServedFacts DEF TypeOK
<1>2. /\ store.slot \in Slot /\ store.slot \in 1 .. MaxSlot /\ store.slot <= tip
      /\ AsOf(store.accounts, PageSlots(store.slot))
  BY <1>1, SlotFacts DEF StoreIsLedger, Stores, Slot
<1>3. View!Span(Served) = PageSlots(store.slot)
  BY <1>1, <1>2, SpanIsPages
<1>4. View!Promise(Served)
  BY <1>1, <1>2, <1>3 DEF View!Promise, View!AsOf, AsOf
<1>5. store.accounts \in [Key -> Contents]
  <2>1. \A d \in PageSlots(store.slot) : d \in Slot
    BY <1>2, SlotFacts DEF PageSlots, Slot, TypeOK
  <2>2. \A k \in Key : store.accounts[k] \in Contents
    BY <1>2, <2>1 DEF AsOf, Recorded
  <2>3. store.accounts \in [Key -> MaybeAccount]
    BY <1>1 DEF Stores, Accounts
  <2> QED BY <2>2, <2>3
<1>6. Served \in View!Views
  <2>1. PICK n \in 1 .. MaxSlot, u \in 1 .. MaxSlot, t \in [Key -> Contents] :
          /\ n = store.slot /\ t = store.accounts
          /\ u = IF rpc = "level" THEN store.slot ELSE MaxSlot
    BY <1>2, <1>5, FirstSlotAssumption, SlotFacts
  <2>2. Served = [slot |-> n, until |-> u, tables |-> t]
    BY <1>1, <2>1 DEF Served
  <2> QED BY <2>2 DEF View!Views, View!Contents, Contents
<1> QED BY <1>4, <1>6

(* A publication is a view that readers may be given next.                 *)
LEMMA PublishServes ==
  ASSUME ServiceInv, ServiceInv', Recorded, Recorded', UNCHANGED chain, Publishes(store')
  PROVE  [View!Next]_(View!vars)
<1>1. /\ TypeOK /\ StoreIsLedger /\ StoreIsLedger' /\ TypeOK'
      /\ store \in Stores /\ store' \in Stores
      /\ UNCHANGED <<ledger, tip, rpc>>
  BY DEF ServiceInv, TypeOK, chain
<1>2. PICK y \in Source, s \in Shared!Snapshots :
        Shared!MayPublish(s) /\ store' = Publish(store, y, s.slot, s.accounts)
  BY DEF Publishes
<1>3. store'.ready /\ store'.slot = s.slot /\ (store.ready => store.slot <= s.slot)
  <2>1. store.slot \in Nat /\ s.slot \in Nat
    BY <1>1, SlotFacts DEF Stores, Shared!Snapshots, Shared!Slot, Slot
  <2> QED BY <1>2, <2>1 DEF Publish, Shared!MayPublish
<1>4. CASE rpc = "lagging"
  BY <1>1, <1>4 DEF Served, View!vars
<1>5. CASE rpc # "lagging"
  <2>1. (store \in Stores =>
          /\ Served = View!None <=> ~ (store.ready /\ rpc # "lagging")
          /\ store.ready /\ rpc # "lagging" =>
               /\ Served.slot = store.slot /\ Served.tables = store.accounts
               /\ Served.until = IF rpc = "level" THEN store.slot ELSE MaxSlot)'
    BY ServedFacts, PTL
  <2>2. PICK v : v = Served'
    OBVIOUS
  <2>3. /\ v # View!None /\ v.slot = store'.slot /\ v.tables = store'.accounts
        /\ v.until = IF rpc = "level" THEN store'.slot ELSE MaxSlot
    BY <1>1, <1>3, <1>5, <2>1, <2>2 DEF View!None
  <2>4. v \in View!Views /\ View!Promise(v)
    <3>1. (TypeOK /\ StoreIsLedger /\ Recorded /\ Served # View!None =>
             Served \in View!Views /\ View!Promise(Served))'
      BY ServedIsPromised, PTL
    <3>2. v \in View!Views /\ View!Promise(Served)'
      BY <1>1, <2>2, <2>3, <3>1 DEF View!Views, View!Contents, View!None
    <3> QED BY <1>1, <2>2, <3>2 DEF View!Promise, View!Span, View!AsOf
  <2>5. ASSUME Served # View!None
        PROVE  Served.slot <= v.slot /\ (rpc # "level" \/ View!NoTableGoesBack(Served, v))
    <3>1. /\ store.ready /\ Served.slot = store.slot /\ Served.tables = store.accounts
          /\ Served.until = IF rpc = "level" THEN store.slot ELSE MaxSlot
      BY <1>1, <1>5, <2>5, ServedFacts
    <3>2. Served.slot <= v.slot
      BY <1>3, <2>3, <3>1
    <3>3. ASSUME rpc = "level" PROVE View!NoTableGoesBack(Served, v)
      <4>1. PICK b \in Slot, d \in Slot : b = store.slot /\ d = v.slot
        BY <1>1, <2>3 DEF Stores
      <4>2. b \in Nat /\ d \in Nat /\ b <= d /\ b <= tip /\ d <= tip /\ b > 0 /\ d > 0
        BY <1>1, <1>3, <2>3, <3>1, <3>2, <4>1, SlotFacts DEF StoreIsLedger
      <4>3. AsOf(store.accounts, PageSlots(b)) /\ AsOf(v.tables, PageSlots(d))
        BY <1>1, <1>5, <2>3, <4>1, <4>2 DEF StoreIsLedger, AsOf, PageSlots
      <4>4. PageSlots(b) = {b} /\ PageSlots(d) = {d}
        BY <3>3, <4>2 DEF PageSlots
      <4>5. View!Span(Served) = {b} /\ View!Span(v) = {d}
        BY <1>1, <1>5, <2>3, <3>1, <4>1, <4>2, <4>4, SpanIsPages
      <4> QED BY <3>1, <4>2, <4>3, <4>4, <4>5 DEF View!NoTableGoesBack, AsOf
    <3> QED BY <3>2, <3>3
  <2>6. View!Serve(v)
    BY <1>1, <2>2, <2>4, <2>5 DEF View!Serve
  <2> QED BY <2>4, <2>6 DEF View!Next
<1> QED BY <1>4, <1>5

(* Each step of the service is one of ServedLedger, or changes nothing it  *)
(* speaks of.                                                              *)
LEMMA ServedSteps ==
  ASSUME ServiceInv, ServiceInv', Recorded, Recorded', [Next]_vars
  PROVE  [View!Next]_(View!vars)
<1>1. CASE ConfirmSlot /\ UNCHANGED <<rpc, store>>
  <2>1. View!ConfirmSlot
    BY <1>1 DEF ConfirmSlot, View!ConfirmSlot, Contents, View!Contents
  <2>2. UNCHANGED Served /\ ((rpc # "level")' = (rpc # "level"))
    BY <1>1 DEF Served
  <2> QED BY <2>1, <2>2 DEF View!Confirm, View!Next
<1>2. ASSUME UNCHANGED chain, ~ store'.ready
      PROVE  [View!Next]_(View!vars)
  <2>1. Served' = View!None
    BY <1>2 DEF Served, View!None
  <2> QED BY <1>2, <2>1 DEF chain, View!Withdraw, View!Next
<1>3. CASE UNCHANGED chain
  <2>1. CASE store' = store
    BY <1>3, <2>1 DEF chain, Served, View!vars
  <2>2. CASE store' = Invalidate(store)
    <3>1. store \in Stores
      BY DEF ServiceInv, TypeOK
    <3> QED BY <1>2, <1>3, <2>2, <3>1, InvalidateFacts
  <2>3. CASE store' = NewStore
    BY <1>2, <1>3, <2>3 DEF NewStore
  <2>4. CASE Publishes(store')
    BY <1>3, <2>4, PublishServes
  <2> QED BY <2>1, <2>2, <2>3, <2>4, StoreSteps
<1> QED BY <1>1, <1>3, ChainSteps

(* The service implements ServedLedger: whatever it lets be read is of its *)
(* slot or later, and nothing goes back while it stays readable, through   *)
(* every bootstrap, confirmation, refresh, failover and restart.           *)
THEOREM ServiceRefinesServedLedger == Spec => ImplementsServedLedger
<1>1. Init => View!Init
  <2> SUFFICES ASSUME Init PROVE View!Init
    OBVIOUS
  <2>1. View!ChainInit
    BY DEF Init, ChainInit, View!ChainInit
  <2>2. Served = View!None
    BY DEF Init, Served, NewStore, View!None
  <2> QED BY <2>1, <2>2 DEF View!Init
<1>2. ServiceInv /\ ServiceInv' /\ Recorded /\ Recorded' /\ [Next]_vars => [View!Next]_(View!vars)
  BY ServedSteps
<1> QED BY <1>1, <1>2, ServiceInvHolds, RecordedInit, RecordedStep, PTL
        DEF Spec, ImplementsServedLedger, View!Spec

(* What any reader was given stays what the ledger was: a snapshot that an *)
(* API thread still holds, or that a client is still paging through, keeps *)
(* its promise when the service has moved on, withdrawn it or restarted.   *)
THEOREM ServedStaysPromised ==
  ASSUME NEW v \in View!Views
  PROVE  Spec => [](Served = v => []View!Promise(v))
<1>1. ServiceInv /\ Recorded /\ Served = v => View!Promise(v)
  <2>1. v # View!None
    BY DEF View!Views, View!None
  <2> QED BY <2>1, ServedIsPromised DEF ServiceInv
<1>2. ServiceInv /\ View!Promise(v) /\ [Next]_vars => View!Promise(v)'
  <2> SUFFICES ASSUME ServiceInv, View!Promise(v), [Next]_vars PROVE View!Promise(v)'
    OBVIOUS
  <2>1. CASE ConfirmSlot
    <3>1. /\ tip \in Nat /\ tip' = tip + 1
          /\ \A s \in 0 .. tip : ledger'[s] = ledger[s]
      BY <2>1, ChainGrows, SlotFacts DEF ServiceInv, TypeOK
    <3>2. v.slot \in Nat /\ v.until \in Nat /\ v.slot > 0
      BY SlotFacts DEF View!Views
    <3>3. \A d \in View!Span(v) : d \in View!Span(v)' /\ ledger'[d] = ledger[d]
      BY <3>1, <3>2 DEF View!Span
    <3> QED BY <3>1, <3>2, <3>3 DEF View!Promise, View!AsOf
  <2>2. CASE UNCHANGED chain
    BY <2>2 DEF chain, View!Promise, View!Span, View!AsOf
  <2> QED BY <2>1, <2>2, ChainSteps
<1> QED BY <1>1, <1>2, ServiceInvHolds, RecordedInit, RecordedStep, PTL DEF Spec
=============================================================================
