------------------------ MODULE SnapshotPagingProofs ------------------------
(***************************************************************************)
(* What paging with cursors guarantees, for every finite set of keys, any  *)
(* clients, page sizes, retention time and slots, whatever the updater     *)
(* publishes meanwhile.                                                    *)
(***************************************************************************)
EXTENDS SnapshotPaging, SnapshotStoreProofs, DataLemmas

(* The inductive strengthening.                                            *)

(* The snapshot is what was served as slot s, and if s is still served, it *)
(* is the one that is.                                                     *)
ServedAs(snapshot, s) ==
  /\ snapshot.slot = s
  /\ s <= current.slot
  /\ s = current.slot => snapshot = current

(* A request with a cursor continues where its client stands.              *)
RequestContinues ==
  request # None =>
    /\ Valid(request.limit)
    /\ request.cursor # None => request.cursor = client[request.client].cursor

RetainedUnderItsSlot ==
  \A s \in Slot : retained[s] # None => retained[s].snapshot.slot = s

(* A client's snapshot has been touched since its last page.               *)
TouchedSince(x) ==
  /\ x.since <= now
  /\ x.deep /\ x.cursor # None /\ now - x.since < RetainFor =>
       /\ retained[x.cursor.slot] # None
       /\ x.since <= retained[x.cursor.slot].touched

TouchedSincePage == \A c \in Client : TouchedSince(client[c])

(* One snapshot per slot: the one retained, the one of every client with a *)
(* cursor into it and the one served.  Without it a slot that was purged   *)
(* could be retained again with other accounts.                            *)
PagesServed(x) ==
  x.cursor # None =>
    LET s == x.cursor.slot
    IN  /\ ServedAs(x.first, s)
        /\ retained[s] # None => retained[s].snapshot = x.first

OneSnapshotPerSlot ==
  /\ \A s \in Slot : retained[s] # None => ServedAs(retained[s].snapshot, s)
  /\ \A c \in Client : PagesServed(client[c])

PagingInv ==
  /\ PagingTypeOK
  /\ RequestContinues
  /\ RetainedUnderItsSlot
  /\ TouchedSincePage
  /\ ~ MayRegress => OneSnapshotPerSlot /\ PagesFromOneSnapshot

-----------------------------------------------------------------------------
(* A page is cut from the front of the keys: it holds all of them when     *)
(* there is no next page, and those up to its last one when there is.      *)
LEMMA PageIsPrefix ==
  ASSUME NEW keys \in SUBSET Key, NEW limit \in Nat \ {0}
  PROVE  LET page == PageKeys(keys, limit)
         IN  /\ page \subseteq keys
             /\ ~ HasNext(keys, limit) => page = keys
             /\ HasNext(keys, limit) =>
                  Max(page) \in page /\ page = { k \in keys : k <= Max(page) }
<1> DEFINE page == PageKeys(keys, limit)
           Below(k) == { j \in keys : j < k }
<1>1. /\ keys \in SUBSET Nat
      /\ IsFiniteSet(keys)
      /\ Cardinality(keys) \in Nat
  BY KeyAssumption, FS_Subset, FS_CardinalityType
<1>2. \A k \in keys : IsFiniteSet(Below(k)) /\ Cardinality(Below(k)) \in Nat
  BY <1>1, FS_Subset, FS_CardinalityType
<1>3. page \subseteq keys /\ \A k \in keys : k \in page <=> Cardinality(Below(k)) < limit
  BY DEF PageKeys
<1> HIDE DEF page
<1>4. ASSUME ~ HasNext(keys, limit)
      PROVE  page = keys
  <2> SUFFICES ASSUME NEW k \in keys PROVE Cardinality(Below(k)) < limit
    BY <1>3
  <2>1. Below(k) \in SUBSET keys /\ k \notin Below(k)
    BY <1>1
  <2>2. Cardinality(Below(k)) <= Cardinality(keys) /\ Cardinality(Below(k)) # Cardinality(keys)
    BY <2>1, <1>1, FS_Subset
  <2>3. Cardinality(keys) <= limit
    BY <1>1, <1>4 DEF HasNext
  <2> QED BY <2>2, <2>3, <1>1, <1>2
<1>5. ASSUME HasNext(keys, limit)
      PROVE  Max(page) \in page /\ page = { k \in keys : k <= Max(page) }
  <2>1. keys # {}
    BY <1>1, <1>5, FS_EmptySet DEF HasNext
  <2>2. Min(keys) \in keys /\ \A k \in keys : Min(keys) <= k
    BY <1>1, <2>1, MinIsLowerBound
  <2>3. Below(Min(keys)) = {}
    <3>1. \A j \in keys : j \in Nat /\ Min(keys) \in Nat /\ Min(keys) <= j
      BY <1>1, <2>2
    <3>2. \A j \in keys : ~ (j < Min(keys))
      BY <3>1
    <3> QED BY <3>2
  <2>4. Min(keys) \in page
    BY <2>2, <2>3, <1>3, FS_EmptySet
  <2>5. page \in SUBSET Nat /\ IsFiniteSet(page) /\ page # {}
    BY <2>4, <1>1, <1>3, FS_Subset
  <2>6. Max(page) \in page /\ \A k \in page : k <= Max(page)
    BY <2>5, FiniteMax
  <2>7. ASSUME NEW k \in keys, k <= Max(page)
        PROVE  k \in page
    <3> DEFINE m == Max(page)
    <3>1. m \in keys /\ Cardinality(Below(m)) < limit
      BY <1>3, <2>6
    <3>2. k \in Nat /\ m \in Nat /\ k <= m /\ \A j \in keys : j \in Nat
      BY <3>1, <1>1, <2>7
    <3> HIDE DEF m
    <3>3. \A j \in keys : j < k => j < m
      BY <3>2
    <3>4. Below(k) \in SUBSET Below(m)
      BY <3>3
    <3> HIDE DEF Below
    <3>5. Cardinality(Below(k)) <= Cardinality(Below(m))
      BY <3>4, <3>1, <1>2, FS_Subset
    <3>6. Cardinality(Below(k)) < limit
      BY <3>5, <3>1, <1>2
    <3> QED BY <3>6, <1>3
  <2> QED BY <1>3, <2>6, <2>7
<1> QED BY <1>3, <1>4, <1>5 DEF page

(* The first snapshot of a new Store is typed.                             *)
LEMMA EmptyIsSnapshot == Empty \in Snapshots /\ 0 \in Slot
BY SlotAssumption DEF Empty, Snapshots, Slot

(* Before the first request nothing is retained and nothing is owed.       *)
LEMMA PagingInitInv == PagingInit => PagingInv
<1> SUFFICES ASSUME PagingInit PROVE PagingInv
  OBVIOUS
<1> USE DEF PagingInit
<1>1. NewClient \in Clients
  BY EmptyIsSnapshot, TimeAssumption DEF NewClient, Clients
<1>2. PagingTypeOK
  BY <1>1, TimeAssumption DEF PagingTypeOK, Answers
<1>3. RequestContinues /\ RetainedUnderItsSlot /\ OneSnapshotPerSlot
  BY DEF RequestContinues, RetainedUnderItsSlot, OneSnapshotPerSlot, PagesServed, NewClient
<1>4. Present(Empty) = {}
  BY DEF Present, Empty
<1>5. PagesFromOneSnapshot
  BY <1>4 DEF PagesFromOneSnapshot, CollectedUpToCursor, NewClient
<1>6. TouchedSincePage
  BY TimeAssumption DEF TouchedSincePage, TouchedSince, NewClient
<1> QED BY <1>2, <1>3, <1>5, <1>6 DEF PagingInv

(* A publication replaces what is served, or leaves it; while the served   *)
(* slot does not go back, what was served under a slot stays what it was.  *)
LEMMA WriterKeepsServed ==
  ASSUME ~ MayRegress, current \in Snapshots, WriterStep,
         NEW snapshot, NEW s \in Slot, ServedAs(snapshot, s)
  PROVE  ServedAs(snapshot, s)'
<1>1. CASE current' = current
  BY <1>1 DEF ServedAs
<1>2. ASSUME NEW y \in Source, NEW new \in Snapshots, PublishCurrent(y, new)
      PROVE  ServedAs(snapshot, s)'
  <2>1. /\ s \in Int /\ current.slot \in Int /\ new.slot \in Int
        /\ current.slot >= 0
    BY SlotAssumption DEF Snapshots, Slot
  <2>2. new.slot > 0 /\ new.slot >= current.slot
    BY <1>2 DEF PublishCurrent, MayPublish
  <2>3. CASE current' = current
    BY <2>3, <1>1
  <2>4. CASE current' = new /\ current.slot # new.slot
    BY <2>1, <2>2, <2>4 DEF ServedAs
  <2>5. CASE current' = new /\ current.slot = 0
    BY <2>1, <2>2, <2>5 DEF ServedAs
  <2> QED BY <1>2, <2>3, <2>4, <2>5 DEF PublishCurrent
<1> QED BY <1>1, <1>2 DEF WriterStep, PublishUrl, PublishReady, InvalidateReady

(* The updater's steps.                                                    *)
LEMMA WriterPagingInv ==
  ASSUME Inv, PagingInv, WriterStep, UNCHANGED <<readers, paging>>
  PROVE  PagingInv'
<1> USE DEF paging
<1>1. PagingTypeOK' /\ RequestContinues' /\ RetainedUnderItsSlot' /\ TouchedSincePage'
  BY DEF PagingInv, RetainedUnderItsSlot, PagingTypeOK, RequestContinues, TouchedSincePage, TouchedSince
<1>2. PagesFromOneSnapshot' <=> PagesFromOneSnapshot
  BY DEF PagesFromOneSnapshot, CollectedUpToCursor
<1>3. ASSUME ~ MayRegress
      PROVE  OneSnapshotPerSlot'
  <2>1. /\ current \in Snapshots
        /\ OneSnapshotPerSlot
        /\ client \in [Client -> Clients]
    BY <1>3 DEF Inv, TypeOK, PagingInv, PagingTypeOK
  <2>2. ASSUME NEW s \in Slot, retained[s] # None
        PROVE  ServedAs(retained[s].snapshot, s)'
    BY <1>3, <2>1, <2>2, WriterKeepsServed
       DEF OneSnapshotPerSlot, PagesServed, ServedAs
  <2>3. ASSUME NEW c \in Client, client[c].cursor # None
        PROVE  ServedAs(client[c].first, client[c].cursor.slot)'
    <3>1. client[c].cursor.slot \in Slot
      BY <2>1, <2>3 DEF Clients, Cursors
    <3> QED BY <1>3, <2>1, <2>3, <3>1, WriterKeepsServed
       DEF OneSnapshotPerSlot, PagesServed, ServedAs
  <2> QED BY <2>1, <2>2, <2>3 DEF OneSnapshotPerSlot, PagesServed, ServedAs
<1> QED BY <1>1, <1>2, <1>3 DEF PagingInv

(* Time passes.                                                            *)
LEMMA TickInv ==
  ASSUME Inv, PagingInv, Tick
  PROVE  PagingInv'
<1> USE DEF Tick, store
<1>1. /\ now \in Int /\ now' = now + 1 /\ now' \in 0 .. MaxTime
      /\ RetainFor \in Int
      /\ client \in [Client -> Clients]
      /\ client' = client /\ retained' = retained
  BY TimeAssumption DEF PagingInv, PagingTypeOK
<1>2. \A c \in Client : client[c].since \in Int
  BY <1>1, TimeAssumption DEF Clients
<1>3. TouchedSincePage'
  BY <1>1, <1>2 DEF PagingInv, TouchedSincePage, TouchedSince
<1>4. PagingTypeOK' /\ RequestContinues' /\ RetainedUnderItsSlot'
  BY <1>1 DEF PagingInv, RetainedUnderItsSlot, PagingTypeOK, RequestContinues
<1>5. ~ MayRegress => OneSnapshotPerSlot' /\ PagesFromOneSnapshot'
  BY DEF PagingInv, OneSnapshotPerSlot, PagesServed, ServedAs, PagesFromOneSnapshot,
         CollectedUpToCursor
<1> QED BY <1>3, <1>4, <1>5 DEF PagingInv

(* What answering a request does to the retained snapshots: one goes only  *)
(* after its time, one that stays keeps its accounts, and one that comes   *)
(* is the served one.                                                      *)
KeepsRetained ==
  /\ retained' \in [Slot -> Kept \cup {None}]
  /\ \A s \in Slot :
       \/ /\ retained'[s] = None
          /\ retained[s] # None => now - retained[s].touched >= RetainFor
       \/ /\ retained[s] # None /\ retained'[s] # None
          /\ retained'[s].snapshot = retained[s].snapshot
          /\ retained'[s].touched \in {now, retained[s].touched}
       \/ /\ retained[s] = None /\ s = current.slot
          /\ retained'[s].snapshot = current

(* What the invariant asks of one client.                                  *)
SoundClient(x) ==
  /\ x \in Clients
  /\ TouchedSince(x)
  /\ ~ MayRegress => PagesServed(x) /\ CollectedUpToCursor(x)

(* No answer to one client harms another.                                  *)
LEMMA OthersStaySound ==
  ASSUME PagingInv, KeepsRetained, UNCHANGED <<current, now>>,
         NEW c \in Client, client'[c] = client[c]
  PROVE  SoundClient(client[c])'
<1> DEFINE x == client[c]
           s == x.cursor.slot
<1>1. /\ x \in Clients
      /\ now' = now /\ current' = current
      /\ now \in Int /\ RetainFor \in Int /\ x.since \in Int
      /\ \A t \in Slot : retained[t] # None => retained[t] \in Kept /\ retained[t].touched \in Int
  BY TimeAssumption DEF PagingInv, PagingTypeOK, Clients, Kept
<1>2. x.cursor # None => s \in Slot
  BY <1>1 DEF Clients, Cursors
<1>3. TouchedSince(x)
  BY DEF PagingInv, TouchedSincePage
<1>4. x.since <= now
  BY <1>3 DEF TouchedSince
<1> HIDE DEF x
<1>5. ASSUME x.deep, x.cursor # None, now - x.since < RetainFor
      PROVE  retained'[s] # None /\ x.since <= retained'[s].touched
  <2>1. s \in Slot /\ retained[s] # None /\ x.since <= retained[s].touched
    BY <1>2, <1>3, <1>5 DEF TouchedSince
  <2>2. retained[s].touched \in Int /\ ~ (now - retained[s].touched >= RetainFor)
    BY <2>1, <1>1, <1>5
  <2> QED BY <2>1, <2>2, <1>4 DEF KeepsRetained
<1>6. ASSUME ~ MayRegress
      PROVE  /\ x.cursor # None =>
                  /\ ServedAs(x.first, s)
                  /\ retained'[s] # None => retained'[s].snapshot = x.first
             /\ CollectedUpToCursor(x)
  <2>1. PagesServed(x) /\ CollectedUpToCursor(x)
    BY <1>6 DEF PagingInv, OneSnapshotPerSlot, PagesFromOneSnapshot, x
  <2>2. ASSUME x.cursor # None, retained'[s] # None
        PROVE  retained'[s].snapshot = x.first
    BY <2>1, <2>2, <1>2 DEF PagesServed, ServedAs, KeepsRetained
  <2> QED BY <2>1, <2>2 DEF PagesServed
<1> QED BY <1>1, <1>4, <1>5, <1>6
        DEF SoundClient, TouchedSince, PagesServed, ServedAs, CollectedUpToCursor, x

(* Nor what is retained.                                                   *)
LEMMA RetainedStaysServed ==
  ASSUME PagingInv, KeepsRetained, UNCHANGED current, current \in Snapshots,
         ~ MayRegress, NEW s \in Slot, retained'[s] # None
  PROVE  ServedAs(retained[s].snapshot, s)'
<1>1. current.slot \in Int
  BY SlotAssumption DEF Snapshots, Slot
<1>2. retained[s] # None => ServedAs(retained[s].snapshot, s)
  BY DEF PagingInv, OneSnapshotPerSlot
<1> QED BY <1>1, <1>2 DEF KeepsRetained, ServedAs

(* An answer keeps the invariant if it leaves every client as it was or    *)
(* sound.                                                                  *)
LEMMA AnswerKeepsInv ==
  ASSUME Inv, PagingInv, KeepsRetained, UNCHANGED <<current, now>>, request' = None,
         answered' \in Answers, client' \in [Client -> Clients],
         \A c \in Client : client'[c] = client[c] \/ SoundClient(client[c])'
  PROVE  PagingInv'
<1>1. now \in 0 .. MaxTime /\ current \in Snapshots
  BY DEF PagingInv, PagingTypeOK, Inv, TypeOK
<1>2. \A c \in Client : SoundClient(client[c])'
  BY OthersStaySound
<1>3. PagingTypeOK'
  BY <1>1 DEF PagingTypeOK, KeepsRetained
<1>4. RetainedUnderItsSlot'
  BY <1>1 DEF PagingInv, RetainedUnderItsSlot, KeepsRetained
<1>5. RequestContinues' /\ TouchedSincePage'
  BY <1>2 DEF RequestContinues, TouchedSincePage, SoundClient
<1>6. ~ MayRegress => OneSnapshotPerSlot' /\ PagesFromOneSnapshot'
  BY <1>1, <1>2, RetainedStaysServed DEF OneSnapshotPerSlot, PagesFromOneSnapshot, SoundClient
<1> QED BY <1>3, <1>4, <1>5, <1>6 DEF PagingInv

(* An answer that is refused, or lost, leaves its client where it was.     *)
LEMMA UnansweredInv ==
  ASSUME Inv, PagingInv, KeepsRetained, UNCHANGED <<current, now, client>>, request' = None,
         answered' \in Answers
  PROVE  PagingInv'
<1>1. client' \in [Client -> Clients] /\ \A c \in Client : client'[c] = client[c]
  BY DEF PagingInv, PagingTypeOK
<1> QED BY <1>1, AnswerKeepsInv

(* An untouched table of retained snapshots is kept.                       *)
LEMMA SameRetained ==
  ASSUME PagingInv, UNCHANGED <<retained, now>>
  PROVE  KeepsRetained
<1>1. \A s \in Slot : retained[s] # None => retained[s] \in Kept
  BY DEF PagingInv, PagingTypeOK
<1> QED BY <1>1 DEF PagingInv, PagingTypeOK, KeepsRetained

(* A request is refused or accepted.                                       *)
LEMMA PageRequestInv ==
  ASSUME Inv, PagingInv, NEW c \in Client, NEW limit \in Limit, NEW minimum \in Slot,
         NEW cursor \in {client[c].cursor, None}, PageRequest(c, cursor, limit, minimum)
  PROVE  PagingInv'
<1> USE DEF store
<1>1. /\ current' = current /\ retained' = retained /\ now' = now /\ request = None
      /\ KeepsRetained
  BY SameRetained DEF PageRequest
<1>2. CASE ~ Valid(limit)
  <2>1. request' = None /\ client' = client /\ answered' \in Answers
    BY <1>1, <1>2 DEF PageRequest, Refused, Answers
  <2> QED BY <1>1, <2>1, UnansweredInv
<1>3. CASE Valid(limit) /\ ~ ready
  <2>1. request' = None /\ client' = client /\ answered' \in Answers
    BY <1>1, <1>3 DEF PageRequest, Refused, FailureCode, Answers
  <2> QED BY <1>1, <2>1, UnansweredInv
<1>4. CASE Valid(limit) /\ ready
  <2> DEFINE r == [client |-> c, cursor |-> cursor, limit |-> limit, minimum |-> minimum]
  <2>1. request' = r /\ client' = client /\ answered' = answered
    BY <1>4 DEF PageRequest
  <2>2. client[c].cursor \in Cursors \cup {None}
    BY DEF PagingInv, PagingTypeOK, Clients
  <2>3. /\ r \in Requests
        /\ Valid(r.limit)
        /\ r.cursor # None => r.cursor = client[r.client].cursor
    BY <1>4, <2>2 DEF Requests
  <2> HIDE DEF r
  <2>4. PagingTypeOK' /\ RequestContinues' /\ RetainedUnderItsSlot'
    BY <1>1, <2>1, <2>3 DEF PagingInv, RetainedUnderItsSlot, PagingTypeOK, RequestContinues, Valid
  <2>5. TouchedSincePage' /\ (~ MayRegress => OneSnapshotPerSlot' /\ PagesFromOneSnapshot')
    BY <1>1, <2>1 DEF PagingInv, TouchedSincePage, TouchedSince, OneSnapshotPerSlot,
       PagesServed, ServedAs, PagesFromOneSnapshot, CollectedUpToCursor
  <2> QED BY <2>4, <2>5 DEF PagingInv
<1> QED BY <1>2, <1>3, <1>4

(* The client's record after a page, for the page and the cursor that      *)
(* Answer cuts from a snapshot.                                            *)
PageOf(cursor, snapshot, limit, old) ==
  LET keys == KeysAfter(snapshot, cursor)
  IN  Received(cursor, snapshot, PageKeys(keys, limit), HasNext(keys, limit), old)

(* What it holds, field by field.                                          *)
LEMMA PageFields ==
  ASSUME PagingTypeOK, NEW cursor \in Cursors \cup {None}, NEW snapshot \in Snapshots,
         NEW limit \in Nat \ {0}, NEW old \in Clients
  PROVE  LET x == PageOf(cursor, snapshot, limit, old)
             keys == KeysAfter(snapshot, cursor)
             page == PageKeys(keys, limit)
         IN  /\ x \in Clients
             /\ x.since = now /\ x.deep = (cursor # None)
             /\ x.first = (IF cursor = None THEN snapshot ELSE old.first)
             /\ x.got = { <<k, snapshot.accounts[k]>> : k \in page }
                          \cup (IF cursor = None THEN {} ELSE old.got)
             /\ HasNext(keys, limit) =>
                  x.cursor # None /\ x.cursor.slot = snapshot.slot /\ x.cursor.after = Max(page)
             /\ ~ HasNext(keys, limit) => x.cursor = None
<1> DEFINE keys == KeysAfter(snapshot, cursor)
           page == PageKeys(keys, limit)
           more == HasNext(keys, limit)
           cur == IF more THEN [slot |-> snapshot.slot, after |-> Max(page)] ELSE None
           first == IF cursor = None THEN snapshot ELSE old.first
           got == { <<k, snapshot.accounts[k]>> : k \in page }
                    \cup (IF cursor = None THEN {} ELSE old.got)
           x == PageOf(cursor, snapshot, limit, old)
<1>1. keys \in SUBSET Key /\ \A k \in keys : snapshot.accounts[k] \in Account
  BY DEF KeysAfter, Present, Snapshots
<1>2. page \subseteq keys /\ (more => Max(page) \in page)
  <2> HIDE DEF keys
  <2> QED BY <1>1, PageIsPrefix
<1>3. cur \in Cursors \cup {None} /\ (more => cur # None /\ cur.slot = snapshot.slot /\ cur.after = Max(page))
  <2>1. ASSUME more
        PROVE  cur \in Cursors /\ cur # None
    <3>1. snapshot.slot \in Slot /\ Max(page) \in Key
      BY <2>1, <1>1, <1>2 DEF Snapshots
    <3>2. [slot |-> snapshot.slot, after |-> Max(page)] # [none |-> TRUE]
      OBVIOUS
    <3> HIDE DEF page
    <3> QED BY <2>1, <3>1, <3>2 DEF Cursors, None
  <2> HIDE DEF more, page
  <2> QED BY <2>1
<1>4. first \in Snapshots
  BY DEF Clients
<1>5. got \in SUBSET (Key \X Account)
  BY <1>1, <1>2 DEF Clients
<1>6. x = [ cursor |-> cur, first |-> first, got |-> got, deep |-> cursor # None,
            since |-> now ]
  BY DEF PageOf, Received
<1>7. now \in 0 .. MaxTime
  BY DEF PagingTypeOK
<1>8. more \/ cur = None
  OBVIOUS
<1> HIDE DEF x, cur, first, got, more, page
<1>9. /\ x \in Clients
      /\ x.since = now /\ x.deep = (cursor # None)
      /\ x.first = first /\ x.got = got /\ x.cursor = cur
  BY <1>3, <1>4, <1>5, <1>6, <1>7 DEF Clients
<1> QED BY <1>3, <1>8, <1>9 DEF x, first, got, more, page

(* With the next page a client has collected the accounts up to its new    *)
(* cursor, if it had those up to the one it asked with.                    *)
LEMMA PageCollects ==
  ASSUME PagingTypeOK, NEW cursor \in Cursors \cup {None}, NEW snapshot \in Snapshots,
         NEW limit \in Nat \ {0}, NEW old \in Clients,
         cursor # None => /\ old.first = snapshot /\ old.cursor = cursor
                          /\ CollectedUpToCursor(old)
  PROVE  CollectedUpToCursor(PageOf(cursor, snapshot, limit, old))
<1> DEFINE keys == KeysAfter(snapshot, cursor)
           page == PageKeys(keys, limit)
           x == PageOf(cursor, snapshot, limit, old)
           Entries(K) == { <<k, snapshot.accounts[k]>> : k \in K }
           Past == { j \in Present(snapshot) : cursor # None /\ j <= cursor.after }
<1>1. /\ x.first = snapshot
      /\ x.got = Entries(page) \cup (IF cursor = None THEN {} ELSE old.got)
      /\ HasNext(keys, limit) => x.cursor # None /\ x.cursor.after = Max(page)
      /\ ~ HasNext(keys, limit) => x.cursor = None
  BY PageFields
<1>2. /\ page \subseteq keys
      /\ ~ HasNext(keys, limit) => page = keys
      /\ HasNext(keys, limit) => Max(page) \in page /\ page = { k \in keys : k <= Max(page) }
  <2>1. keys \in SUBSET Key
    BY DEF KeysAfter, Present
  <2> HIDE DEF keys
  <2> QED BY <2>1, PageIsPrefix
<1>3. (IF cursor = None THEN {} ELSE old.got) = Entries(Past)
  BY DEF CollectedUpToCursor
<1>4. x.got = Entries(page \cup Past)
  BY <1>1, <1>3
<1>5. page \cup Past = { j \in Present(snapshot) : x.cursor # None => j <= x.cursor.after }
  <2>1. /\ \A j \in Present(snapshot) : j \in Nat
        /\ cursor # None => cursor.after \in Nat
        /\ keys = { j \in Present(snapshot) : cursor # None => j > cursor.after }
    BY KeyAssumption DEF KeysAfter, Present, Cursors
  <2> HIDE DEF keys, page, x
  <2>2. keys \cup Past = Present(snapshot)
    BY <2>1
  <2>3. CASE ~ HasNext(keys, limit)
    BY <2>2, <2>3, <1>1, <1>2
  <2>4. CASE HasNext(keys, limit)
    <3> DEFINE m == Max(page)
    <3>1. m \in keys /\ page = { k \in keys : k <= m } /\ x.cursor # None /\ x.cursor.after = m
      BY <2>4, <1>1, <1>2
    <3> HIDE DEF m
    <3>2. m \in Nat /\ (cursor # None => m > cursor.after)
      BY <3>1, <2>1
    <3>3. \A j \in Past : j <= m
      BY <3>2, <2>1
    <3> QED BY <2>2, <3>1, <3>3
  <2> QED BY <2>3, <2>4
<1> HIDE DEF x, page, Past
<1> QED BY <1>1, <1>4, <1>5 DEF CollectedUpToCursor, x

(* An answer that cuts a page, or is refused for its slot, keeps the       *)
(* invariant when the page comes from the snapshot served (without a       *)
(* cursor) or retained (with one), which is then retained from now on.     *)
LEMMA AnswerInv ==
  ASSUME Inv, PagingInv, KeepsRetained, UNCHANGED <<current, now>>, request' = None,
         request # None, NEW snapshot \in Snapshots, NEW kept,
         Answer(request, snapshot, kept),
         request.cursor = None => snapshot = current,
         request.cursor # None =>
           /\ snapshot.slot = request.cursor.slot
           /\ retained'[snapshot.slot] # None
           /\ retained'[snapshot.slot].touched = now
           /\ ~ MayRegress => snapshot = client[request.client].first,
         ~ MayRegress /\ HasNext(KeysAfter(snapshot, request.cursor), request.limit) =>
           /\ ServedAs(snapshot, snapshot.slot)
           /\ retained'[snapshot.slot] # None => retained'[snapshot.slot].snapshot = snapshot
  PROVE  PagingInv'
<1>0. PICK c \in Client : c = request.client
  BY DEF PagingInv, PagingTypeOK, Requests
<1> DEFINE old == client[c]
           cursor == request.cursor
           x == PageOf(cursor, snapshot, request.limit, old)
<1>1. /\ request \in Requests /\ cursor \in Cursors \cup {None}
      /\ request.limit \in Nat \ {0}
      /\ PagingTypeOK /\ client \in [Client -> Clients] /\ now \in Int
      /\ cursor # None => cursor = old.cursor
  BY <1>0, LimitAssumption DEF PagingInv, PagingTypeOK, RequestContinues, Requests, Valid
<1>2. old \in Clients
  BY <1>1
<1>3. CASE client' = client /\ answered' \in {"-32016", "page"}
  BY <1>3, UnansweredInv DEF Answers
<1>4. CASE client' = [client EXCEPT ![c] = x] /\ answered' = "page"
  <2>1. client'[c] = x
    BY <1>1, <1>4
  <2>2. /\ x \in Clients
        /\ x.since = now /\ x.deep = (cursor # None)
        /\ x.first = (IF cursor = None THEN snapshot ELSE old.first)
        /\ x.cursor # None =>
             x.cursor.slot = snapshot.slot /\ HasNext(KeysAfter(snapshot, cursor), request.limit)
    BY <1>1, <1>2, PageFields
  <2>3. ~ MayRegress /\ cursor # None => old.first = snapshot /\ CollectedUpToCursor(old)
    BY <1>0, <1>1 DEF PagingInv, PagesFromOneSnapshot
  <2>4. ~ MayRegress => CollectedUpToCursor(x)
    BY <1>1, <1>2, <2>3, PageCollects
  <2> HIDE DEF x
  <2>5. ~ MayRegress /\ x.cursor # None =>
          /\ ServedAs(x.first, x.cursor.slot)
          /\ retained'[x.cursor.slot] # None => retained'[x.cursor.slot].snapshot = x.first
    BY <2>2, <2>3
  <2>6. SoundClient(client[c])'
    <3>1. TouchedSince(client[c])'
      <4>1. x.deep => cursor # None
        BY <2>2, Zenon
      <4>2. x.since = now' /\ now' <= now'
        BY <1>1, <2>2
      <4>3. x.deep /\ x.cursor # None =>
              retained'[x.cursor.slot] # None /\ x.since <= retained'[x.cursor.slot].touched
        BY <1>1, <2>2, <4>1
      <4> QED BY <2>1, <4>2, <4>3 DEF TouchedSince
    <3>2. ~ MayRegress => PagesServed(client[c])'
      BY <2>1, <2>5 DEF PagesServed, ServedAs
    <3>3. ~ MayRegress => CollectedUpToCursor(client[c])'
      BY <2>1, <2>4 DEF CollectedUpToCursor
    <3> QED BY <2>1, <2>2, <3>1, <3>2, <3>3 DEF SoundClient
  <2>7. client' \in [Client -> Clients] /\ \A d \in Client : d # c => client'[d] = client[d]
    BY <1>1, <1>4, <2>2
  <2>8. \A d \in Client : client'[d] = client[d] \/ SoundClient(client[d])'
    <3> SUFFICES ASSUME NEW d \in Client, d = c PROVE SoundClient(client[d])'
      BY <2>7
    <3> QED BY <2>6
  <2>9. answered' \in Answers
    BY <1>4 DEF Answers
  <2> QED BY <2>7, <2>8, <2>9, AnswerKeepsInv
<1> QED BY <1>0, <1>3, <1>4 DEF Answer, Refused, AnswerIsLost, PageOf

(* A first page retains the served snapshot, or nothing.                   *)
LEMMA FirstPageInv ==
  ASSUME Inv, PagingInv, FirstPage
  PROVE  PagingInv'
<1> USE DEF store
<1>1. /\ request # None /\ request.cursor = None /\ request' = None
      /\ current' = current /\ now' = now
      /\ Answer(request, current, retained)
      /\ current \in Snapshots /\ current.slot \in Slot
      /\ now \in 0 .. MaxTime
      /\ retained \in [Slot -> Kept \cup {None}]
  BY DEF FirstPage, Inv, TypeOK, PagingInv, PagingTypeOK, Snapshots
<1>2. KeepsRetained
  <2>1. CASE retained' = retained
    BY <1>1, <2>1, SameRetained
  <2>2. CASE retained[current.slot] = None /\
             retained' = [retained EXCEPT ![current.slot] = [snapshot |-> current, touched |-> now]]
    <3> DEFINE new == [snapshot |-> current, touched |-> now]
    <3>1. new \in Kept /\ new.snapshot = current
      BY <1>1 DEF Kept
    <3> HIDE DEF new
    <3>2. \A s \in Slot : retained'[s] = IF s = current.slot THEN new ELSE retained[s]
      BY <1>1, <2>2 DEF new
    <3>3. retained' \in [Slot -> Kept \cup {None}]
      BY <1>1, <2>2, <3>1 DEF new
    <3>4. \A s \in Slot : retained[s] # None => retained[s] \in Kept
      BY <1>1
    <3> QED BY <2>2, <3>1, <3>2, <3>3, <3>4 DEF KeepsRetained
  <2> QED BY <1>1, <2>1, <2>2 DEF Answer, Retain
<1>3. ~ MayRegress => ServedAs(current, current.slot)
  BY <1>1, SlotAssumption DEF ServedAs, Slot
<1>4. ~ MayRegress /\ retained'[current.slot] # None => retained'[current.slot].snapshot = current
  BY <1>1, <1>2, RetainedStaysServed DEF ServedAs
<1> QED BY <1>1, <1>2, <1>3, <1>4, AnswerInv

(* A next page purges what is too old and touches what it is cut from.     *)
LEMMA NextPageInv ==
  ASSUME Inv, PagingInv, NextPage
  PROVE  PagingInv'
<1> USE DEF store
<1> DEFINE kept == Purged(retained)
           slot == request.cursor.slot
<1>1. /\ request # None /\ request.cursor # None /\ request' = None
      /\ current' = current /\ now' = now /\ now \in 0 .. MaxTime
      /\ retained \in [Slot -> Kept \cup {None}]
      /\ request.client \in Client /\ slot \in Slot
      /\ request.cursor = client[request.client].cursor
  BY DEF NextPage, PagingInv, PagingTypeOK, RequestContinues, Requests, Cursors
<1>2. \A s \in Slot :
        \/ kept[s] = None /\ (retained[s] # None => now - retained[s].touched >= RetainFor)
        \/ kept[s] = retained[s] /\ retained[s] \in Kept
  BY <1>1 DEF Purged
<1>3. kept \in [Slot -> Kept \cup {None}]
  BY <1>1 DEF Purged
<1> HIDE DEF kept
<1>4. CASE kept[slot] = None /\ retained' = kept /\ Refused(FailureCode(request.cursor))
  <2>1. KeepsRetained
    BY <1>2, <1>3, <1>4 DEF KeepsRetained
  <2>2. client' = client /\ answered' \in Answers
    BY <1>1, <1>4 DEF Refused, FailureCode, Answers
  <2> QED BY <1>1, <2>1, <2>2, UnansweredInv
<1>5. CASE kept[slot] # None /\ Answer(request, kept[slot].snapshot, Touched(kept, slot))
  <2> DEFINE snapshot == kept[slot].snapshot
             touched == [kept[slot] EXCEPT !.touched = now]
  <2>1. kept[slot] = retained[slot] /\ retained[slot] # None /\ retained[slot] \in Kept
    BY <1>1, <1>2, <1>5
  <2>2. snapshot \in Snapshots /\ snapshot = retained[slot].snapshot
    BY <2>1 DEF Kept
  <2>3. touched \in Kept /\ touched.snapshot = snapshot /\ touched.touched = now
    BY <1>1, <2>1 DEF Kept
  <2>4. None \notin Kept
    BY DEF None, Kept
  <2>5. \A s \in Slot : Touched(kept, slot)[s] = IF s = slot THEN touched ELSE kept[s]
    BY <1>1, <1>3 DEF Touched
  <2>6. Touched(kept, slot) \in [Slot -> Kept \cup {None}]
    BY <1>1, <1>3, <2>3 DEF Touched
  <2>7. retained' = Touched(kept, slot)
    <3>1. snapshot.slot = slot
      BY <1>1, <2>1, <2>2 DEF PagingInv, RetainedUnderItsSlot
    <3>2. Touched(kept, slot)[slot] # None
      BY <1>1, <2>3, <2>4, <2>5
    <3>3. Retain(Touched(kept, slot), snapshot) = Touched(kept, slot)
      BY <3>1, <3>2 DEF Retain
    <3> QED BY <1>5, <3>3 DEF Answer
  <2>8. snapshot.slot = slot
    BY <1>1, <2>1, <2>2 DEF PagingInv, RetainedUnderItsSlot
  <2> HIDE DEF touched, snapshot
  <2>9. retained'[slot] # None /\ retained'[slot].touched = now /\ retained'[slot].snapshot = snapshot
    BY <1>1, <2>3, <2>4, <2>5, <2>7
  <2>10. KeepsRetained
    <3>1. ASSUME NEW s \in Slot
          PROVE  \/ /\ retained'[s] = None
                    /\ retained[s] # None => now - retained[s].touched >= RetainFor
                 \/ /\ retained[s] # None /\ retained'[s] # None
                    /\ retained'[s].snapshot = retained[s].snapshot
                    /\ retained'[s].touched \in {now, retained[s].touched}
      <4>1. CASE s = slot
        BY <4>1, <2>1, <2>2, <2>9
      <4>2. CASE s # slot
        BY <4>2, <1>2, <2>4, <2>5, <2>7
      <4> QED BY <4>1, <4>2
    <3> QED BY <2>6, <2>7, <3>1 DEF KeepsRetained
  <2>11. ~ MayRegress =>
           /\ ServedAs(snapshot, slot)
           /\ snapshot = client[request.client].first
    BY <1>1, <2>1, <2>2 DEF PagingInv, OneSnapshotPerSlot, PagesServed
  <2>12. Answer(request, snapshot, Touched(kept, slot))
    BY <1>5 DEF snapshot
  <2> QED BY <1>1, <2>2, <2>8, <2>9, <2>10, <2>11, <2>12, AnswerInv
<1> QED BY <1>4, <1>5 DEF NextPage, kept

(* Every step of the store, the clients and the clock keeps the invariant. *)
LEMMA PagingStep ==
  ASSUME Inv, PagingInv, [PagingNext]_pagingVars
  PROVE  Inv' /\ PagingInv'
<1>1. ASSUME WriterStep, UNCHANGED <<readers, paging>>
      PROVE  Inv' /\ PagingInv'
  BY <1>1, WriterInv, WriterPagingInv
<1>2. ASSUME UNCHANGED vars
      PROVE  Inv'
  BY <1>2, InvStep
<1>3. ASSUME NEW c \in Client, NEW limit \in Limit, NEW minimum \in {0, MaxSlot},
             NEW cursor \in {client[c].cursor, None}, PageRequest(c, cursor, limit, minimum)
      PROVE  Inv' /\ PagingInv'
  <2>1. minimum \in Slot
    BY SlotAssumption DEF Slot
  <2> QED BY <1>2, <1>3, <2>1, PageRequestInv DEF PageRequest, vars
<1>4. ASSUME FirstPage
      PROVE  Inv' /\ PagingInv'
  BY <1>2, <1>4, FirstPageInv DEF FirstPage, vars
<1>5. ASSUME NextPage
      PROVE  Inv' /\ PagingInv'
  BY <1>2, <1>5, NextPageInv DEF NextPage, vars
<1>6. ASSUME Tick
      PROVE  Inv' /\ PagingInv'
  BY <1>2, <1>6, TickInv DEF Tick, vars
<1>7. ASSUME UNCHANGED pagingVars
      PROVE  Inv' /\ PagingInv'
  <2>1. UNCHANGED vars
    BY <1>7 DEF pagingVars, vars
  <2> QED BY <1>2, <1>7, <2>1
          DEF pagingVars, store, paging, PagingInv, PagingTypeOK, RequestContinues,
              RetainedUnderItsSlot, TouchedSincePage, TouchedSince, OneSnapshotPerSlot,
              PagesServed, ServedAs, PagesFromOneSnapshot, CollectedUpToCursor
<1> QED BY <1>1, <1>3, <1>4, <1>5, <1>6, <1>7 DEF PagingNext

(* The invariants of the store and of paging hold together, between any    *)
(* two steps of the updater, the clients and the clock.                    *)
THEOREM PagingInvHolds == PagingSpec => [](Inv /\ PagingInv)
<1>1. PagingInit => Inv /\ PagingInv
  BY InitInv, PagingInitInv DEF PagingInit
<1>2. (Inv /\ PagingInv) /\ [PagingNext]_pagingVars => (Inv /\ PagingInv)'
  BY PagingStep
<1> QED BY <1>1, <1>2, PTL DEF PagingSpec

(* The paging variables keep their types.                                  *)
THEOREM PagingTypeCorrect == PagingSpec => []PagingTypeOK
<1>1. PagingInv => PagingTypeOK
  BY DEF PagingInv
<1> QED BY <1>1, PagingInvHolds, PTL

(* While the published slot never goes back, the pages of every client are *)
(* those of one snapshot, without a gap and without a repetition.          *)
THEOREM PagesAreOneSnapshot ==
  ASSUME ~ MayRegress
  PROVE  PagingSpec => []PagesFromOneSnapshot
<1>1. PagingInv => PagesFromOneSnapshot
  BY DEF PagingInv
<1> QED BY <1>1, PagingInvHolds, PTL

(* While the published slot never goes back, a client that continues in    *)
(* time finds its snapshot.                                                *)
THEOREM TouchedSnapshotStays ==
  ASSUME ~ MayRegress
  PROVE  PagingSpec => []TouchedCursorIsRetained
<1>1. PagingInv => TouchedCursorIsRetained
  <2> SUFFICES ASSUME PagingInv, NEW c \in Client, client[c].deep, client[c].cursor # None,
                      now - client[c].since < RetainFor
               PROVE  /\ retained[client[c].cursor.slot] # None
                      /\ retained[client[c].cursor.slot].snapshot = client[c].first
    BY DEF TouchedCursorIsRetained
  <2>1. retained[client[c].cursor.slot] # None
    BY DEF PagingInv, TouchedSincePage, TouchedSince
  <2> QED BY <2>1 DEF PagingInv, OneSnapshotPerSlot, PagesServed
<1> QED BY <1>1, PagingInvHolds, PTL

(* Even when it goes back, a client that continues in time finds the       *)
(* snapshot that is retained for its slot: no purge or publication evicts  *)
(* an entry that has been used in time.                                    *)
THEOREM TouchedSlotStays ==
  PagingSpec =>
    [](\A c \in Client :
         client[c].deep /\ client[c].cursor # None /\ now - client[c].since < RetainFor =>
           retained[client[c].cursor.slot] # None)
<1>1. PagingInv =>
        \A c \in Client :
          client[c].deep /\ client[c].cursor # None /\ now - client[c].since < RetainFor =>
            retained[client[c].cursor.slot] # None
  BY DEF PagingInv, TouchedSincePage, TouchedSince
<1> QED BY <1>1, PagingInvHolds, PTL
=============================================================================
