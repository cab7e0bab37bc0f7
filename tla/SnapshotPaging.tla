--------------------------- MODULE SnapshotPaging ---------------------------
(***************************************************************************)
(* getProgramAccountsV2 (api/json_rpc.rs) over the Store: clients page     *)
(* through a snapshot with cursors while the updater thread publishes.     *)
(* The JSON-RPC thread answers one request at a time; the updater thread   *)
(* comes between its check of the flag and its read of the snapshot.       *)
(*                                                                         *)
(* Pubkeys are ordered, so keys are numbers here.  RetainFor stands for    *)
(* the 300 seconds a snapshot is retained after it was last touched.       *)
(***************************************************************************)
EXTENDS SnapshotStore

CONSTANTS
  Client,      \* the paging clients
  Limit,       \* the page sizes they ask for
  MaxPageSize, \* max_page_size
  RetainFor,   \* how long a retained snapshot lives untouched
  MaxTime      \* bound: the clock

ASSUME KeyAssumption == Key \subseteq Nat /\ IsFiniteSet(Key)
ASSUME LimitAssumption == Limit \subseteq Nat /\ MaxPageSize \in Nat \ {0}
ASSUME TimeAssumption == RetainFor \in Nat \ {0} /\ MaxTime \in Nat

VARIABLES
  retained,  \* the snapshots kept for paging clients, by slot
  request,   \* the request the JSON-RPC thread is answering
  client,    \* per client: its cursor and, as history, what it received
  answered,  \* the kind of the last answer
  now        \* the clock

paging == <<retained, request, client, answered, now>>
pagingVars == <<store, readers, paging>>

Present(s) == { k \in Key : s.accounts[k] # NoAccount }

Cursors == [slot: Slot, after: Key]
Kept == [snapshot: Snapshots, touched: 0 .. MaxTime]
Requests == [client: Client, cursor: Cursors \cup {None}, limit: Limit, minimum: Slot]

(* `first' is the snapshot of the first page, `got' the accounts received  *)
(* since, `deep' whether a later page was, `since' when the last one was.  *)
Clients ==
  [ cursor: Cursors \cup {None}, first: Snapshots, got: SUBSET (Key \X Account),
    deep: BOOLEAN, since: 0 .. MaxTime ]

Answers == {"none", "page", "-32602", "-32001", "-32002", "-32016"}

NewClient ==
  [cursor |-> None, first |-> Empty, got |-> {}, deep |-> FALSE, since |-> 0]

PagingInit ==
  /\ Init
  /\ retained = [s \in Slot |-> None]
  /\ request = None
  /\ client = [c \in Client |-> NewClient]
  /\ answered = "none"
  /\ now = 0

-----------------------------------------------------------------------------
(* An answer without a page: -32602 for a request refused as it stands,    *)
(* -32002 for any failure of a request with a cursor, -32001 for one       *)
(* without, -32016 for a slot below minContextSlot.  The client keeps what *)
(* it has: it may repeat the request, go on from its cursor or start over. *)
Refused(code) == answered' = code /\ UNCHANGED client

FailureCode(cursor) == IF cursor = None THEN "-32001" ELSE "-32002"

(* validate_program and validate_config; a page size out of bounds stands  *)
(* for every request that they refuse.                                     *)
Valid(limit) == limit \in 1 .. MaxPageSize

(* A client continues from its cursor or starts over without one.  The     *)
(* readiness is checked before anything else is read.                      *)
PageRequest(c, cursor, limit, minimum) ==
  /\ request = None
  /\ \/ /\ ~ Valid(limit)
        /\ Refused("-32602")
        /\ UNCHANGED request
     \/ /\ Valid(limit)
        /\ ready
        /\ request' = [client |-> c, cursor |-> cursor, limit |-> limit, minimum |-> minimum]
        /\ UNCHANGED <<client, answered>>
     \/ /\ Valid(limit)
        /\ ~ ready
        /\ Refused(FailureCode(cursor))
        /\ UNCHANGED request
  /\ UNCHANGED <<store, readers, retained, now>>

(* Mutant: keys without an account are listed too.                         *)
KeysAfterAll(snapshot, cursor) == { k \in Key : cursor # None => k > cursor.after }

(* The keys after the cursor; the page is the first `limit' of them, and   *)
(* there is a next page when there is one more.                            *)
KeysAfter(snapshot, cursor) ==
  { k \in Present(snapshot) : cursor # None => k > cursor.after }

PageKeys(keys, limit) ==
  { k \in keys : Cardinality({ j \in keys : j < k }) < limit }

(* Mutant: the last page is declared one key too early.                    *)
HasNextOffByOne(keys, limit) == Cardinality(keys) > limit + 1

HasNext(keys, limit) == Cardinality(keys) > limit

(* entry(slot).or_insert: an entry that is there stays as it is.           *)
Retain(kept, snapshot) ==
  IF kept[snapshot.slot] = None
  THEN [kept EXCEPT ![snapshot.slot] = [snapshot |-> snapshot, touched |-> now]]
  ELSE kept

Received(cursor, snapshot, page, more, old) ==
  [ cursor |-> IF more THEN [slot |-> snapshot.slot, after |-> Max(page)] ELSE None,
    first  |-> IF cursor = None THEN snapshot ELSE old.first,
    got    |-> { <<k, snapshot.accounts[k]>> : k \in page }
                 \cup (IF cursor = None THEN {} ELSE old.got),
    deep   |-> cursor # None,
    since  |-> now ]

(* The server has done its part and the client never hears of it.          *)
AnswerIsLost == UNCHANGED client

(* Cutting the page retains the snapshot even when minContextSlot then     *)
(* turns the answer into an error.                                         *)
Answer(r, snapshot, kept) ==
  LET keys == KeysAfter(snapshot, r.cursor)
      more == HasNext(keys, r.limit)
  IN  /\ retained' = IF more THEN Retain(kept, snapshot) ELSE kept
      /\ \/ /\ snapshot.slot < r.minimum
            /\ Refused("-32016")
         \/ /\ snapshot.slot >= r.minimum
            /\ answered' = "page"
            /\ \/ AnswerIsLost
               \/ client' = [client EXCEPT ![r.client] =
                     Received(r.cursor, snapshot, PageKeys(keys, r.limit), more, @)]

(* Without a cursor the page is cut from the current snapshot.             *)
FirstPage ==
  /\ request # None
  /\ request.cursor = None
  /\ Answer(request, current, retained)
  /\ request' = None
  /\ UNCHANGED <<store, readers, now>>

(* Snapshots that nobody touched for too long go.                          *)
Purged(kept) ==
  [s \in Slot |-> IF kept[s] # None /\ now - kept[s].touched >= RetainFor
                  THEN None ELSE kept[s]]

(* Mutant: the time of the last use is not updated.                        *)
TouchedForgotten(kept, slot) == kept

Touched(kept, slot) == [kept EXCEPT ![slot].touched = now]

(* With a cursor the page is cut from the snapshot retained for its slot.  *)
NextPage ==
  /\ request # None
  /\ request.cursor # None
  /\ LET kept == Purged(retained)
         slot == request.cursor.slot
     IN  \/ /\ kept[slot] # None
            /\ Answer(request, kept[slot].snapshot, Touched(kept, slot))
         \/ /\ kept[slot] = None
            /\ retained' = kept
            /\ Refused(FailureCode(request.cursor))
  /\ request' = None
  /\ UNCHANGED <<store, readers, now>>

Tick ==
  /\ now < MaxTime
  /\ now' = now + 1
  /\ UNCHANGED <<store, readers, retained, request, client, answered>>

PagingNext ==
  \/ WriterStep /\ UNCHANGED <<readers, paging>>
  \/ \E c \in Client, limit \in Limit, minimum \in {0, MaxSlot} :
       \E cursor \in {client[c].cursor, None} : PageRequest(c, cursor, limit, minimum)
  \/ FirstPage
  \/ NextPage
  \/ Tick

PagingSpec == PagingInit /\ [][PagingNext]_pagingVars

-----------------------------------------------------------------------------
(* Properties                                                              *)

(* The types of the paging variables.                                      *)
PagingTypeOK ==
  /\ retained \in [Slot -> Kept \cup {None}]
  /\ request \in Requests \cup {None}
  /\ client \in [Client -> Clients]
  /\ answered \in Answers
  /\ now \in 0 .. MaxTime

(* What a client has collected is, up to its cursor, the snapshot its      *)
(* first page was cut from; without a cursor left it is all of it.         *)
CollectedUpToCursor(x) ==
  x.got = { <<k, x.first.accounts[k]>> :
              k \in { j \in Present(x.first) : x.cursor # None => j <= x.cursor.after } }

(* The pages of a client never skip or repeat an account and are never     *)
(* taken from another snapshot than its first one, whatever was published, *)
(* retained or purged between them, and however often a request failed or  *)
(* was repeated.                                                           *)
PagesFromOneSnapshot == \A c \in Client : CollectedUpToCursor(client[c])

(* A client that has paged with its cursor and comes back in time finds    *)
(* its snapshot: no other client's paging, purge or publication evicts it. *)
TouchedCursorIsRetained ==
  \A c \in Client :
    /\ client[c].deep
    /\ client[c].cursor # None
    /\ now - client[c].since < RetainFor
    => /\ retained[client[c].cursor.slot] # None
       /\ retained[client[c].cursor.slot].snapshot = client[c].first
=============================================================================
