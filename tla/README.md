# Verification of the ALT cache

TLA+ models of the Astralane ALT cache (the Rust service and library in `src/`),
TLC configurations that check them on small instances, and TLAPS proofs of the
theorems that do not depend on the instance. Paths below are relative to `src/`;
`src/updater.rs` is the crate's `src/updater.rs`.

## The system

The service keeps every Solana address lookup table (ALT) in memory at confirmed
commitment. It bootstraps from an RPC, follows one of several Yellowstone gRPC
streams, and serves immutable snapshots over JSON-RPC and gRPC. A client library
keeps a local copy fed from the service and from Yellowstone.

| Component | State | Operations | Talks to |
|---|---|---|---|
| `StateUpdater` (`state_updater.rs`) | bootstrap and confirmed slot, accounts, staged mutations by slot, last version by key, recovering flag | `from_fetched_alt_state`, `queue`, `confirm`, `finish_recovery`, `invalidate` | publishes to `Store` |
| `Store` (`store.rs`) | served snapshot, ready flag, active URL, retained snapshots | `publish`, `invalidate`, `read_snapshot`, `snapshot_page`, `health` | shared by the updater and the API threads, no common lock |
| `UpdaterService` (`updater.rs`) | active source, connected sources, refresh in progress, buffers | wait, bootstrap, serve, refresh, failover | channel from the sources, RPC fetches, `StateUpdater` |
| Source threads (`yellowstone.rs`) | one session each | connect, stream, time out, report | bounded channel to the updater |
| Fetcher (`alt_state_fetcher.rs`) | pages fetched so far | one paginated fetch | the RPC |
| JSON-RPC (`api/json_rpc.rs`) | none | `getProgramAccounts`, `getProgramAccountsV2`, `getHealth` | `Store` |
| gRPC (`api/grpc.rs`) | none | `StreamSnapshot` | `Store` |
| Client (`client.rs`) | tables, ready flag, confirmed slot, session | `connect`, `get`, follow, recover | gRPC service, Yellowstone |
| Process (`main.rs`) | stop token, threads | start, stop, exit on a failed thread | all |
| Alerts, logging, configuration | alert queue | best-effort delivery | webhooks |

What is hard here, and what makes each part right:

- *Staging.* Updates come late, twice and out of order; the newest write of a
  table must win, nothing may be visible before its slot is confirmed, and a
  published map must hold all of its slot.
- *Hand-over.* Bootstrap and refresh combine a fetched state with events received
  meanwhile. No update may be lost between the two or applied under the wrong
  state; nothing half-built may be seen.
- *Failover.* Events of the previous source are still in the channel; buffers
  fill; connections fail while a fetch is in flight. The cache may say ready only
  when it serves from a connected source, and must get there again.
- *Sharing.* `publish`, `read_snapshot` and `health` touch several atomics one
  after the other; paging clients keep snapshots alive across publications.

`PROJECT.json` lists these hazards at the lines where they bite, with the
property that covers each or the reason none does.

## Modules

| Module | Models | Used by |
|---|---|---|
| `Chain` | external: the chain that servers stream and RPCs answer from | `UpdaterService`, `AltFetch`, `AltClient` |
| `AltState` | `StateUpdater` and the publishing half of `Store`, as operators on records | the next three |
| `ConfirmedView` | abstract: what the staged state promises its readers | `StateUpdater` |
| `ServedLedger` | abstract: what a copy of the ledger promises those who read it | `UpdaterService`, `AltClient` |
| `StateUpdater` | one object through its life, fed arbitrary updates | proofs |
| `UpdaterService` | source threads, channel, updater thread, RPC, restarts, over `Chain` and `AltState` | |
| `AltFetch` | `fetch_full_alt_state`, page by page, over `Chain` | |
| `SnapshotStore` | `Store` as threads share it, one action per atomic access | the next two, proofs |
| `SnapshotPaging` | `snapshot_page` and `getProgramAccountsV2` with clients and a clock | |
| `SnapshotStream` | `stream_snapshot` and the client's download over the live store | proofs |
| `AltClient` | `AltCache`: session, recovery, readers, over `Chain` | |
| `MC*` | constants' symmetries for TLC | runs |
| `DataLemmas`, `AltStateProofs` | lemmas about sequences, finite sets and the operators of `AltState` | the proof modules |
| `StateUpdaterProofs`, `UpdaterServiceProofs`, `SnapshotStoreProofs`, `SnapshotPagingProofs`, `SnapshotStreamProofs`, `AltClientProofs` | the inductive invariants of the three large ones; theorems | |

The modules meet where the parts do, and each meeting is a property:

- `UpdaterService` contains the `AltState` that `StateUpdater` examines alone.
- `UpdaterService` writes the store in one step, `SnapshotStore` in three with
  readers between. `PublishIsAtomic` says that the three are the one `Publish` of
  `AltState`; `KeepsWriterContract` says that the service publishes only what
  `SnapshotStore` lets its writer publish (`MayPublish`: a real slot, never a
  lower one while ready).
- `UpdaterService` takes a fetch as one step that yields a member of `Fetchable`;
  `AltFetch` has the loop, and `FetchedIsFetchable` says that its result is one.
- `SnapshotStream` carries one of the store's snapshots to a client, whole or not
  at all (`AcceptedIsCaptured`).
- `UpdaterService` and `AltClient` both implement `ServedLedger`
  (`ImplementsServedLedger`). What it promises is what `AltClient` takes from a
  server (`AltClient`'s `Fetchable`): theorem `PromisedIsFetchable`, and `ServedStaysPromised`
  because a snapshot may be old when it arrives.

Definitions that are wrong on purpose (each commented *Mutant*) stand before the
definition they are a variant of. They are there to show that the property would
notice: with the variant in place TLC must find a violation.

### AltState and StateUpdater

A record of `StateUpdaters` is one Rust object; a missing map entry is
`Unversioned` or `NoAccount`. `Queue`, `Confirm`, `FinishRecovery` and
`FromFetchedAltState` are the methods; `ConfirmStore`, `FinishRecoveryStore` are
what the same calls do to the store. `pending` keeps the whole write where the
code keeps key and account: slot and version are history that no method reads.
Slots and versions are `u64` in the code but only compared, so no width is
modelled. `ApplyPendingThrough` is written in closed form (the last mutation of
the highest staged slot), which is what the proofs reason about;
`ApplyMatchesLoop` compares it with the two nested loops, written as recursive
functions (`ApplyLoop`, `ApplyMutations`).

`StateUpdater` adds two history variables: the fetched state and the log of
accepted writes. `Build` replaces the object, either at bootstrap or as a refresh.
`ConfirmedView` says what that must look like from outside: a base, overlaid with
the newest of the writes shown, where showing is all-or-nothing per slot.

### ServedLedger

A view is a slot, the last slot its tables may be of, and the tables. While one is
served it keeps its promise (each table is as of a slot in that span), the next
one does not state a lower slot, and, unless the copy may have begun from tables
of several slots (`mixed`), no table goes back. When something is served and when
it is withdrawn is left open. `Served` maps the service (its store while ready)
and the client (its map while ready; one slot may be partly applied, so the span
ends at the slot being applied) to it. It claims nothing where the handoff is
known to fail: an RPC or a snapshot server that is behind, a stream that breaks
its order.

### UpdaterService

| Action | Code |
|---|---|
| `Subscribe`, `SendConnected`, `SendAccount`, `SendConfirmedSlot`, `StreamFails`, `SendDisconnected`, `SourceStops` | `yellowstone.rs` `run`, `session` |
| `LoopHead`, `WaitReceives` | `run`, `wait_for_active_yellowstone` |
| `BootstrapReceives`, `BootstrapFetched`, `BootstrapFetchFails`, `SleepEnds` | `bootstrap_alt_state` |
| `ReplayEvent`, `ReplayEnds` | the replay loops of `bootstrap_alt_state` and `install_refreshed_alt_state` |
| `RefreshDue`, `RefreshFetched`, `RefreshFails`, `ServeReceives` | `serve_alt_state`, `install_refreshed_alt_state`, `buffer_refresh_event` |
| `RequestStop`, `UpdaterStops`, `AllSourcesStopped`, `ProcessStarts` | `main.rs`, and systemd's `Restart=on-failure` |
| `ConfirmBlock`, the servers' position `at` | external: the chain and the Yellowstone servers |

The updater thread awaits in `phase` wait, bootstrap, sleep and serve; replay and
install are the synchronous loops between, split per event because API threads
run meanwhile. The RPC is external and of one of three kinds (`rpc`): *level*
with the servers; *paged*, level and with pages from later slots than the first;
*lagging*, paged and possibly behind the stream. The server contract that
README.md:48 requires (writes of a slot precede its confirmation) is assumed; a
session may start anywhere up to the tip and servers differ in progress. In the
chain, a table written at slot *s* has the content *s*, so a stale account is
recognisable. A malformed account update stands for everything
`decode_account_update` refuses.

### AltFetch

`FetchStarts` is the call (a bootstrap has no minimum, a refresh the confirmed
slot), `PageArrives` one turn of the loop, `RpcFails` any error of a request. The
locals of the function are the variables, new with each call. The chain goes on
between two pages. The RPC is external and trusted with little: a page may be as
of any confirmed slot, below the minimum and behind the page before included; it
may list closed tables (no lamports); its pagination key may lead back, or go on
after the last table. It skips no key and what it sends decodes. `FetchEnds` is
why the loop keeps `seen`. Keys are finitely many here, so an RPC that invents new
ones for ever, which the code would follow, is outside the model. The updater runs
other code while it awaits a page, but shares nothing with the loop; so nothing
is lost by `UpdaterService` seeing the result alone.

### SnapshotStore and SnapshotPaging

`publish` is three actions, `read_snapshot` two, `health` three, in code order.
Release/acquire ordering and the lock make sequential consistency of these
accesses a fair reading: each reader loads the flag with acquire before the data
it guards, and the writer is one thread. Slot 0 is never published: it is the
empty store, and a cluster has confirmed slots. `MayRegress` says whether
recovery may publish a lower slot than was served before; the RPC of the service
decides that.

`SnapshotPaging` has one JSON-RPC thread (the server runs on a current-thread
runtime and the handlers are synchronous), so a request is a readiness check
followed by one step that cuts the page, with the updater thread in between. A
page size out of bounds stands for every request that `validate_program` and
`validate_config` refuse; they are answered before anything is read. A client
whose request is refused, or whose answer is lost after the server has retained,
touched or purged, keeps its cursor and may repeat the request, go on or start
over. `RetainFor` stands for 300 s.

### SnapshotStream

| Action | Code |
|---|---|
| `StreamStarts` | `stream_snapshot` after `read_snapshot`: the captured map, an empty chunk, a channel |
| `PushAccount`, `SendFullChunk`, `StreamEnds` | the spawned task's loop, its `send`, its last chunk |
| `ReceiveChunk`, `DownloadEnds` | `fetch_snapshot`: `SnapshotDownload::push` per message, then `finish` |
| `StreamIsCut`, `DownloadFails` | external: the server's runtime ends; the transport errs or the client gives up |

A chunk is full by its number of accounts or because of one large account, where
the code takes the encoded length; so chunks of one, of several and of exactly
the last accounts occur. The task's snapshot is an `Arc`, hence `stream.snapshot`
does not follow `current`. The channel stands for everything between the task
and `stream.message()`. While a download runs, other requests are left out (they
only read); the writer is not.

### AltClient

| Action | Code |
|---|---|
| `Connect`, `Subscribe`, `SubscribeFails`, `SourceFailed` | `connect`, `establish_session` and its rotation |
| `BootstrapReceives`, `BootstrapStreamFails`, `SnapshotFails`, `SnapshotFetched` | `establish_session_from_source`, `fetch_snapshot_from_any` |
| `ReplayEvent`, `Established` | the replay of the buffered events; the return of a session |
| `FollowReceives`, `FollowStreamFails`, `FollowFailed`, `DelayEnds`, `StoreTables`, `StoreSlot`, `StoreReady` | `follow` and `run` |
| `ApplyUpdate`, `ApplyMalformed`, `ConfirmEnds` | `apply_pending_through`, `apply_update`, `confirm`, one update at a time |
| `ReadConfirmedSlot`, `GetChecksReady`, `GetLoadsMap`, `GetLooksUp` | `confirmed_slot`, then `get` with its two loads and its look-up |
| `Drop` | dropping the last clone |

`inner` is what other threads see; `session` is the task's own. While following,
`session.tables` *is* the map readers use, so each applied update is visible at
once, before `confirmed_slot` is stored. A reader that loaded the old map before
recovery replaced it keeps that one (`replaced`). The Yellowstone server may break its
contract as a fault: a confirmation overtakes writes of its slot, or an update
does not decode. The snapshot servers are of one of three kinds (`servers`):
*exact*, *paged* (tables may be newer than the slot, as from a service with such
an RPC), *behind* (a slot the stream has passed). That a server is not behind is
an assumption of two parts, both in `Subscribe`: its snapshot is not older than
where the new stream begins, and not older than the slot the client's readers
were already shown by the stream before. client.rs:221-233 checks neither.
`ClientGap` shows what happens without the first; `GetIsNotStale` across a
recovery rests on the second, and with another server that has not got as far
a reader may see older tables after the recovery than before. The updater's versions play no
part: the client compares none.

## Runs

| Run | Instance | Checks |
|---|---|---|
| `Updater` | 2 tables, slots 0 and 1, 2 versions, 3 writes | `TypeOK`, `NewestWins`, `VisibleIsConfirmed`, `ApplyMatchesLoop`, `Inv` (the invariant of the proof), `PublishesCompleteSlot`, `ReplayIsInvisible`, `ImplementsConfirmedView` |
| `ServiceFailover` | 2 sources, level RPC, 2 faults, channel and buffers of 1, `FairSpec` | `TypeOK`, `ServesTheLedger`, `ReadyMeansServing`, `OneValidator`, `ImplementsServedLedger`, `CatchesUp` |
| `ServiceRefresh` | 1 source, slots to 3, every kind of RPC, buffers of 3, 1 fault | `ServesTheLedger`, `RefreshKeepsStaged`, `ServedSlotMonotone`, `ImplementsServedLedger`, `KeepsWriterContract` |
| `Fetch` | 3 tables, slots to 3, pages of 1, fair requests | `FetchTypeOK`, `FetchedIsFetchable`, `FetchEnds` |
| `SnapshotStream` | 3 tables, slots to 2, chunks of 2 accounts or a large one, channel of 1 | `TypeOK`, `StreamTypeOK`, `ReadIsPublished`, `HealthNamesSource`, `AcceptedIsCaptured`, `RejectedWasCut`, `DownloadTerminates`, `PublishIsAtomic` |
| `SnapshotPaging` | 3 tables, 2 clients, page sizes 0 and 1, clock to 2 | `PagingTypeOK`, `PagesFromOneSnapshot`, `TouchedCursorIsRetained` |
| `Client` | 2 sources, 2 exact or paged servers, slots to 3, buffer of 2, 1 fault, `FairSpec` | `TypeOK`, `ServesBetween`, `GetIsNotStale`, `ReadyMeansFollowing`, `CatchesUp`, `ImplementsServedLedger` |
| `ServiceStaged`, `ServiceSameSlot`, `PagingRegress`, `ClientGap`, `ClientSession` | smallest that show it | the disagreements below, one property each |

What the main properties say:

- `ServesTheLedger`: a ready service serves, under slot *s*, the chain's tables as
  of *s* (of a paged fetch, *s* or later). `ServesBetween` is the client's
  counterpart: between the published slot and the one being applied, the map
  holds each table as of one or the other.
- `ImplementsServedLedger`, of both: besides, while there is something to read the
  stated slot never goes back, and of a copy begun from one slot neither does any
  table, through refreshes, recoveries and half-applied slots.
- `RefreshKeepsStaged`: each update that the replaced state had staged is in the
  fetched state or was replayed into the replacement.
- `AcceptedIsCaptured` and `RejectedWasCut`: a download yields the whole captured
  snapshot or nothing, and nothing only if the stream was cut.
- `GetIsNotStale`: a program that reads `confirmed_slot()` and then calls `get`
  gets a table at least that new, although flag, map and slot are read one after
  the other and written in another order. It is stated for streams that keep
  their order, since a write that its confirmation overtook is rightly missing
  until it arrives.
- `PublishesCompleteSlot`: a publication, of a new map or of the old one under a
  new slot, is the fetched state with all accepted writes up to its slot.
- `FetchedIsFetchable`: each table of a fetched state is as of its context slot or
  later, although the pages come from any slots.
- `CatchesUp`, of both: once faults cease and the chain rests, ready at its last
  slot for good. Of the service there is one exception, `OverflowsForever`: from
  some point on every bootstrap ends with a full buffer, the process with it, and
  so again after each restart. Nothing in the code keeps a stream that is faster
  than the fetch from doing so.

Why the bounds are enough to be interesting: three accepted writes give a newer,
an older and a repeated one, on both sides of a confirmation; two sources and two
faults give a failover during the recovery from another; buffers of one
(`ServiceFailover`) overflow at the second event of a session, without any fault
and again after each restart, while buffers of three (`ServiceRefresh`) hold an
update with its confirmation and the next one, and can still fill; three slots let
a refresh start, overlap two confirmed slots and be installed between staged ones,
and let a client's bootstrap begin before, at and after the snapshot's slot, and
the pages of a fetch come in any order; three tables with page size one give a
first, a middle and a last page; three tables, one of them large, give chunks of
two accounts, of one and of exactly the last ones, and a channel of one with two
chunks makes the task wait. `SnapshotStream` runs without regression of the slot,
which would multiply its states and does not touch a captured snapshot; the
theorems have both. The client runs with one table: a reader that finds one table
of a slot applied and another not yet does not occur there, and rests on the
theorems, which hold for any set of tables. `MaxFaults` counts everything the
environment may do wrong, stop requests and drops included. Deadlock is checked in
every run.

*Fairness.* In `UpdaterService`, a thread that can run does;
`tokio::select!` polls its branches in random order and the channel admits
waiting senders in order, so a receive or a send that is possible again and again
happens (strong fairness); a fetch ends because the HTTP client has a 120 s
timeout; systemd restarts a failed process. Nothing is assumed of the chain, the
refresh timer or stop requests; its `CatchesUp` concludes only for behaviours in
which the chain comes to rest and no stop is pending.

In `AltFetch`, a request is answered or fails (the HTTP client's timeout). In
`SnapshotStream`, the runtimes poll their tasks (weak fairness of the task's and
the client's steps together); nothing is asked of the store.

In `AltClient`, the task runs when it can and what the stream has arrives (weak
fairness). Two assumptions are about the servers and strong. A snapshot fetch
that is under way again and again ends before the buffer is full: the code has no
timeout for it. And a stream that is opened again and again is once opened at the
tip: one that starts behind the snapshot may cost its session
(`SessionEndsByFault`), and nothing in the code ends that. Failures are
`MaxFaults` many in all of them, which is what lets servers answer eventually.

### Disagreements between code and documentation

- **A refresh can drop staged updates** (`ServiceStaged`). The replacement gets
  the fetched state and the events since the refresh *started*. An update staged
  earlier, for a slot above the RPC's context slot, is in neither. The service
  needs an RPC behind the stream for it; with one that is level, `ServiceRefresh`
  shows that nothing is lost. README.md:33-37 says the lagging response is
  prevented from replacing newer state.
- **A recovery at the served slot installs nothing** (`ServiceSameSlot`).
  `publish` skips an equal slot, so readiness returns over the old map.
  README.md:27-28 promises a new snapshot.
- **Pages of two snapshots** (`PagingRegress`). Retention is by slot with
  `or_insert`; after a recovery at a lower slot a retained slot can be published
  again with other content. README.md:159-161 promises one snapshot. Without
  regression `SnapshotPaging` shows the promise kept.
- **The client's handoff can have a gap** (`ClientGap`). The snapshot's slot is
  not compared with where the Yellowstone stream began. From a server that is
  behind, updates between the two are in neither, and the client is ready over
  older tables, at newer slots. README.md:76-78 says the handoff has no gap. With
  servers that are not behind, `Client` shows that it has none.
- **A snapshot at the stream's own slot costs the session** (`ClientSession`).
  Updates of exactly the bootstrap slot are neither ignored nor accepted once
  recovery is over, so a stream that is still delivering that slot ends the session,
  with an error (client.rs:469) that blames the stream. README.md:80-81 has
  sources rotated after a failure; none happened.
- Noted without a run: a request with a cursor that finds the cache unready gets
  -32002, README.md:154-155 says -32001 (`FailureCode` follows the code).

## Proofs

Every safety property that a passing run checks is also a theorem, except the two
of `AltFetch`; those and liveness are left to TLC. The theorems hold for every set of keys, accounts and
versions, every `MaxSlot`, any number of sources, servers, clients and readers'
requests, every capacity, page size and retention time, every number of faults.
What is assumed of the constants are the named `ASSUME`s: that `NoAccount`,
`NoSource` and `None` are no values, that numbers are naturals, that a source, a
server and room for one event exist (`config.rs` checks as much), that there is a
slot after the empty one (`FirstSlotAssumption`, `CountAssumption`: slot 0 is
never published), and where keys are counted or ordered (paging, streaming) that
they are finitely many numbers.

| Theorem | States |
|---|---|
| `StateUpdaterProofs`: `InvHolds`, `TypeCorrect`, `NewestWriteWins`, `NothingUnconfirmedIsVisible`, `CompleteSlotsArePublished`, `ReplayLeavesTheStore`, `Refinement`, `LoopsApplyPending` | `Inv`, `TypeOK`, `NewestWins`, `VisibleIsConfirmed`, `PublishesCompleteSlot`, `ReplayIsInvisible`, `ImplementsConfirmedView`, `ApplyMatchesLoop` |
| `UpdaterServiceProofs`: `ServiceInvHolds`, `ServiceTypeCorrect`, `ReadyServesLedger`, `ReadyIsServing`, `StatesOfOneValidator`, `ServedSlotNeverFalls`, `RefreshLosesNothing`, `WriterContractKept`, `ServiceRefinesServedLedger`, `ServedStaysPromised` | `ServiceInv`, `TypeOK`, `ServesTheLedger`, `ReadyMeansServing`, `OneValidator`, `ServedSlotMonotone`, `RefreshKeepsStaged`, `KeepsWriterContract`, `ImplementsServedLedger`, that a view served once keeps its promise |
| `SnapshotStoreProofs`: `TypeCorrect`, `OnlyPublishedIsRead`, `ReadyHealthNamesSource`, `PublishRefines` | `TypeOK`, `ReadIsPublished`, `HealthNamesSource`, `PublishIsAtomic` |
| `SnapshotPagingProofs`: `PagingInvHolds`, `PagingTypeCorrect`, `PagesAreOneSnapshot`, `TouchedSnapshotStays`, `TouchedSlotStays` | `PagingInv`, `PagingTypeOK`, `PagesFromOneSnapshot`, `TouchedCursorIsRetained`, its first half |
| `SnapshotStreamProofs`: `StreamInvHolds`, `StreamTypeCorrect`, `DownloadIsAtomic`, `CompleteStreamIsAccepted`, `StreamsKeepStorePromises`, `StreamsKeepPublishAtomic` | `StreamInv`, `StreamTypeOK`, `AcceptedIsCaptured`, `RejectedWasCut`, the store's `TypeOK`, `ReadIsPublished`, `HealthNamesSource`, `PublishIsAtomic` |
| `AltClientProofs`: `ClientInvHolds`, `ClientTypeCorrect`, `HandoffLosesNothing`, `GetIsCurrent`, `ReadyIsFollowed`, `ClientRefinesServedLedger`, `PromisedIsFetchable` | `ClientInv`, `TypeOK`, `ServesBetween`, `GetIsNotStale`, `ReadyMeansFollowing`, `ImplementsServedLedger`, that what `ServedLedger` promises is `Fetchable` |

*StateUpdaterProofs.*
`InvHolds`: `Spec => []Inv`. `NewestWins` alone is not inductive: whether an applied
mutation is the newest of its key depends on what was staged before it. `Inv`
adds what `queue` guarantees: the version map covers every logged write
(`VersionsCoverLog`), a slot's staged writes of a key stand in version order
(`StagedInOrder`), and visible writes of a key are older than staged ones
(`ShownBeforeStaged`), next to bookkeeping (`BaseIsFetched`, `StagedIsLogged`).
`LastMutationIsLast` says which mutation the closed form picks; `ApplyIsView`, the
heart, derives from it that applying up to a slot yields the view of all accepted
writes up to it. `ConfirmSlot` and `Finish` are both instances (`ApplyKeepsInv`);
`QueueStages` shows that staging changes nothing visible. From `Inv`:
`TypeCorrect`, `NewestWriteWins`, `NothingUnconfirmedIsVisible`,
`CompleteSlotsArePublished`, `ReplayLeavesTheStore`, and `Refinement`: initial
states map to initial states of `ConfirmedView` and every step to a step or a
stutter. `LoopsApplyPending` shows that the closed form is what the loops of
`apply_pending_through` compute: `MutationsInOrder` for the mutations of a slot,
`SlotsInOrder` for the slots. An induction theorem
is out of reach, so each takes the least place at which the two could differ.

*UpdaterServiceProofs.* `ServesTheLedger` says nothing of where an update is while
it is not yet served, so it is far from inductive. `ServiceInv` follows the active
source's session from the chain to the store:

- `SessionsInOrder`: what the channel and the buffer hold tells of the chain what
  the source would (`FromChain`), the events of a session stand in the order in
  which they were sent up to the next `Disconnected` (`Cut`), and a source the
  updater counts as connected has either not failed since or has its
  `Disconnected` on the way.
- `Ordered(u, buf)`: what a state has still to take, first from a buffer and then
  from the channel (`Coming`), is newer than what it has taken. Without it the
  version check of `queue` could refuse an update that is needed.
- `Complete(x, u, buf)`: before each confirmation stands every write of the slots
  above `x` that it will show, staged, buffered or earlier in the channel; and
  every write the source has sent of its session is in one of these places. This
  is "no update is lost between the fetch's context slot and the first event".
  `x` is the confirmed slot of a state, and during a fetch its `minContextSlot` or
  what the servers had streamed when it began (`floor`).
- `FromSession(u)`: the served accounts are the ledger's as of the confirmed slot,
  and a staged write is that of a slot still to be confirmed.
- `Overtakes` and `TakesOver`: the replacement of a refresh will have confirmed
  what the serving state has, and will have what that state has staged. They give
  `ServedSlotMonotone` and `RefreshKeepsStaged`.
- `PhasesInOrder`: what each phase has (a fresh object only while replaying,
  readiness only while serving, an empty buffer between recoveries).

`Complete` and `TakesOver` are claimed only when the RPC is not behind, the rest of
any RPC; so are the theorems. `EventTaken` is the heart: a state that can take a
sequence of events takes its first and can take the others. The
replay loops, serving and the end of a recovery are instances of it
(`ReplayEventInv`, `ServedEvent`, `RecoveryFinished`); `Taken` is its counterpart for
an event that goes from the channel to a buffer, `FetchedState` for a fetch. There is a lemma per action, and `NextInv` collects them.

`ServiceRefinesServedLedger` takes `ServiceInv`, the theorems above and that the
ledger records what it has confirmed (`RecordedStep`). `StoreWriters` lists which
actions write the store and how (`ReceiveWrites`, `ReplayEndPublishes`, the rest
only invalidate); `WriterContractKept` is that list with `NewerIsPublished`. A step
that publishes is a `Serve` by `ServedIsPromised` (from `ServesTheLedger`) and, for
what may not go back, the contract and the ledger itself; `PublishServes` puts
them together. `ServedStaysPromised` adds that a confirmed slot of the ledger is
never rewritten.

*AltClientProofs.* `ClientInv` does the same for the client, whose updates carry no
version it compares: a write is in the stream, the buffer, the staged updates or
the map (`NothingLost`), the later places hold the older writes (`WritesInOrder`,
`StreamInOrder`), slots ascend along the way (`SlotsInOrder`), and a replay that
has reached a slot has staged its writes (`ReplayIsComplete`). `ReaderIsCurrent`
carries what a reader has read across the steps in which recovery replaces map,
slot and flag: every map it may still be looking into is at least as new as the
slot it read. `GetIsNotStale` alone does not survive the step that loads the map.

`ClientRefinesServedLedger` asks more of the invariant than the readers' theorems
did: that exact servers leave the map at one slot per table (`OnTrack`) and that
no session begins at slot 0 (`SlotsInOrder`). `ReadySteps` says what can change
while the client is ready, a table being applied (`UpdateAdvances`) or the
confirmed slot; `ServesAnew` covers the recovery, whose first view follows none.

*SnapshotPagingProofs.* `PagesFromOneSnapshot` is kept by a next page only if what
is retained under the cursor's slot is what the first page was cut from;
`OneSnapshotPerSlot` says so, for every retained slot, the served snapshot and
every client that still has a cursor. That needs `~ MayRegress`, which the
two theorems state as their hypothesis: `PagingRegress` is the counterexample
without it. `TouchedSlotStays` needs no hypothesis.

*SnapshotStoreProofs.* `ReadIsPublished` and `HealthNamesSource` need what the
order of stores in `publish` gives: wherever the flag is up, about to go up or
has been seen up by a reader, a snapshot has been published, and a source named.
`PublishRefines` maps the writer's progress to the record `AltState` works on
(`Record`: the snapshot and the source that are being published count as published):
the first of the three stores is its `Publish`, the other two are stutters.

*SnapshotStreamProofs.* `AcceptedIsCaptured` and `RejectedWasCut` for every set
of tables, chunk size, large account and channel capacity, with the store's
writer interleaved. `StreamInv` adds that every chunk is a part of the captured
snapshot (`Sound`) and that, unless the stream is cut, each entry is received, in
the channel, in the chunk or still to be visited, and a task that has ended has
sent something (`Lossless`). `SendChunkFacts` says what sending preserves;
`CountSuffices` is why comparing counts is enough: a part of a finite snapshot as
large as the whole is the whole. `StreamsKeepStorePromises` and
`StreamsKeepPublishAtomic` extend the theorems about the store to its use by streams. Assumed: finitely many tables, positive
chunk size and capacity.

Only model-checked:

- `CatchesUp`, of the service and of the client, `DownloadTerminates` and
  `FetchEnds`: liveness under fairness is out of the prover's reach.
- `FetchTypeOK` and `FetchedIsFetchable`: the fetcher's loop is small, and the
  three slots and tables exercise every order of pages.
- The five violations, each a counterexample to a wider claim than the theorems
  make: `RefreshNeverLoses` (an RPC that is behind), `ServedIsInstalled`,
  `PagesFromOneSnapshot` with `MayRegress`, `HandoffHasNoGap` (a server that is
  behind), `SessionEndsByFault`.

## Not modelled, and the plan

Not modelled:

- An RPC whose pagination keys never run out: `fetch_full_alt_state` follows it for
  ever, and no document says otherwise.
- Alerts: a bounded queue with `try_send` and a rate limit, best effort by
  design; no document promises that one arrives.
- `getProgramAccounts` beyond its capture: it is `read_snapshot` and encoding.
- Logging, byte-level encoding and decoding, configuration parsing, generated
  code; memory growth of the retained snapshots.
- Of the client: Yellowstone pings, the 15 s idle timeout as a clock (it is a
  stream failure that may happen at any time), the checks on its URLs.

What the composition leaves informal: that `AltClient`'s servers are the service is
shown by what they may return (`PromisedIsFetchable`), not by one module that runs
both; such a module would have a state space of both and add no shared variable.
Liveness across the two rests on the fairness stated for each.
