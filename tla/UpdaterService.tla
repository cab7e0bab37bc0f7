--------------------------- MODULE UpdaterService ---------------------------
(***************************************************************************)
(* The state updater thread of updater.rs together with what feeds it: one *)
(* thread per Yellowstone source (yellowstone.rs), the bounded channel     *)
(* between them (main.rs), and, outside the program, the chain, the        *)
(* Yellowstone servers and the bootstrap RPC.                              *)
(*                                                                         *)
(* An action of the updater is what it does between two awaits: receiving  *)
(* one event, a fetch that ends, a timer.  Replaying the buffered events   *)
(* is one action per event, as the loop does it.                           *)
(*                                                                         *)
(* Two validators never assign the same write version.                     *)
(***************************************************************************)
EXTENDS AltState, SequencesExt

CONSTANTS
  SourceCount,     \* the number of configured gRPC sources
  StreamCapacity,  \* stream_capacity: the channel and both update buffers
  Rpc,             \* the kinds of bootstrap RPC considered
  MaxFaults        \* bound: faults of the environment

ASSUME SourceAssumption == SourceCount \in Nat \ {0} /\ Source = 0 .. SourceCount - 1
ASSUME CapacityAssumption == StreamCapacity \in Nat \ {0}
ASSUME RpcAssumption == Rpc \subseteq {"level", "paged", "lagging"}
ASSUME MaxFaultsAssumption == MaxFaults \in Nat
ASSUME FirstSlotAssumption == MaxSlot > 0
ASSUME ContentAssumption == Slot \ {0} \subseteq Account
ASSUME WriteVersionAssumption == 1 .. SourceCount \subseteq Version

VARIABLES
  ledger,      \* chain: the accounts as of each confirmed slot
  tip,         \* chain: the newest confirmed slot
  rpc,         \* the bootstrap RPC: level with the servers and one slot per
               \* fetch; level, with pages of different slots; or that and
               \* possibly behind the servers
  delivered,   \* the newest slot any Yellowstone server has streamed from
  link,        \* per source: the state of its session
  events,      \* the channel from the sources to the updater
  phase,       \* where the updater thread is
  active,      \* active_source
  connected,   \* connected_sources
  updater,     \* the serving StateUpdater
  fresh,       \* the StateUpdater being replayed into, if any
  store,       \* the Store
  refreshing,  \* a background refresh is in progress
  buffered,    \* the buffered events of the bootstrap or of the refresh
  floor,       \* the least context slot the fetch in flight can return
  stop,        \* the cancellation token
  faults       \* the faults so far

INSTANCE Chain

chain == <<ledger, tip, rpc>>
feed == <<link, events, delivered>>
place == <<phase, active, connected>>
states == <<updater, fresh, store>>
refresh == <<refreshing, buffered, floor>>
service == <<place, states, refresh>>
vars == <<chain, feed, service, stop, faults>>

-----------------------------------------------------------------------------
(* States and messages                                                     *)

(* A source thread: between sessions, about to announce the session it has *)
(* opened, streaming, about to report a failure, or ended.  The server has *)
(* sent every confirmed slot up to `at' and, of the next, the keys `sent'. *)
Links ==
  [ status: {"down", "greet", "stream", "fail", "ended"},
    at:     Slot,
    sent:   SUBSET Key ]

Down == [status |-> "down", at |-> 0, sent |-> {}]

StateEvents ==
  [type: {"Account"}, write: Write] \cup [type: {"ConfirmedSlot"}, slot: Slot]

Events ==
  [source: Source, type: {"Connected", "Disconnected", "Malformed"}]
    \cup [source: Source, type: {"Account"}, write: Write]
    \cup [source: Source, type: {"ConfirmedSlot"}, slot: Slot]

Phases == {"wait", "bootstrap", "sleep", "replay", "serve", "install", "stopped", "exited"}

Running == phase \notin {"stopped", "exited"}

(* decode_account_update, and the ConfirmedSlot events built in place.     *)
Decoded(e) ==
  IF e.type = "Account"
  THEN [type |-> "Account", write |-> e.write]
  ELSE [type |-> "ConfirmedSlot", slot |-> e.slot]

ApplyStateEvent(e, u) ==
  IF e.type = "Account" THEN Queue(u, e.write) ELSE Confirm(u, e.slot)

ApplyStateEventStore(e, u, st) ==
  IF e.type = "Account" THEN st ELSE ConfirmStore(u, st, e.slot)

(* Mutant: the index does not wrap around.                                 *)
NextConnectedUnwrapped(a, conn) ==
  IF conn = {}
  THEN a
  ELSE a + Min({ o \in 1 .. SourceCount : (a + o) % SourceCount \in conn })

(* select_next_yellowstone: the next connected source after the active one *)
(* in configuration order, which may be the active one; without any, the   *)
(* active one stays.                                                       *)
NextConnected(a, conn) ==
  IF conn = {}
  THEN a
  ELSE (a + Min({ o \in 1 .. SourceCount : (a + o) % SourceCount \in conn })) % SourceCount

Init ==
  /\ ChainInit
  /\ rpc \in Rpc
  /\ delivered = 0
  /\ link = [y \in Source |-> Down]
  /\ events = << >>
  /\ phase = "wait"
  /\ active = 0
  /\ connected = {}
  /\ updater = NewUpdater
  /\ fresh = NewUpdater
  /\ store = NewStore
  /\ refreshing = FALSE
  /\ buffered = << >>
  /\ floor = 0
  /\ stop = FALSE
  /\ faults = 0

Fault ==
  /\ faults < MaxFaults
  /\ faults' = faults + 1

-----------------------------------------------------------------------------
ConfirmBlock ==
  /\ ConfirmSlot
  /\ UNCHANGED <<rpc, feed, service, stop, faults>>

-----------------------------------------------------------------------------
(* The source threads                                                      *)

Send(e) ==
  /\ Len(events) < StreamCapacity
  /\ events' = Append(events, e)

Deliver(s) == delivered' = Max({delivered, s})

(* connect and subscribe: the server streams what follows some slot p.     *)
Subscribe(y) ==
  /\ Running /\ ~ stop
  /\ link[y].status = "down"
  /\ \E p \in 1 .. tip :
       /\ link' = [link EXCEPT ![y] = [status |-> "greet", at |-> p, sent |-> {}]]
       /\ Deliver(p)
  /\ UNCHANGED <<chain, events, service, stop, faults>>

SubscribeFails(y) ==
  /\ Running /\ ~ stop
  /\ link[y].status = "down"
  /\ Fault
  /\ link' = [link EXCEPT ![y].status = "fail"]
  /\ UNCHANGED <<chain, events, delivered, service, stop>>

SendConnected(y) ==
  /\ Running
  /\ link[y].status = "greet"
  /\ Send([source |-> y, type |-> "Connected"])
  /\ link' = [link EXCEPT ![y].status = "stream"]
  /\ UNCHANGED <<chain, delivered, service, stop, faults>>

(* The server's contract: the writes of a slot precede its confirmation.   *)
SendAccount(y, k) ==
  /\ Running
  /\ link[y].status = "stream"
  /\ link[y].at < tip
  /\ k \in Changed(link[y].at + 1) \ link[y].sent
  /\ LET s == link[y].at + 1
         w == [key |-> k, slot |-> s, version |-> y + 1, account |-> ledger[s][k]]
     IN  Send([source |-> y, type |-> "Account", write |-> w])
  /\ link' = [link EXCEPT ![y].sent = @ \cup {k}]
  /\ Deliver(link[y].at + 1)
  /\ UNCHANGED <<chain, service, stop, faults>>

SendConfirmedSlot(y) ==
  /\ Running
  /\ link[y].status = "stream"
  /\ link[y].at < tip
  /\ Changed(link[y].at + 1) = link[y].sent
  /\ Send([source |-> y, type |-> "ConfirmedSlot", slot |-> link[y].at + 1])
  /\ link' = [link EXCEPT ![y].at = @ + 1, ![y].sent = {}]
  /\ Deliver(link[y].at + 1)
  /\ UNCHANGED <<chain, service, stop, faults>>

(* An account update that decode_account_update will refuse.               *)
SendMalformed(y) ==
  /\ Running
  /\ link[y].status = "stream"
  /\ Fault
  /\ Send([source |-> y, type |-> "Malformed"])
  /\ UNCHANGED <<chain, link, delivered, service, stop>>

(* The stream ends, errs or stays idle too long.                           *)
StreamFails(y) ==
  /\ Running
  /\ link[y].status = "stream"
  /\ Fault
  /\ link' = [link EXCEPT ![y] = [status |-> "fail", at |-> 0, sent |-> {}]]
  /\ UNCHANGED <<chain, events, delivered, service, stop>>

SendDisconnected(y) ==
  /\ Running
  /\ link[y].status = "fail"
  /\ Send([source |-> y, type |-> "Disconnected"])
  /\ link' = [link EXCEPT ![y].status = "down"]
  /\ UNCHANGED <<chain, delivered, service, stop, faults>>

(* The thread notices the stop, except while it reports a failure.         *)
SourceStops(y) ==
  /\ Running /\ stop
  /\ link[y].status \in {"down", "greet", "stream"}
  /\ link' = [link EXCEPT ![y] = [status |-> "ended", at |-> 0, sent |-> {}]]
  /\ UNCHANGED <<chain, events, delivered, service, stop, faults>>

-----------------------------------------------------------------------------
(* The head of the loop in run: invalidate, keep the active source when it *)
(* is connected or take the next one, and wait for one or bootstrap.  The  *)
(* bootstrap's fetch starts here.                                          *)

FetchFloor(minimum) ==
  IF rpc = "lagging" THEN minimum ELSE Max({minimum, delivered})

(* Mutant: the buffer of the abandoned bootstrap survives.                 *)
OldBuffer == buffered

(* bootstrap_alt_state starts with an empty buffer.                        *)
NewBuffer == << >>

(* wait_for_active_yellowstone returns at once if the source is connected. *)
AfterSelection(a, conn) == IF a \in conn THEN "bootstrap" ELSE "wait"

LoopHead(act, conn) ==
  LET a == IF act \in conn THEN act ELSE NextConnected(act, conn)
  IN  /\ store' = Invalidate(store)
      /\ connected' = conn
      /\ active' = a
      /\ phase' = AfterSelection(a, conn)
      /\ floor' = IF a \in conn THEN FetchFloor(1) ELSE 0
      /\ buffered' = NewBuffer
      /\ refreshing' = FALSE
      /\ UNCHANGED <<updater, fresh>>

(* bootstrap_alt_state gives up: the loop ends or starts over.             *)
LeaveBootstrap(act, conn) ==
  \/ /\ stop
     /\ phase' = "stopped"
     /\ active' = act
     /\ connected' = conn
     /\ store' = Invalidate(store)
     /\ buffered' = << >>
     /\ UNCHANGED <<updater, fresh, refreshing, floor>>
  \/ /\ ~ stop
     /\ LoopHead(act, conn)

Exit ==
  /\ phase' = "exited"
  /\ UNCHANGED <<active, connected, states, refresh>>

Receive(e) ==
  /\ events # << >>
  /\ e = Head(events)
  /\ events' = Tail(events)
  /\ UNCHANGED <<chain, link, delivered, stop, faults>>

(* wait_for_active_yellowstone takes the first source that connects.       *)
WaitReceives(e) ==
  /\ phase = "wait"
  /\ Receive(e)
  /\ \/ /\ e.type = "Connected"
        /\ connected' = connected \cup {e.source}
        /\ active' = e.source
        /\ phase' = "bootstrap"
        /\ floor' = FetchFloor(1)
        /\ UNCHANGED <<states, refreshing, buffered>>
     \/ /\ e.type = "Disconnected"
        /\ connected' = connected \ {e.source}
        /\ UNCHANGED <<phase, active, states, refresh>>
     \/ /\ e.type \in {"Account", "ConfirmedSlot", "Malformed"}
        /\ UNCHANGED service

(* bootstrap_alt_state buffers the active source's events; a full buffer   *)
(* ends the process.                                                       *)
BootstrapReceives(e) ==
  /\ phase = "bootstrap"
  /\ Receive(e)
  /\ \/ /\ e.type = "Connected"
        /\ connected' = connected \cup {e.source}
        /\ UNCHANGED <<phase, active, states, refresh>>
     \/ /\ e.type = "Disconnected" /\ e.source # active
        /\ connected' = connected \ {e.source}
        /\ UNCHANGED <<phase, active, states, refresh>>
     \/ /\ e.type = "Disconnected" /\ e.source = active
        /\ LET conn == connected \ {e.source}
           IN  LeaveBootstrap(NextConnected(active, conn), conn)
     \/ /\ e.type \in {"Account", "ConfirmedSlot", "Malformed"} /\ e.source # active
        /\ UNCHANGED service
     \/ /\ e.type \in {"Account", "ConfirmedSlot", "Malformed"} /\ e.source = active
        /\ Len(buffered) >= StreamCapacity
        /\ Exit
     \/ /\ e.type \in {"Account", "ConfirmedSlot"} /\ e.source = active
        /\ Len(buffered) < StreamCapacity
        /\ buffered' = Append(buffered, Decoded(e))
        /\ UNCHANGED <<place, states, refreshing, floor>>
     \/ /\ e.type = "Malformed" /\ e.source = active
        /\ Len(buffered) < StreamCapacity
        /\ LeaveBootstrap(NextConnected(active, connected), connected)

-----------------------------------------------------------------------------
(* What fetch_full_alt_state returns; AltFetch has the loop that leads to  *)
(* it.  The context slot c is that of the first page, and the other pages  *)
(* are never from an earlier slot.                                         *)
PageSlots(c) == c .. (IF rpc = "level" THEN c ELSE tip)

Fetchable ==
  { f \in FetchedAltStates :
      /\ f.slot \in floor .. tip
      /\ AsOf(f.accounts, PageSlots(f.slot)) }

BootstrapFetched(f) ==
  /\ phase = "bootstrap"
  /\ fresh' = FromFetchedAltState(active, f)
  /\ phase' = "replay"
  /\ UNCHANGED <<chain, feed, active, connected, updater, store, refresh, stop, faults>>

BootstrapFetchFails ==
  /\ phase = "bootstrap"
  /\ Fault
  /\ phase' = "sleep"
  /\ buffered' = << >>
  /\ UNCHANGED <<chain, feed, active, connected, states, refreshing, floor, stop>>

(* The two seconds before the retry.                                       *)
SleepEnds ==
  /\ phase = "sleep"
  /\ LeaveBootstrap(active, connected)
  /\ UNCHANGED <<chain, feed, stop, faults>>

(* The replay loops of bootstrap_alt_state and install_refreshed_alt_state. *)
ReplayEvent ==
  /\ phase \in {"replay", "install"}
  /\ buffered # << >>
  /\ fresh' = ApplyStateEvent(Head(buffered), fresh)
  /\ store' = ApplyStateEventStore(Head(buffered), fresh, store)
  /\ buffered' = Tail(buffered)
  /\ UNCHANGED <<chain, feed, place, updater, refreshing, floor, stop, faults>>

(* Mutant: the replay ends before the buffer is empty.                     *)
ReplayedInPart == TRUE

Replayed == buffered = << >>

ReplayEnds ==
  /\ phase \in {"replay", "install"}
  /\ Replayed
  /\ updater' = FinishRecovery(fresh)
  /\ store' = FinishRecoveryStore(fresh, store)
  /\ fresh' = NewUpdater
  /\ phase' = "serve"
  /\ floor' = 0
  /\ UNCHANGED <<chain, feed, active, connected, refreshing, buffered, stop, faults>>

-----------------------------------------------------------------------------
(* serve_alt_state                                                         *)

(* Mutant: the refresh is requested without minContextSlot.                *)
NoMinimum == 1

(* minContextSlot of a refresh.                                            *)
RefreshMinimum == updater.confirmedSlot

RefreshDue ==
  /\ phase = "serve"
  /\ ~ refreshing
  /\ refreshing' = TRUE
  /\ floor' = FetchFloor(RefreshMinimum)
  /\ buffered' = << >>
  /\ UNCHANGED <<chain, feed, place, states, stop, faults>>

RefreshFetched(f) ==
  /\ phase = "serve"
  /\ refreshing
  /\ refreshing' = FALSE
  /\ fresh' = FromFetchedAltState(active, f)
  /\ phase' = "install"
  /\ UNCHANGED <<chain, feed, active, connected, updater, store, buffered, floor, stop, faults>>

EndRefresh ==
  /\ refreshing' = FALSE
  /\ buffered' = << >>
  /\ floor' = 0

(* An RPC error, a timeout, or a context slot below minContextSlot.        *)
RefreshFails ==
  /\ phase = "serve"
  /\ refreshing
  /\ Fault
  /\ EndRefresh
  /\ UNCHANGED <<chain, feed, place, states, stop>>

(* Mutant: events are not kept for the replacement.                        *)
BufferRefreshEventDropped(e) == UNCHANGED refresh

(* buffer_refresh_event: a full buffer aborts the refresh.                 *)
BufferRefreshEvent(e) ==
  \/ /\ ~ refreshing
     /\ UNCHANGED refresh
  \/ /\ refreshing
     /\ Len(buffered) < StreamCapacity
     /\ buffered' = Append(buffered, e)
     /\ UNCHANGED <<refreshing, floor>>
  \/ /\ refreshing
     /\ Len(buffered) >= StreamCapacity
     /\ EndRefresh

ServeReceives(e) ==
  /\ phase = "serve"
  /\ Receive(e)
  /\ \/ /\ e.type = "Connected"
        /\ connected' = connected \cup {e.source}
        /\ UNCHANGED <<phase, active, states, refresh>>
     \/ /\ e.type = "Disconnected" /\ e.source # active
        /\ connected' = connected \ {e.source}
        /\ UNCHANGED <<phase, active, states, refresh>>
     \/ /\ e.type = "Disconnected" /\ e.source = active
        /\ LET conn == connected \ {e.source}
           IN  LoopHead(NextConnected(active, conn), conn)
     \/ /\ e.type \in {"Account", "ConfirmedSlot", "Malformed"} /\ e.source # active
        /\ UNCHANGED service
     \/ /\ e.type = "Malformed" /\ e.source = active
        /\ LoopHead(NextConnected(active, connected), connected)
     \/ /\ e.type \in {"Account", "ConfirmedSlot"} /\ e.source = active
        /\ updater' = ApplyStateEvent(Decoded(e), updater)
        /\ store' = ApplyStateEventStore(Decoded(e), updater, store)
        /\ BufferRefreshEvent(Decoded(e))
        /\ UNCHANGED <<phase, active, connected, fresh>>

-----------------------------------------------------------------------------
(* Shutdown and restart                                                    *)

RequestStop ==
  /\ Running /\ ~ stop
  /\ Fault
  /\ stop' = TRUE
  /\ UNCHANGED <<chain, feed, service>>

UpdaterStops ==
  /\ stop
  /\ phase \in {"wait", "bootstrap", "serve"}
  /\ phase' = "stopped"
  /\ store' = Invalidate(store)
  /\ UNCHANGED <<chain, feed, active, connected, updater, fresh, refresh, stop, faults>>

(* All senders are gone and the channel is drained: recv returns None and  *)
(* the thread ends with an error, without the final invalidate.            *)
AllSourcesStopped ==
  /\ stop
  /\ phase \in {"wait", "bootstrap", "serve"}
  /\ events = << >>
  /\ \A y \in Source : link[y].status = "ended"
  /\ Exit
  /\ UNCHANGED <<chain, feed, stop, faults>>

(* The process is started again, by its supervisor after an error or by an *)
(* operator after a stop; all of its state is new.                         *)
ProcessStarts ==
  /\ ~ Running
  /\ link' = [y \in Source |-> Down]
  /\ events' = << >>
  /\ phase' = "wait"
  /\ active' = 0
  /\ connected' = {}
  /\ updater' = NewUpdater
  /\ fresh' = NewUpdater
  /\ store' = NewStore
  /\ refreshing' = FALSE
  /\ buffered' = << >>
  /\ floor' = 0
  /\ stop' = FALSE
  /\ UNCHANGED <<chain, delivered, faults>>

-----------------------------------------------------------------------------
SourceStep(y) ==
  \/ Subscribe(y)
  \/ SendConnected(y)
  \/ \E k \in Key : SendAccount(y, k)
  \/ SendConfirmedSlot(y)
  \/ SendDisconnected(y)

ReceiveStep ==
  \E e \in Range(events) : WaitReceives(e) \/ BootstrapReceives(e) \/ ServeReceives(e)

FetchStep ==
  \/ \E f \in Fetchable : BootstrapFetched(f)
  \/ \E f \in Fetchable : RefreshFetched(f)

LocalStep == SleepEnds \/ ReplayEvent \/ ReplayEnds

Next ==
  \/ ConfirmBlock
  \/ \E y \in Source :
       SourceStep(y) \/ SubscribeFails(y) \/ SendMalformed(y) \/ StreamFails(y) \/ SourceStops(y)
  \/ ReceiveStep
  \/ FetchStep
  \/ LocalStep
  \/ BootstrapFetchFails
  \/ RefreshDue
  \/ RefreshFails
  \/ RequestStop
  \/ UpdaterStops
  \/ AllSourcesStopped
  \/ ProcessStarts

Spec == Init /\ [][Next]_vars

(***************************************************************************)
(* Fairness.  A thread that can run does.  tokio::select! picks at random  *)
(* among its ready branches and the channel serves waiting senders in      *)
(* order, so a receive or a send that is possible again and again happens. *)
(* Fetches end (the client has a timeout).  The supervisor restarts a      *)
(* process that failed.  Nothing is assumed of the chain, of the refresh   *)
(* timer, of a stop or of a start after one.                               *)
(***************************************************************************)
FairSpec ==
  /\ Spec
  /\ \A y \in Source : SF_vars(SourceStep(y))
  /\ SF_vars(ReceiveStep)
  /\ WF_vars(FetchStep)
  /\ WF_vars(LocalStep)
  /\ WF_vars(~ stop /\ ProcessStarts)

-----------------------------------------------------------------------------
(* Properties                                                              *)

(* The types of the variables.                                             *)
TypeOK ==
  /\ ledger \in [Slot -> Accounts]
  /\ tip \in Slot
  /\ rpc \in Rpc
  /\ delivered \in Slot
  /\ link \in [Source -> Links]
  /\ events \in Seq(Events)
  /\ phase \in Phases
  /\ active \in Source
  /\ connected \subseteq Source
  /\ updater \in StateUpdaters
  /\ fresh \in StateUpdaters
  /\ store \in Stores
  /\ refreshing \in BOOLEAN
  /\ buffered \in Seq(StateEvents)
  /\ floor \in Slot
  /\ stop \in BOOLEAN
  /\ faults \in Nat

(* A ready cache serves the ledger as of the slot it reports, unless its   *)
(* RPC is behind the servers: bootstrap, replay, refresh and failover      *)
(* neither lose an update of the stream nor show one too early.  Of pages  *)
(* from different slots an account may be newer, never older.              *)
ServesTheLedger ==
  store.ready /\ rpc # "lagging" => AsOf(store.accounts, PageSlots(store.slot))

(* The cache is ready only while the updater serves from a source it knows *)
(* to be connected, under the slot its state has confirmed.                *)
ReadyMeansServing ==
  store.ready /\ phase # "exited" =>
    /\ phase \in {"serve", "install"}
    /\ active \in connected
    /\ store.source = active
    /\ store.slot = updater.confirmedSlot

(* While the cache stays ready its slot never goes back: a refresh, however *)
(* long its fetch took, never replaces newer state by older.               *)
ServedSlotMonotone ==
  [][ store.ready /\ store'.ready => store.slot <= store'.slot ]_vars

(* A state is built from the writes of one validator only: failover never  *)
(* mixes write versions of two sources.                                    *)
OneValidator ==
  /\ phase \in {"serve", "install"} =>
       \A k \in Key : updater.versions[k] = Unversioned \/ updater.versions[k].version = active + 1
  /\ \A i \in DOMAIN buffered :
       buffered[i].type = "Account" => buffered[i].write.version = active + 1

(* The replacement that a refresh installs was fetched at the slot of each *)
(* update that the replaced state had staged, or later, or has taken the   *)
(* update (or a newer one of the same table) from its own replay.          *)
StagedSurvives ==
  phase = "install" /\ phase' = "serve" =>
    \A s \in Slot : \A i \in DOMAIN updater.pending[s] :
      LET w == updater.pending[s][i]
      IN  s <= updater'.bootstrapSlot \/ ~ Older(updater'.versions[w.key], w)

(* A refresh loses no staged update when the RPC is not behind the servers. *)
RefreshKeepsStaged == [][ rpc # "lagging" => StagedSurvives ]_vars

(* The same of any RPC, as the documentation has it.                       *)
RefreshNeverLoses == [][ StagedSurvives ]_vars

(* What API threads can hand out, unless the RPC is behind the servers.    *)
Served ==
  IF store.ready /\ rpc # "lagging"
  THEN [ slot   |-> store.slot,
         until  |-> IF rpc = "level" THEN store.slot ELSE MaxSlot,
         tables |-> store.accounts ]
  ELSE [none |-> TRUE]

View == INSTANCE ServedLedger WITH mixed <- rpc # "level", served <- Served

(* The service keeps what a copy of the ledger promises: through bootstrap, *)
(* confirmations, refreshes, failovers and restarts, whatever is readable  *)
(* is of its slot or later, and nothing goes back while it stays readable. *)
ImplementsServedLedger == View!Spec

(* The Store as the API threads share it.                                  *)
Shared == INSTANCE SnapshotStore WITH
  current <- [slot |-> store.slot, accounts |-> store.accounts],
  ready <- store.ready, url <- store.source, writer <- "idle", MayRegress <- TRUE,
  reader <- 0, probe <- 0, health <- 0

(* All that the updater thread does to the Store is what the Store allows  *)
(* its writer: to invalidate, and to publish a real slot, never a lower    *)
(* one while ready, whichever recovery, refresh or event it comes from.    *)
KeepsWriterContract ==
  [][ \/ store' = Invalidate(store)
      \/ \E y \in Source, s \in Shared!Snapshots :
           Shared!MayPublish(s) /\ store' = Publish(store, y, s.slot, s.accounts)
      \/ ~ Running /\ store' = NewStore ]_store

(* What a ready cache serves is the state that recovery or the last        *)
(* refresh installed, with the updates confirmed since.                    *)
ServedIsInstalled ==
  store.ready /\ phase = "serve" => store.accounts = updater.accounts

(* Every bootstrap ends with a full buffer instead of a fetched state.     *)
(* Nothing in the code ends that: the error ends the process, and the next *)
(* one may meet a stream as fast and a fetch as slow.                      *)
OverflowsForever ==
  /\ <>[](phase \notin {"replay", "serve", "install"})
  /\ []<>(phase = "exited" /\ Len(buffered) >= StreamCapacity)

(* Once the environment's faults are used up and the chain rests, a        *)
(* service that is not stopped is ready at the last slot for good, however *)
(* often a buffer overflowed or the process was restarted before; unless   *)
(* from then on its bootstrap never ends but by an overflow.  There is no  *)
(* lost wake-up, and no refresh or failover that ends in an unready or     *)
(* outdated cache.                                                         *)
CatchesUp ==
  <>[](tip = MaxSlot /\ ~ stop) =>
    <>[](store.ready /\ store.slot = tip) \/ OverflowsForever
=============================================================================
