------------------------------ MODULE AltClient ------------------------------
(***************************************************************************)
(* AltCache of client.rs: the map that a program using the library reads,  *)
(* the background task that keeps it current from one Yellowstone stream   *)
(* at a time, and its recovery from the snapshot servers.  Outside the     *)
(* program: the chain, the Yellowstone servers, and the snapshot servers,  *)
(* which are assumed to serve what ServesTheLedger says of the service.    *)
(*                                                                         *)
(* A snapshot server that is not behind is assumed to have the slot at     *)
(* which the new stream begins and the slot that the client was shown by   *)
(* an earlier one.  Nothing in client.rs checks either; HandoffHasNoGap is *)
(* what becomes of the first without the assumption.                       *)
(*                                                                         *)
(* Readers on other threads share the map, the flag and the slot with the  *)
(* task without a lock.  So an action of the task makes one change that a  *)
(* reader can see; what it does unseen between two such changes or awaits  *)
(* belongs to it.                                                          *)
(***************************************************************************)
EXTENDS Integers, FiniteSetsExt, SequencesExt

CONSTANTS
  Key, NoAccount, MaxSlot,  \* of Chain
  Malformed,       \* the table of an update that does not decode
  SourceCount,     \* the number of Yellowstone sources
  ServerCount,     \* the number of snapshot servers
  BufferCapacity,  \* UPDATE_BUFFER_CAPACITY
  Servers,         \* the kinds of snapshot servers considered
  MaxFaults        \* bound: faults of the environment

ASSUME CountAssumption ==
  /\ {MaxSlot, SourceCount, ServerCount, BufferCapacity} \subseteq Nat \ {0}
  /\ MaxFaults \in Nat
ASSUME ServersAssumption == Servers \subseteq {"exact", "paged", "behind"}
ASSUME TableAssumption == NoAccount \notin Nat /\ Malformed \notin Nat \cup {NoAccount}

VARIABLES
  ledger, tip,    \* of Chain
  servers,        \* the snapshot servers: exact; with tables newer than their
                  \* slot; or exact and possibly behind the stream or the client
  stream,         \* what the Yellowstone server has sent in this session
  overtaken,      \* a confirmation has overtaken a write of its slot
  faults,         \* the faults so far
  phase,          \* where connect, or then the background task, is
  held,           \* connect has returned, and the AltCache is not dropped
  attempt,        \* establish_session: the source, the sources tried, the
                  \* snapshot server, the least slot it can answer with, and
                  \* the updates buffered during the fetch
  session,        \* the Session
  confirming,     \* the slot that confirm is applying, or 0
  inner,          \* Inner: what readers see
  reader          \* a thread that calls confirmed_slot() and then get()

INSTANCE Chain

chain == <<ledger, tip, servers>>
net == <<stream, overtaken, faults>>
task == <<phase, held, attempt, session, confirming>>
vars == <<chain, net, task, inner, reader>>

-----------------------------------------------------------------------------
(* States and messages                                                     *)

Slot == 0 .. MaxSlot
Tables == [Key -> Contents]
NoTables == [k \in Key |-> NoAccount]

Updates == [key: Key, slot: Slot, table: Contents \cup {Malformed}]

(* BufferedEvent                                                           *)
StreamEvents ==
  [type: {"Account"}, update: Updates] \cup [type: {"ConfirmedSlot"}, slot: Slot]

Sessions ==
  [ bootstrapSlot: Slot,
    confirmedSlot: Slot,
    tables:        Tables,
    pending:       [Slot -> Seq(Updates)] ]

NewSession(f) ==
  [ bootstrapSlot |-> f.slot,
    confirmedSlot |-> f.slot,
    tables        |-> f.tables,
    pending       |-> [s \in Slot |-> << >>] ]

NoSession == NewSession([slot |-> 0, tables |-> NoTables])

(* The server has confirmed every slot up to `at', still owes the writes   *)
(* `owed' of that slot, and has sent the writes `sent' of the next.        *)
Streams == [at: Slot, owed: SUBSET Key, sent: SUBSET Key]
NoStream == [at |-> 0, owed |-> {}, sent |-> {}]

(* The attempt with one source, after `offset' others.                     *)
Attempts ==
  [ source:   0 .. SourceCount - 1,
    offset:   0 .. SourceCount - 1,
    server:   0 .. ServerCount - 1,
    floor:    Slot,
    buffered: Seq(StreamEvents) ]

Attempt(source, offset) ==
  [source |-> source, offset |-> offset, server |-> 0, floor |-> 0, buffered |-> << >>]

(* Before connect returns, and after the last handle is dropped.           *)
NoInner == [tables |-> NoTables, ready |-> FALSE, confirmedSlot |-> 0]

Idle == [step |-> "idle"]

(* A reader that has loaded the map keeps it when recovery replaces it.    *)
Readers ==
  {Idle}
    \cup [step: {"slot", "checked"}, slot: Slot]
    \cup [step: {"loaded"}, slot: Slot, replaced: SUBSET Tables]
    \cup [step: {"done"}, slot: Slot, key: Key, table: Contents]

Phases == {"idle", "connect", "bootstrap", "replay", "tables", "slot", "ready", "follow", "delay"}

Init ==
  /\ ChainInit
  /\ servers \in Servers
  /\ stream = NoStream
  /\ overtaken = FALSE
  /\ faults = 0
  /\ phase = "idle"
  /\ held = FALSE
  /\ attempt = Attempt(0, 0)
  /\ session = NoSession
  /\ confirming = 0
  /\ inner = NoInner
  /\ reader = Idle

Fault ==
  /\ faults < MaxFaults
  /\ faults' = faults + 1

-----------------------------------------------------------------------------
(* The environment                                                         *)

ConfirmBlock ==
  /\ ConfirmSlot
  /\ UNCHANGED <<servers, net, task, inner, reader>>

AccountOf(k, s, table) == [type |-> "Account", update |-> [key |-> k, slot |-> s, table |-> table]]
ConfirmedOf(s) == [type |-> "ConfirmedSlot", slot |-> s]

(* What the stream may yield next, and the stream after it: by contract    *)
(* the writes of a slot, in any order, and then its confirmation; against  *)
(* it a write that does not decode, or a confirmation that overtakes some  *)
(* of its slot's writes, which then follow.                                *)
Offer(e, s, f) == [event |-> e, stream |-> s, fault |-> f]

OwedOffers ==
  { Offer(AccountOf(k, stream.at, ledger[stream.at][k]), [stream EXCEPT !.owed = @ \ {k}], "none") :
      k \in stream.owed }

SlotOffers ==
  LET next == stream.at + 1
      unsent == Changed(next) \ stream.sent
      Sent(k) == [stream EXCEPT !.sent = @ \cup {k}]
  IN  { Offer(AccountOf(k, next, ledger[next][k]), Sent(k), "none") : k \in unsent }
        \cup { Offer(AccountOf(k, next, Malformed), Sent(k), "malformed") : k \in unsent }
        \cup { Offer(ConfirmedOf(next),
                     [at |-> next, owed |-> unsent, sent |-> {}],
                     IF unsent = {} THEN "none" ELSE "overtaken") }

Offers ==
  IF stream.owed # {} THEN OwedOffers ELSE IF stream.at < tip THEN SlotOffers ELSE {}

Receive(o) ==
  /\ stream' = o.stream
  /\ overtaken' = (overtaken \/ o.fault = "overtaken")
  /\ \/ o.fault = "none" /\ UNCHANGED faults
     \/ o.fault # "none" /\ Fault
  /\ UNCHANGED <<chain, reader>>

(* What a snapshot server may return: its served slot and tables.          *)
PageSlots(c) == c .. (IF servers = "paged" THEN tip ELSE c)

Fetchable ==
  { f \in [slot: attempt.floor .. tip, tables: Tables] : AsOf(f.tables, PageSlots(f.slot)) }

-----------------------------------------------------------------------------
(* Queueing and applying updates                                           *)

(* queue_update, when it accepts.                                          *)
Queued(s, u) ==
  IF u.slot < s.bootstrapSlot
  THEN s
  ELSE [s EXCEPT !.pending[u.slot] = Append(@, u)]

(* Mutant: a late update is never refused.                                 *)
NeverRefused(s, u) == FALSE

(* queue_update, when it errs outside recovery: the slot is confirmed.     *)
Refused(s, u) == u.slot >= s.bootstrapSlot /\ u.slot <= s.confirmedSlot

(* The slot that apply_pending_through is working through: the one being   *)
(* confirmed, or at the end of the replay the session's confirmed one.     *)
Through ==
  IF confirming = 0 /\ phase = "replay" /\ attempt.buffered = << >>
  THEN session.confirmedSlot
  ELSE confirming

Due == { s \in 1 .. Through : session.pending[s] # << >> }

(* The updates of the oldest due slot, in the order of their arrival.      *)
NextUpdate == Head(session.pending[Min(Due)])

-----------------------------------------------------------------------------
(* connect, and establish_session with its rotation over the sources       *)

(* Mutant: the source index does not wrap around.                          *)
NextSourceUnwrapped == attempt.source + 1

(* After the last source comes the first.                                  *)
NextSource == (attempt.source + 1) % SourceCount

(* Mutant: the task ends when recovery fails.                              *)
GivesUp == "idle"

(* All sources failed: connect returns the error; the background task      *)
(* waits and tries again, each time from the same source.                  *)
AfterLastSource == IF held THEN "delay" ELSE "idle"

(* A source failed: the next one is tried, if there is another.            *)
SourceFailed ==
  /\ LET another == attempt.offset + 1 < SourceCount
     IN  /\ phase' = IF another THEN "connect" ELSE AfterLastSource
         /\ attempt' = Attempt(NextSource, IF another THEN attempt.offset + 1 ELSE 0)
  /\ session' = NoSession
  /\ confirming' = 0
  /\ UNCHANGED <<held, inner>>

Connect ==
  /\ phase = "idle"
  /\ phase' = "connect"
  /\ UNCHANGED <<chain, net, held, attempt, session, confirming, inner, reader>>

(* A stream that starts with what follows some slot p; then the request    *)
(* for a snapshot.  That the server has slot p and the slot the client has *)
(* shown to its readers, unless it is behind, is assumed of the server:    *)
(* the request names no slot and the answer is compared with none.         *)
Subscribe ==
  /\ phase = "connect"
  /\ \E p \in 1 .. tip :
       /\ stream' = [at |-> p, owed |-> {}, sent |-> {}]
       /\ attempt' = [attempt EXCEPT
            !.floor = IF servers = "behind" THEN 1 ELSE Max({p, inner.confirmedSlot})]
  /\ phase' = "bootstrap"
  /\ UNCHANGED <<chain, overtaken, faults, held, session, confirming, inner, reader>>

SubscribeFails ==
  /\ phase = "connect"
  /\ Fault
  /\ SourceFailed
  /\ UNCHANGED <<chain, stream, overtaken, reader>>

BootstrapReceives(o) ==
  /\ phase = "bootstrap"
  /\ Receive(o)
  /\ \/ /\ Len(attempt.buffered) >= BufferCapacity
        /\ SourceFailed
     \/ /\ Len(attempt.buffered) < BufferCapacity
        /\ attempt' = [attempt EXCEPT !.buffered = Append(@, o.event)]
        /\ UNCHANGED <<phase, held, session, confirming, inner>>

(* The stream closes or errs, or a ping cannot be answered.                *)
BootstrapStreamFails ==
  /\ phase = "bootstrap"
  /\ Fault
  /\ SourceFailed
  /\ UNCHANGED <<chain, stream, overtaken, reader>>

(* fetch_snapshot_from_any: the servers in configuration order.            *)
SnapshotFails ==
  /\ phase = "bootstrap"
  /\ Fault
  /\ \/ /\ attempt.server + 1 < ServerCount
        /\ attempt' = [attempt EXCEPT !.server = @ + 1]
        /\ UNCHANGED <<phase, held, session, confirming, inner>>
     \/ /\ attempt.server + 1 = ServerCount
        /\ SourceFailed
  /\ UNCHANGED <<chain, stream, overtaken, reader>>

SnapshotFetched(f) ==
  /\ phase = "bootstrap"
  /\ session' = NewSession(f)
  /\ phase' = "replay"
  /\ attempt' = [attempt EXCEPT !.floor = 0, !.server = 0]
  /\ UNCHANGED <<chain, net, held, confirming, inner, reader>>

ReplayEvent ==
  /\ phase = "replay"
  /\ confirming = 0
  /\ attempt.buffered # << >>
  /\ LET e == Head(attempt.buffered)
     IN  \/ /\ e.type = "Account"
            /\ session' = Queued(session, e.update)
            /\ UNCHANGED confirming
         \/ /\ e.type = "ConfirmedSlot"
            /\ confirming' = IF e.slot > session.confirmedSlot THEN e.slot ELSE 0
            /\ UNCHANGED session
  /\ attempt' = [attempt EXCEPT !.buffered = Tail(@)]
  /\ UNCHANGED <<chain, net, phase, held, inner, reader>>

-----------------------------------------------------------------------------
(* follow                                                                  *)

(* Mutant: a failed session leaves the cache ready.                        *)
NotReadyForgotten == UNCHANGED inner

NotReady == inner' = [inner EXCEPT !.ready = FALSE]

(* follow returned an error: not ready, and recovery with the next source  *)
(* after the delay.                                                        *)
FollowFailed ==
  /\ NotReady
  /\ phase' = "delay"
  /\ attempt' = Attempt(NextSource, 0)
  /\ session' = NoSession
  /\ confirming' = 0
  /\ UNCHANGED held

FollowReceives(o) ==
  /\ phase = "follow"
  /\ confirming = 0
  /\ Receive(o)
  /\ LET e == o.event
     IN  \/ /\ e.type = "Account"
            /\ Refused(session, e.update)
            /\ FollowFailed
         \/ /\ e.type = "Account"
            /\ ~ Refused(session, e.update)
            /\ session' = Queued(session, e.update)
            /\ UNCHANGED <<phase, held, attempt, confirming, inner>>
         \/ /\ e.type = "ConfirmedSlot"
            /\ confirming' = IF e.slot > session.confirmedSlot THEN e.slot ELSE 0
            /\ UNCHANGED <<phase, held, attempt, session, inner>>

(* The stream closes, errs or is silent too long, or a ping cannot be      *)
(* answered.                                                               *)
FollowStreamFails ==
  /\ phase = "follow"
  /\ confirming = 0
  /\ Fault
  /\ FollowFailed
  /\ UNCHANGED <<chain, stream, overtaken, reader>>

DelayEnds ==
  /\ phase = "delay"
  /\ phase' = "connect"
  /\ UNCHANGED <<chain, net, held, attempt, session, confirming, inner, reader>>

-----------------------------------------------------------------------------
(* apply_pending_through, update by update: while following, the session's *)
(* map is the one that readers see.                                        *)

ApplyUpdate ==
  /\ phase \in {"replay", "follow"}
  /\ Due # {}
  /\ NextUpdate.table # Malformed
  /\ session' = [session EXCEPT !.tables[NextUpdate.key] = NextUpdate.table,
                                !.pending[Min(Due)] = Tail(@)]
  /\ inner' = IF phase = "follow" THEN [inner EXCEPT !.tables = session'.tables] ELSE inner
  /\ UNCHANGED <<chain, net, phase, held, attempt, confirming, reader>>

ApplyMalformed ==
  /\ Due # {}
  /\ NextUpdate.table = Malformed
  /\ \/ phase = "replay" /\ SourceFailed
     \/ phase = "follow" /\ FollowFailed
  /\ UNCHANGED <<chain, net, reader>>

(* Mutant: the slot is published before its updates are applied.           *)
SlotAppliedEarly == confirming # 0

(* confirm has applied everything through the slot.                        *)
SlotApplied == confirming # 0 /\ Due = {}

ConfirmEnds ==
  /\ SlotApplied
  /\ session' = [session EXCEPT !.confirmedSlot = confirming]
  /\ confirming' = 0
  /\ inner' = IF phase = "follow" THEN [inner EXCEPT !.confirmedSlot = confirming] ELSE inner
  /\ UNCHANGED <<chain, net, phase, held, attempt, reader>>

(* The session stands: connect returns it, or the task publishes it.       *)
Established ==
  /\ phase = "replay"
  /\ confirming = 0
  /\ attempt.buffered = << >>
  /\ Due = {}
  /\ attempt' = Attempt(attempt.source, 0)
  /\ \/ /\ ~ held
        /\ held' = TRUE
        /\ phase' = "follow"
        /\ inner' = [tables |-> session.tables, ready |-> TRUE, confirmedSlot |-> session.confirmedSlot]
     \/ /\ held
        /\ phase' = "tables"
        /\ UNCHANGED <<held, inner>>
  /\ UNCHANGED <<chain, net, session, confirming, reader>>

StoreTables ==
  /\ phase = "tables"
  /\ inner' = [inner EXCEPT !.tables = session.tables]
  /\ reader' = IF reader.step = "loaded" /\ reader.replaced = {}
               THEN [reader EXCEPT !.replaced = {inner.tables}]
               ELSE reader
  /\ phase' = "slot"
  /\ UNCHANGED <<chain, net, held, attempt, session, confirming>>

StoreSlot ==
  /\ phase = "slot"
  /\ inner' = [inner EXCEPT !.confirmedSlot = session.confirmedSlot]
  /\ phase' = "ready"
  /\ UNCHANGED <<chain, net, held, attempt, session, confirming, reader>>

StoreReady ==
  /\ phase = "ready"
  /\ inner' = [inner EXCEPT !.ready = TRUE]
  /\ phase' = "follow"
  /\ UNCHANGED <<chain, net, held, attempt, session, confirming, reader>>

-----------------------------------------------------------------------------
(* The using program                                                       *)

ReadConfirmedSlot ==
  /\ held
  /\ reader.step = "idle"
  /\ reader' = [step |-> "slot", slot |-> inner.confirmedSlot]

(* get: the flag, the map, the entry; an error when not ready.             *)
GetChecksReady ==
  /\ reader.step = "slot"
  /\ reader' = IF inner.ready THEN [reader EXCEPT !.step = "checked"] ELSE Idle

GetLoadsMap ==
  /\ reader.step = "checked"
  /\ reader' = [step |-> "loaded", slot |-> reader.slot, replaced |-> {}]

GetLooksUp(k) ==
  /\ reader.step = "loaded"
  /\ \E map \in (IF reader.replaced = {} THEN {inner.tables} ELSE reader.replaced) :
       reader' = [step |-> "done", slot |-> reader.slot, key |-> k, table |-> map[k]]

GetReturns ==
  /\ reader.step = "done"
  /\ reader' = Idle

ReaderStep ==
  /\ ReadConfirmedSlot \/ GetChecksReady \/ GetLoadsMap \/ (\E k \in Key : GetLooksUp(k)) \/ GetReturns
  /\ UNCHANGED <<chain, net, task, inner>>

(* The last handle is dropped: the task is cancelled and aborted.  What it *)
(* does up to its next await is seen by nobody.                            *)
Drop ==
  /\ held
  /\ reader.step = "idle"
  /\ Fault
  /\ phase' = "idle"
  /\ held' = FALSE
  /\ attempt' = Attempt(0, 0)
  /\ session' = NoSession
  /\ confirming' = 0
  /\ inner' = NoInner
  /\ UNCHANGED <<chain, stream, overtaken, reader>>

-----------------------------------------------------------------------------
Fetch == \E f \in Fetchable : SnapshotFetched(f)

Follow == \E o \in Offers : FollowReceives(o)

TaskStep ==
  \/ DelayEnds
  \/ Subscribe
  \/ ReplayEvent
  \/ ApplyUpdate
  \/ ApplyMalformed
  \/ ConfirmEnds
  \/ Established
  \/ StoreTables
  \/ StoreSlot
  \/ StoreReady

Next ==
  \/ ConfirmBlock
  \/ Connect
  \/ TaskStep
  \/ SubscribeFails
  \/ \E o \in Offers : BootstrapReceives(o)
  \/ BootstrapStreamFails
  \/ Fetch
  \/ SnapshotFails
  \/ Follow
  \/ FollowStreamFails
  \/ ReaderStep
  \/ Drop

Spec == Init /\ [][Next]_vars

(***************************************************************************)
(* Fairness.  The task runs when it can.  A snapshot stream ends, and not  *)
(* every time only after the buffer has filled; the code has no timeout    *)
(* for it, so this is asked of the servers.  What the stream has to yield  *)
(* arrives, and not every stream starts behind the snapshot servers: each  *)
(* that does may cost its session (SessionEndsByFault).  Nothing is        *)
(* assumed of the chain, of the readers, or of the program that connects   *)
(* and drops.                                                              *)
(***************************************************************************)
FairSpec ==
  /\ Spec
  /\ WF_vars(TaskStep)
  /\ SF_vars(Subscribe /\ stream'.at = tip)
  /\ SF_vars(Fetch)
  /\ WF_vars(Follow)

-----------------------------------------------------------------------------
(* Properties                                                              *)

(* The types of the variables.                                             *)
TypeOK ==
  /\ ledger \in [Slot -> Tables]
  /\ tip \in Slot
  /\ servers \in Servers
  /\ stream \in Streams
  /\ overtaken \in BOOLEAN
  /\ faults \in 0 .. MaxFaults
  /\ phase \in Phases
  /\ held \in BOOLEAN
  /\ attempt \in Attempts /\ Len(attempt.buffered) <= BufferCapacity
  /\ session \in Sessions
  /\ confirming \in Slot
  /\ inner \in [tables: Tables, ready: BOOLEAN, confirmedSlot: Slot]
  /\ reader \in Readers

(* A ready cache whose stream owes nothing holds each table as of a slot   *)
(* between the published slot and the one being applied (with servers that *)
(* give newer tables: the tip): the handoff from snapshot to stream loses  *)
(* no update, none is shown before its slot is confirmed, and a write that *)
(* its slot's confirmation overtook ends the session or is recovered.      *)
ServesBetween ==
  inner.ready /\ servers # "behind" /\ stream.owed = {} =>
    LET last == IF servers = "paged" THEN tip ELSE Max({inner.confirmedSlot, confirming})
    IN  AsOf(inner.tables, inner.confirmedSlot .. last)

(* A table that get returns is at least as new as the slot that the caller *)
(* read before, whatever confirmation, failure and recovery happened       *)
(* between get's check of the flag and its look into the map.              *)
GetIsNotStale ==
  reader.step = "done" /\ servers # "behind" /\ ~ overtaken =>
    \E d \in reader.slot .. tip : reader.table = ledger[d][reader.key]

(* Ready means that the task follows a stream, under the session's slot.   *)
ReadyMeansFollowing ==
  inner.ready =>
    /\ phase = "follow"
    /\ inner.tables = session.tables
    /\ inner.confirmedSlot = session.confirmedSlot

(* What get can find, as long as streams keep their order and the snapshot *)
(* servers are not behind.                                                 *)
Served ==
  IF inner.ready /\ ~ overtaken /\ servers # "behind"
  THEN [ slot   |-> inner.confirmedSlot,
         until  |-> IF servers = "paged" THEN MaxSlot ELSE Max({inner.confirmedSlot, confirming}),
         tables |-> inner.tables ]
  ELSE [none |-> TRUE]

View == INSTANCE ServedLedger WITH mixed <- servers = "paged", served <- Served

(* The client keeps what a copy of the ledger promises, as the service it  *)
(* copies does: from one update, confirmation and recovery to the next     *)
(* neither its slot nor, with exact servers, any table goes back while it  *)
(* is ready.                                                               *)
ImplementsServedLedger == View!Spec

(* Once the faults are used up and the chain rests, a cache that is kept   *)
(* is ready at the last slot for good: recovery ends, and no retry or      *)
(* rotation leaves it waiting.                                             *)
CatchesUp == <>[](tip = MaxSlot /\ held) => <>[](inner.ready /\ inner.confirmedSlot = tip)

(* A session that stands ends only if something failed: a stream that      *)
(* keeps its contract is followed.                                         *)
SessionEndsByFault == [][ phase = "follow" /\ phase' = "delay" => faults' > 0 ]_vars

(* The handoff from snapshot to stream has no gap: a ready cache holds     *)
(* each table as of its slot or a later one, whichever server answered.    *)
HandoffHasNoGap == inner.ready => AsOf(inner.tables, inner.confirmedSlot .. tip)
=============================================================================
