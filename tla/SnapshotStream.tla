--------------------------- MODULE SnapshotStream ---------------------------
(***************************************************************************)
(* A snapshot on its way from the Store to a client: stream_snapshot of    *)
(* grpc.rs captures it and a spawned task sends it in chunks through a     *)
(* bounded channel; fetch_snapshot of client.rs reads the stream and       *)
(* accepts it if it is complete.  Meanwhile the store publishes and        *)
(* invalidates.  In place of its encoded length, a chunk is full when it   *)
(* holds ChunkAccounts accounts or a large one.                            *)
(***************************************************************************)
EXTENDS SnapshotStore, Sequences

CONSTANTS
  ChunkAccounts,   \* TARGET_CHUNK_BYTES, in accounts
  Large,           \* the keys whose account fills a chunk
  ChannelCapacity  \* CHUNK_CHANNEL_CAPACITY

ASSUME KeyAssumption == Key \subseteq Nat /\ IsFiniteSet(Key)
ASSUME ChunkAssumption == {ChunkAccounts, ChannelCapacity} \subseteq Nat \ {0}

VARIABLES
  stream,    \* the spawned task: whether it runs, its snapshot, the keys it
             \* has yet to visit and the chunk it fills
  channel,   \* the chunks sent and not yet received
  download   \* the client: whether it runs, and its SnapshotDownload

transfer == <<stream, channel, download>>
streamVars == <<vars, transfer>>

(* What is taken of a snapshot's accounts, as a set of pairs.              *)
Entries == SUBSET (Key \X Account)
EntriesOf(snapshot, keys) == { <<k, snapshot.accounts[k]>> : k \in keys }

KeysOf(snapshot) == { k \in Key : snapshot.accounts[k] # NoAccount }
AllEntries(snapshot) == EntriesOf(snapshot, KeysOf(snapshot))
AccountCount(snapshot) == Cardinality(AllEntries(snapshot))

Chunks == [confirmedSlot: Slot, totalAccounts: Nat, accounts: Entries]

Streams ==
  [status: {"none", "open", "ended", "cut"}, snapshot: Snapshots, left: SUBSET Key, chunk: Entries]

(* slot and total_accounts are set by the first chunk.                     *)
Downloads ==
  [ status: {"none", "open", "accepted", "rejected"},
    slot:   {-1} \cup Slot,
    total:  Int,
    tables: Entries ]

NoDownload == [status |-> "none", slot |-> -1, total |-> -1, tables |-> {}]

NoStream == [status |-> "none", snapshot |-> Empty, left |-> {}, chunk |-> {}]

StreamInit ==
  /\ Init
  /\ stream = NoStream
  /\ channel = << >>
  /\ download = NoDownload

-----------------------------------------------------------------------------
(* stream_snapshot                                                         *)

StreamStarts ==
  /\ download.status = "none"
  /\ reader.snapshot # None
  /\ stream' = [ status   |-> "open",
                 snapshot |-> reader.snapshot,
                 left     |-> KeysOf(reader.snapshot),
                 chunk    |-> {} ]
  /\ channel' = << >>
  /\ download' = [NoDownload EXCEPT !.status = "open"]
  /\ reader' = [reader EXCEPT !.snapshot = None]
  /\ UNCHANGED <<store, probe, health>>

Full(chunk) ==
  Cardinality(chunk) >= ChunkAccounts \/ \E entry \in chunk : entry[1] \in Large

(* Mutant: one chunk more than the channel holds.                          *)
HasRoomForOneMore == Len(channel) <= ChannelCapacity

HasRoom == Len(channel) < ChannelCapacity

SendChunk ==
  /\ HasRoom
  /\ channel' = Append(channel, [ confirmedSlot |-> stream.snapshot.slot,
                                  totalAccounts |-> AccountCount(stream.snapshot),
                                  accounts      |-> stream.chunk ])

(* The next account in the map's order is pushed.                          *)
PushAccount ==
  /\ stream.status = "open"
  /\ ~ Full(stream.chunk)
  /\ \E k \in stream.left :
       /\ \A j \in stream.left : k <= j
       /\ stream' = [stream EXCEPT !.left = @ \ {k},
                                   !.chunk = @ \cup EntriesOf(stream.snapshot, {k})]
  /\ UNCHANGED <<vars, channel, download>>

SendFullChunk ==
  /\ stream.status = "open"
  /\ Full(stream.chunk)
  /\ SendChunk
  /\ stream' = [stream EXCEPT !.chunk = {}]
  /\ UNCHANGED <<vars, download>>

(* Mutant: nothing is sent for an empty snapshot.                          *)
SkipsEmptyChunk == stream.chunk # {}

(* The last chunk is sent unless the one before it was exactly the last.   *)
HasLastChunk == stream.chunk # {} \/ AccountCount(stream.snapshot) = 0

StreamEnds ==
  /\ stream.status = "open"
  /\ stream.left = {}
  /\ ~ Full(stream.chunk)
  /\ \/ HasLastChunk /\ SendChunk
     \/ ~ HasLastChunk /\ UNCHANGED channel
  /\ stream' = [stream EXCEPT !.status = "ended", !.chunk = {}]
  /\ UNCHANGED <<vars, download>>

(* The task is dropped with the server's runtime, or panics: what is in    *)
(* the channel is still delivered, and the stream then ends.               *)
StreamIsCut ==
  /\ stream.status = "open"
  /\ stream' = [stream EXCEPT !.status = "cut"]
  /\ UNCHANGED <<vars, channel, download>>

-----------------------------------------------------------------------------
(* fetch_snapshot                                                          *)

Collected(d, chunk) == d.tables \cup chunk.accounts

(* SnapshotDownload::push                                                  *)
ReceiveChunk ==
  /\ download.status = "open"
  /\ channel # << >>
  /\ LET chunk == Head(channel)
         slot == IF download.slot = -1 THEN chunk.confirmedSlot ELSE download.slot
         total == IF download.total = -1 THEN chunk.totalAccounts ELSE download.total
         same == chunk.confirmedSlot = slot /\ chunk.totalAccounts = total
     IN  download' = [ status |-> IF same THEN "open" ELSE "rejected",
                       slot   |-> slot,
                       total  |-> total,
                       tables |-> IF same THEN Collected(download, chunk) ELSE download.tables ]
  /\ channel' = Tail(channel)
  /\ UNCHANGED <<vars, stream>>

(* Mutant: a stream with at least one chunk is complete.                   *)
AnyChunk(d) == d.slot # -1

(* SnapshotDownload::finish                                                *)
Complete(d) == d.slot # -1 /\ Cardinality(d.tables) = d.total

(* Mutant: the task does not drop its sender when it is done.              *)
SenderKept == stream.status = "cut"

SenderDropped == stream.status \in {"ended", "cut"}

DownloadEnds ==
  /\ download.status = "open"
  /\ channel = << >>
  /\ SenderDropped
  /\ download' = [download EXCEPT !.status = IF Complete(download) THEN "accepted" ELSE "rejected"]
  /\ UNCHANGED <<vars, stream, channel>>

(* The transport errs, or the client gives the session up; the receiver is *)
(* dropped, and the task returns at its next send.                         *)
DownloadFails ==
  /\ download.status = "open"
  /\ download' = NoDownload
  /\ stream' = NoStream
  /\ channel' = << >>
  /\ UNCHANGED vars

(* The client goes on with the result, and may ask again later.            *)
DownloadReturns ==
  /\ download.status \in {"accepted", "rejected"}
  /\ download' = NoDownload
  /\ stream' = NoStream
  /\ UNCHANGED <<vars, channel>>

-----------------------------------------------------------------------------
StreamStep ==
  \/ PushAccount
  \/ SendFullChunk
  \/ StreamEnds
  \/ ReceiveChunk
  \/ DownloadEnds

(* The other requests and getHealth share nothing with a download but the  *)
(* store, which they only read: they are left to the time between two      *)
(* downloads.                                                              *)
StreamNext ==
  \/ download.status = "none" /\ Next /\ UNCHANGED transfer
  \/ download.status # "none" /\ WriterStep /\ UNCHANGED <<readers, transfer>>
  \/ StreamStarts
  \/ StreamStep
  \/ StreamIsCut
  \/ DownloadFails
  \/ DownloadReturns

(* The runtimes poll their tasks, and what is sent arrives.                *)
StreamSpec == StreamInit /\ [][StreamNext]_streamVars /\ WF_streamVars(StreamStep)

-----------------------------------------------------------------------------
(* Properties                                                              *)

(* The types of the variables of this module.                              *)
StreamTypeOK ==
  /\ stream \in Streams
  /\ channel \in Seq(Chunks) /\ Len(channel) <= ChannelCapacity
  /\ download \in Downloads

(* A download that the client accepts is the snapshot that the request     *)
(* captured, whole: no cut stream, chunk boundary or concurrent            *)
(* publication makes it accept a part or a mixture.                        *)
AcceptedIsCaptured ==
  download.status = "accepted" =>
    /\ download.slot = stream.snapshot.slot
    /\ download.tables = AllEntries(stream.snapshot)

(* Only a cut stream is rejected: a snapshot of any size, the empty one    *)
(* included, gets through.                                                 *)
RejectedWasCut == download.status = "rejected" => stream.status = "cut"

(* A download that is under way ends: the bounded channel never leaves the *)
(* task and the client waiting for each other.                             *)
DownloadTerminates == download.status = "open" ~> download.status # "open"
-----------------------------------------------------------------------------
(* The inductive strengthening.  Every chunk is a part of the captured     *)
(* snapshot; unless the stream is cut, each entry of the snapshot is       *)
(* received, in the channel, in the chunk or yet to be visited; and a task *)
(* that has ended has sent something.                                      *)
PartOf(entries) == entries \subseteq AllEntries(stream.snapshot)

InChannel(entry) == \E i \in 1 .. Len(channel) : entry \in channel[i].accounts

Sound ==
  /\ PartOf(stream.chunk)
  /\ PartOf(download.tables)
  /\ stream.left \subseteq KeysOf(stream.snapshot)
  /\ \A i \in 1 .. Len(channel) :
       /\ channel[i].confirmedSlot = stream.snapshot.slot
       /\ channel[i].totalAccounts = AccountCount(stream.snapshot)
       /\ PartOf(channel[i].accounts)
  /\ \/ download.slot = stream.snapshot.slot /\ download.total = AccountCount(stream.snapshot)
     \/ download.slot = -1 /\ download.total = -1 /\ download.tables = {}

Lossless ==
  stream.status # "cut" =>
    /\ \A entry \in AllEntries(stream.snapshot) :
         \/ entry \in download.tables \cup stream.chunk
         \/ entry[1] \in stream.left
         \/ InChannel(entry)
    /\ stream.status = "ended" =>
         /\ stream.left = {} /\ stream.chunk = {}
         /\ channel # << >> \/ download.slot # -1

StreamInv ==
  /\ StreamTypeOK
  /\ download.status # "none" => Sound
  /\ download.status = "open" => stream.status # "none" /\ Lossless
  /\ stream.status = "open" => download.status = "open"
  /\ AcceptedIsCaptured
  /\ RejectedWasCut
=============================================================================
