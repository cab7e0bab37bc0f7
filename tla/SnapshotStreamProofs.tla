------------------------ MODULE SnapshotStreamProofs ------------------------
(***************************************************************************)
(* What a client may accept of a snapshot stream, for every set of tables, *)
(* every chunk size and every channel capacity; and that the invariant of  *)
(* the store survives its use by streams.                                  *)
(***************************************************************************)
EXTENDS SnapshotStream, SnapshotStoreProofs, FiniteSetTheorems

(* A snapshot has finitely many entries, since it has one per key.         *)
LEMMA AllEntriesFinite ==
  ASSUME NEW s \in Snapshots
  PROVE  /\ IsFiniteSet(AllEntries(s))
         /\ AccountCount(s) \in Nat
         /\ AllEntries(s) \subseteq Key \X Account
<1> DEFINE key == [entry \in AllEntries(s) |-> entry[1]]
<1>1. key \in Injection(AllEntries(s), Key)
  BY DEF AllEntries, EntriesOf, KeysOf, Injection, IsInjective
<1>2. IsFiniteSet(AllEntries(s))
  BY <1>1, KeyAssumption, FS_Injection
<1>3. AllEntries(s) \subseteq Key \X Account
  BY DEF AllEntries, EntriesOf, KeysOf, Snapshots
<1> QED BY <1>2, <1>3, FS_CardinalityType DEF AccountCount

(* A download with as many tables as the snapshot has is the snapshot.     *)
LEMMA CountSuffices ==
  ASSUME NEW s \in Snapshots, NEW tables \in SUBSET AllEntries(s)
  PROVE  /\ Cardinality(tables) \in Nat
         /\ Cardinality(tables) = AccountCount(s) => tables = AllEntries(s)
<1>1. IsFiniteSet(AllEntries(s))
  BY AllEntriesFinite
<1> QED BY <1>1, FS_Subset, FS_CardinalityType DEF AccountCount

(* Nothing has been streamed by a new server.                              *)
LEMMA StreamInitInv == StreamInit => StreamInv
<1> SUFFICES ASSUME StreamInit PROVE StreamInv
  OBVIOUS
<1>1. Empty \in Snapshots
  BY SlotAssumption DEF Empty, Snapshots, Slot
<1> QED BY <1>1, ChunkAssumption
     DEF StreamInit, NoStream, NoDownload, StreamInv, StreamTypeOK, Streams, Downloads,
         Entries, AcceptedIsCaptured, RejectedWasCut

(* StreamInv speaks only of the transfer.                                  *)
LEMMA StoreStepInv ==
  ASSUME StreamInv, UNCHANGED transfer
  PROVE  StreamInv'
BY DEF transfer, StreamInv, StreamTypeOK, Sound, Lossless, PartOf, InChannel,
       AcceptedIsCaptured, RejectedWasCut

(* A stream starts with all of the captured snapshot yet to be visited.    *)
LEMMA StreamStartsInv ==
  ASSUME Inv, StreamInv, StreamStarts
  PROVE  StreamInv'
<1>1. reader.snapshot \in Snapshots
  BY DEF Inv, TypeOK, StreamStarts
<1>2. stream' = [ status   |-> "open",
                  snapshot |-> reader.snapshot,
                  left     |-> KeysOf(reader.snapshot),
                  chunk    |-> {} ]
  BY DEF StreamStarts
<1>3. channel' = << >> /\ download' = [status |-> "open", slot |-> -1, total |-> -1, tables |-> {}]
  BY DEF StreamStarts, NoDownload
<1>4. StreamTypeOK'
  BY <1>1, <1>2, <1>3, ChunkAssumption
     DEF StreamTypeOK, Streams, Downloads, Entries, KeysOf
<1>5. Sound'
  BY <1>2, <1>3 DEF Sound, PartOf
<1>6. Lossless'
  BY <1>2, <1>3 DEF Lossless, AllEntries, EntriesOf
<1> QED BY <1>2, <1>3, <1>4, <1>5, <1>6 DEF StreamInv, AcceptedIsCaptured, RejectedWasCut

(* What the invariant says while a download is under way.                  *)
LEMMA OpenFacts ==
  ASSUME StreamInv, download.status = "open"
  PROVE  /\ StreamTypeOK /\ Sound /\ Lossless
         /\ stream.status \in {"open", "ended", "cut"}
         /\ stream.snapshot \in Snapshots
BY DEF StreamInv, StreamTypeOK, Streams

(* Pushing an account moves its entry from the keys left to the chunk.     *)
LEMMA PushAccountInv ==
  ASSUME StreamInv, download.status = "open", PushAccount
  PROVE  StreamInv'
<1> USE OpenFacts
<1>1. PICK k \in stream.left :
        stream' = [stream EXCEPT !.left = @ \ {k},
                                 !.chunk = @ \cup EntriesOf(stream.snapshot, {k})]
  BY DEF PushAccount
<1>2. UNCHANGED <<channel, download>> /\ stream.status = "open"
  BY DEF PushAccount
<1>3. stream \in Streams /\ stream.left \subseteq KeysOf(stream.snapshot)
  BY DEF StreamTypeOK, Sound
<1>4. EntriesOf(stream.snapshot, {k}) \subseteq AllEntries(stream.snapshot)
  BY <1>3 DEF AllEntries, EntriesOf
<1>5. /\ stream'.status = "open"
      /\ stream'.snapshot = stream.snapshot
      /\ stream'.left = stream.left \ {k}
      /\ stream'.chunk = stream.chunk \cup EntriesOf(stream.snapshot, {k})
  BY <1>1, <1>2, <1>3 DEF Streams
<1>6. StreamTypeOK'
  <2>1. EntriesOf(stream.snapshot, {k}) \in Entries
    BY <1>4, AllEntriesFinite DEF Entries
  <2> QED BY <1>1, <1>2, <1>3, <2>1 DEF StreamTypeOK, Streams, Entries
<1>7. Sound'
  BY <1>2, <1>4, <1>5 DEF Sound, PartOf
<1>8. Lossless'
  <2> SUFFICES ASSUME NEW entry \in AllEntries(stream.snapshot),
                      entry \notin download.tables \cup stream.chunk,
                      ~ InChannel(entry)
               PROVE  entry \in EntriesOf(stream.snapshot, {k}) \/ entry[1] \in stream.left \ {k}
    BY <1>2, <1>5 DEF Lossless, InChannel
  <2>1. entry[1] \in stream.left
    BY <1>2 DEF Lossless
  <2> QED BY <2>1 DEF AllEntries, EntriesOf
<1> QED BY <1>2, <1>5, <1>6, <1>7, <1>8 DEF StreamInv, AcceptedIsCaptured, RejectedWasCut

(* The chunk moves to the channel: each entry is found there afterwards,   *)
(* and everything in the channel is still a part of the snapshot.          *)
LEMMA SendChunkFacts ==
  ASSUME StreamInv, download.status = "open", SendChunk
  PROVE  /\ channel' \in Seq(Chunks) /\ Len(channel') <= ChannelCapacity
         /\ channel' # << >>
         /\ \A i \in 1 .. Len(channel') :
              /\ channel'[i].confirmedSlot = stream.snapshot.slot
              /\ channel'[i].totalAccounts = AccountCount(stream.snapshot)
              /\ PartOf(channel'[i].accounts)
         /\ \A entry \in stream.chunk : \E i \in 1 .. Len(channel') : entry \in channel'[i].accounts
         /\ \A entry : InChannel(entry) => \E i \in 1 .. Len(channel') : entry \in channel'[i].accounts
<1> DEFINE chunk == [ confirmedSlot |-> stream.snapshot.slot,
                      totalAccounts |-> AccountCount(stream.snapshot),
                      accounts      |-> stream.chunk ]
<1> USE OpenFacts
<1>1. channel' = Append(channel, chunk) /\ Len(channel) < ChannelCapacity
  BY DEF SendChunk, HasRoom
<1>2. chunk \in Chunks
  BY AllEntriesFinite DEF Chunks, StreamTypeOK, Streams, Snapshots
<1>3. channel \in Seq(Chunks)
  BY DEF StreamTypeOK
<1> HIDE DEF chunk
<1>4. /\ channel' \in Seq(Chunks)
      /\ Len(channel') = Len(channel) + 1
      /\ channel'[Len(channel) + 1] = chunk
      /\ \A i \in 1 .. Len(channel) : channel'[i] = channel[i]
      /\ Len(channel) \in Nat
  BY <1>1, <1>2, <1>3
<1>5. /\ chunk.confirmedSlot = stream.snapshot.slot
      /\ chunk.totalAccounts = AccountCount(stream.snapshot)
      /\ chunk.accounts = stream.chunk
  BY DEF chunk
<1>6. PartOf(stream.chunk)
  BY DEF Sound
<1>7. \A i \in 1 .. Len(channel') : i \in 1 .. Len(channel) \/ channel'[i] = chunk
  BY <1>4
<1>8. Len(channel') <= ChannelCapacity /\ channel' # << >>
  BY <1>1, <1>4, ChunkAssumption
<1>9. \A i \in 1 .. Len(channel') :
        /\ channel'[i].confirmedSlot = stream.snapshot.slot
        /\ channel'[i].totalAccounts = AccountCount(stream.snapshot)
        /\ PartOf(channel'[i].accounts)
  BY <1>4, <1>5, <1>6, <1>7 DEF Sound
<1>10. \A entry \in stream.chunk : \E i \in 1 .. Len(channel') : entry \in channel'[i].accounts
  BY <1>4, <1>5
<1>11. \A entry : InChannel(entry) => \E i \in 1 .. Len(channel') : entry \in channel'[i].accounts
  BY <1>4 DEF InChannel
<1> QED BY <1>4, <1>8, <1>9, <1>10, <1>11

(* A full chunk that is sent is found in the channel.                      *)
LEMMA SendFullChunkInv ==
  ASSUME StreamInv, download.status = "open", SendFullChunk
  PROVE  StreamInv'
<1> USE OpenFacts
<1>1. SendChunk /\ download' = download /\ stream.status = "open" /\ stream \in Streams
  BY DEF SendFullChunk, StreamTypeOK
<1>2. /\ stream' \in Streams
      /\ stream'.status = "open"
      /\ stream'.snapshot = stream.snapshot
      /\ stream'.left = stream.left
      /\ stream'.chunk = {}
  BY <1>1 DEF SendFullChunk, Streams, Entries
<1>3. StreamTypeOK'
  BY <1>1, <1>2, SendChunkFacts DEF StreamTypeOK
<1>4. Sound'
  BY <1>1, <1>2, SendChunkFacts DEF Sound, PartOf
<1>5. Lossless'
  BY <1>1, <1>2, SendChunkFacts DEF Lossless, InChannel
<1> QED BY <1>1, <1>2, <1>3, <1>4, <1>5 DEF StreamInv, AcceptedIsCaptured, RejectedWasCut

(* A task that ends has sent its last entries, and at least one chunk.     *)
LEMMA StreamEndsInv ==
  ASSUME StreamInv, download.status = "open", StreamEnds
  PROVE  StreamInv'
<1> USE OpenFacts
<1>1. /\ stream \in Streams
      /\ stream.status = "open"
      /\ stream.left = {}
      /\ download' = download
  BY DEF StreamEnds, StreamTypeOK
<1>2. /\ stream' \in Streams
      /\ stream'.status = "ended"
      /\ stream'.snapshot = stream.snapshot
      /\ stream'.left = stream.left
      /\ stream'.chunk = {}
  BY <1>1 DEF StreamEnds, Streams, Entries
<1>3. CASE HasLastChunk /\ SendChunk
  <2>1. StreamTypeOK'
    BY <1>1, <1>2, <1>3, SendChunkFacts DEF StreamTypeOK
  <2>2. Sound'
    BY <1>1, <1>2, <1>3, SendChunkFacts DEF Sound, PartOf
  <2>3. Lossless'
    BY <1>1, <1>2, <1>3, SendChunkFacts DEF Lossless, InChannel
  <2> QED BY <1>1, <1>2, <2>1, <2>2, <2>3 DEF StreamInv, AcceptedIsCaptured, RejectedWasCut
<1>4. CASE ~ HasLastChunk /\ UNCHANGED channel
  <2>1. stream.chunk = {} /\ AccountCount(stream.snapshot) # 0
    BY <1>4 DEF HasLastChunk
  <2>2. PICK entry \in AllEntries(stream.snapshot) : TRUE
    BY <2>1, FS_EmptySet DEF AccountCount
  <2>3. channel # << >> \/ download.slot # -1
    <3>1. InChannel(entry) \/ entry \in download.tables
      BY <1>1, <2>1, <2>2 DEF Lossless
    <3>2. CASE InChannel(entry)
      BY <3>2 DEF InChannel
    <3>3. CASE entry \in download.tables
      <4>1. stream.snapshot.slot # -1
        BY SlotAssumption DEF Snapshots, Slot
      <4> QED BY <3>3, <4>1 DEF Sound
    <3> QED BY <3>1, <3>2, <3>3
  <2>4. StreamTypeOK'
    BY <1>1, <1>2, <1>4 DEF StreamTypeOK
  <2>5. Sound'
    BY <1>1, <1>2, <1>4 DEF Sound, PartOf
  <2>6. Lossless'
    BY <1>1, <1>2, <1>4, <2>1, <2>3 DEF Lossless, InChannel
  <2> QED BY <1>1, <1>2, <2>4, <2>5, <2>6 DEF StreamInv, AcceptedIsCaptured, RejectedWasCut
<1> QED BY <1>3, <1>4 DEF StreamEnds

(* A cut stream takes nothing back.                                        *)
LEMMA StreamIsCutInv ==
  ASSUME StreamInv, download.status = "open", StreamIsCut
  PROVE  StreamInv'
<1> USE OpenFacts
<1>1. /\ stream \in Streams
      /\ UNCHANGED <<channel, download>>
  BY DEF StreamIsCut, StreamTypeOK
<1>2. /\ stream' \in Streams
      /\ stream'.status = "cut"
      /\ stream'.snapshot = stream.snapshot
      /\ stream'.left = stream.left
      /\ stream'.chunk = stream.chunk
  BY <1>1 DEF StreamIsCut, Streams
<1> QED BY <1>1, <1>2
     DEF StreamInv, StreamTypeOK, Sound, PartOf, Lossless, AcceptedIsCaptured, RejectedWasCut

(* A received chunk agrees with the first and is collected whole.          *)
LEMMA ReceiveChunkInv ==
  ASSUME StreamInv, ReceiveChunk
  PROVE  StreamInv'
<1> DEFINE chunk == Head(channel)
<1>0. download.status = "open"
  BY DEF ReceiveChunk
<1> USE <1>0, OpenFacts
<1>1. /\ channel \in Seq(Chunks) /\ channel # << >>
      /\ channel' = Tail(channel)
      /\ stream' = stream
  BY DEF ReceiveChunk, StreamTypeOK
<1>2. /\ Len(channel) \in Nat \ {0}
      /\ chunk = channel[1]
      /\ channel' \in Seq(Chunks)
      /\ Len(channel') = Len(channel) - 1
      /\ \A i \in 1 .. Len(channel') : channel'[i] = channel[i + 1]
  BY <1>1
<1>3. /\ chunk.confirmedSlot = stream.snapshot.slot
      /\ chunk.totalAccounts = AccountCount(stream.snapshot)
      /\ PartOf(chunk.accounts)
  BY <1>2 DEF Sound
<1>4. /\ download \in Downloads
      /\ stream.snapshot.slot # -1
      /\ stream.snapshot.slot \in Slot
      /\ AccountCount(stream.snapshot) \in Nat
  BY AllEntriesFinite, SlotAssumption DEF StreamTypeOK, Snapshots, Slot
<1>5. download' = [ status |-> "open",
                    slot   |-> stream.snapshot.slot,
                    total  |-> AccountCount(stream.snapshot),
                    tables |-> download.tables \cup chunk.accounts ]
  <2>1. \/ download.slot = stream.snapshot.slot /\ download.total = AccountCount(stream.snapshot)
        \/ download.slot = -1 /\ download.total = -1
    BY DEF Sound
  <2> QED BY <1>3, <1>4, <2>1 DEF ReceiveChunk, Collected
<1> HIDE DEF chunk
<1>6. PartOf(download.tables \cup chunk.accounts)
  BY <1>3 DEF Sound, PartOf
<1>7. StreamTypeOK'
  <2>1. download.tables \cup chunk.accounts \in Entries
    BY <1>6, AllEntriesFinite DEF PartOf, Entries
  <2>2. download' \in Downloads
    BY <1>4, <1>5, <2>1 DEF Downloads
  <2>3. Len(channel') <= ChannelCapacity
    BY <1>2, ChunkAssumption DEF StreamTypeOK
  <2> QED BY <1>1, <1>2, <2>2, <2>3 DEF StreamTypeOK
<1>8. \A i \in 1 .. Len(channel') : i + 1 \in 1 .. Len(channel)
  BY <1>2
<1>9. Sound'
  BY <1>1, <1>2, <1>5, <1>6, <1>8 DEF Sound, PartOf
<1>10. Lossless'
  <2>1. ASSUME NEW entry, InChannel(entry)
        PROVE  entry \in chunk.accounts \/ InChannel(entry)'
    <3>1. PICK i \in 1 .. Len(channel) : entry \in channel[i].accounts
      BY <2>1 DEF InChannel
    <3>2. CASE i = 1
      BY <1>2, <3>1, <3>2
    <3>3. CASE i # 1
      <4>1. i - 1 \in 1 .. Len(channel') /\ channel'[i - 1] = channel[i]
        BY <1>2, <3>3
      <4> QED BY <3>1, <4>1 DEF InChannel
    <3> QED BY <3>2, <3>3
  <2>2. download'.tables = download.tables \cup chunk.accounts /\ download'.slot # -1
    BY <1>4, <1>5
  <2> QED BY <1>1, <2>1, <2>2 DEF Lossless
<1> QED BY <1>1, <1>5, <1>7, <1>9, <1>10 DEF StreamInv, AcceptedIsCaptured, RejectedWasCut

(* The count decides: it is reached only by the whole snapshot, and is     *)
(* reached unless the stream was cut.                                      *)
LEMMA DownloadEndsInv ==
  ASSUME StreamInv, DownloadEnds
  PROVE  StreamInv'
<1>0. download.status = "open"
  BY DEF DownloadEnds
<1> USE <1>0, OpenFacts
<1>1. /\ UNCHANGED <<stream, channel>>
      /\ channel = << >>
      /\ stream.status \in {"ended", "cut"}
      /\ download \in Downloads
  BY DEF DownloadEnds, SenderDropped, StreamTypeOK
<1>2. /\ download' \in Downloads
      /\ download'.status = IF Complete(download) THEN "accepted" ELSE "rejected"
      /\ download'.slot = download.slot
      /\ download'.total = download.total
      /\ download'.tables = download.tables
  BY <1>1 DEF DownloadEnds, Downloads
<1>3. download.tables \subseteq AllEntries(stream.snapshot)
  BY DEF Sound, PartOf
<1>4. AcceptedIsCaptured'
  <2> SUFFICES ASSUME Complete(download)
               PROVE  /\ download.slot = stream.snapshot.slot
                      /\ download.tables = AllEntries(stream.snapshot)
    BY <1>1, <1>2 DEF AcceptedIsCaptured
  <2>1. download.slot = stream.snapshot.slot /\ download.total = AccountCount(stream.snapshot)
    BY DEF Complete, Sound
  <2> QED BY <1>3, <2>1, CountSuffices DEF Complete
<1>5. RejectedWasCut'
  <2> SUFFICES ASSUME stream.status = "ended"
               PROVE  Complete(download)
    BY <1>1, <1>2 DEF RejectedWasCut
  <2>1. download.slot # -1
    BY <1>1 DEF Lossless
  <2>2. AllEntries(stream.snapshot) \subseteq download.tables
    <3>1. \A entry : ~ InChannel(entry)
      BY <1>1 DEF InChannel
    <3> QED BY <3>1 DEF Lossless
  <2>3. download.tables = AllEntries(stream.snapshot)
    BY <1>3, <2>2
  <2> QED BY <2>1, <2>3 DEF Complete, Sound, AccountCount
<1>6. Sound'
  BY <1>1, <1>2 DEF Sound, PartOf
<1> QED BY <1>1, <1>2, <1>4, <1>5, <1>6 DEF StreamInv, StreamTypeOK

(* Giving up and going on leave no transfer behind.                        *)
LEMMA NoTransferInv ==
  ASSUME StreamInv, download' = NoDownload, stream' = NoStream,
         channel' = << >> \/ channel' = channel
  PROVE  StreamInv'
<1>1. NoStream \in Streams
  BY SlotAssumption DEF NoStream, Streams, Snapshots, Empty, Slot, Entries
<1>2. NoDownload \in Downloads
  BY DEF NoDownload, Downloads, Entries
<1>3. StreamTypeOK'
  <2>1. Len(<< >>) = 0 /\ << >> \in Seq(Chunks)
    OBVIOUS
  <2>2. channel \in Seq(Chunks) /\ Len(channel) <= ChannelCapacity
    BY DEF StreamInv, StreamTypeOK
  <2>3. CASE channel' = channel
    BY <1>1, <1>2, <2>2, <2>3 DEF StreamTypeOK
  <2>4. CASE channel' = << >>
    <3>1. 0 <= ChannelCapacity
      BY ChunkAssumption
    <3>2. channel' \in Seq(Chunks) /\ Len(channel') = 0
      BY <2>1, <2>4
    <3> QED BY <1>1, <1>2, <3>1, <3>2 DEF StreamTypeOK
  <2> QED BY <2>3, <2>4
<1>4. download'.status = "none" /\ stream'.status = "none"
  BY DEF NoDownload, NoStream
<1> QED BY <1>3, <1>4 DEF StreamInv, AcceptedIsCaptured, RejectedWasCut

(* Each step of a program's threads or of the network keeps the invariant  *)
(* of the store and that of the transfer.                                  *)
LEMMA StreamInvStep ==
  ASSUME Inv, StreamInv, [StreamNext]_streamVars
  PROVE  Inv' /\ StreamInv'
<1>1. CASE Next /\ UNCHANGED transfer
  BY <1>1, InvStep, StoreStepInv
<1>2. CASE WriterStep /\ UNCHANGED <<readers, transfer>>
  BY <1>2, WriterInv, StoreStepInv
<1>3. CASE StreamStarts
  <2>1. Inv'
    BY <1>3 DEF StreamStarts, Inv, TypeOK, store, ReadIsPublished, HealthNamesSource
  <2> QED BY <1>3, <2>1, StreamStartsInv
<1>4. ASSUME UNCHANGED vars
      PROVE  Inv'
  BY <1>4, InvStep
<1>5. stream.status = "open" => download.status = "open"
  BY DEF StreamInv
<1>6. CASE PushAccount
  BY <1>4, <1>5, <1>6, PushAccountInv DEF PushAccount
<1>7. CASE SendFullChunk
  BY <1>4, <1>5, <1>7, SendFullChunkInv DEF SendFullChunk
<1>8. CASE StreamEnds
  BY <1>4, <1>5, <1>8, StreamEndsInv DEF StreamEnds
<1>9. CASE StreamIsCut
  BY <1>4, <1>5, <1>9, StreamIsCutInv DEF StreamIsCut
<1>10. CASE ReceiveChunk
  BY <1>4, <1>10, ReceiveChunkInv DEF ReceiveChunk
<1>11. CASE DownloadEnds
  BY <1>4, <1>11, DownloadEndsInv DEF DownloadEnds
<1>12. CASE DownloadFails
  BY <1>4, <1>12, NoTransferInv DEF DownloadFails
<1>13. CASE DownloadReturns
  BY <1>4, <1>13, NoTransferInv DEF DownloadReturns
<1>14. CASE UNCHANGED streamVars
  BY <1>4, <1>14, StoreStepInv DEF streamVars
<1> QED BY <1>1, <1>2, <1>3, <1>6, <1>7, <1>8, <1>9, <1>10, <1>11, <1>12, <1>13, <1>14
     DEF StreamNext, StreamStep

(* Both invariants hold while clients download, whatever is published,     *)
(* invalidated, cut or given up meanwhile.                                 *)
THEOREM StreamInvHolds == StreamSpec => [](Inv /\ StreamInv)
<1>1. StreamInit => Inv /\ StreamInv
  BY InitInv, StreamInitInv DEF StreamInit
<1>2. (Inv /\ StreamInv) /\ [StreamNext]_streamVars => (Inv /\ StreamInv)'
  BY StreamInvStep
<1> QED BY <1>1, <1>2, PTL DEF StreamSpec

(* The variables of the transfer keep their types, and the channel its     *)
(* capacity.                                                               *)
THEOREM StreamTypeCorrect == StreamSpec => []StreamTypeOK
<1>1. StreamInv => StreamTypeOK
  BY DEF StreamInv
<1> QED BY <1>1, StreamInvHolds, PTL

(* A client accepts the whole of one published snapshot or nothing.        *)
THEOREM DownloadIsAtomic == StreamSpec => []AcceptedIsCaptured
<1>1. StreamInv => AcceptedIsCaptured
  BY DEF StreamInv
<1> QED BY <1>1, StreamInvHolds, PTL

(* Every snapshot that is streamed to its end is accepted.                 *)
THEOREM CompleteStreamIsAccepted == StreamSpec => []RejectedWasCut
<1>1. StreamInv => RejectedWasCut
  BY DEF StreamInv
<1> QED BY <1>1, StreamInvHolds, PTL

(* What the store promises its readers it promises while snapshots are     *)
(* streamed as well.                                                       *)
THEOREM StreamsKeepStorePromises ==
  StreamSpec => [](TypeOK /\ ReadIsPublished /\ HealthNamesSource)
<1>1. Inv => TypeOK /\ ReadIsPublished /\ HealthNamesSource
  BY DEF Inv
<1> QED BY <1>1, StreamInvHolds, PTL

(* publish is one step to the updater thread while snapshots are streamed  *)
(* as well.                                                                *)
THEOREM StreamsKeepPublishAtomic == StreamSpec => PublishIsAtomic
<1>1. StreamInit => Record = Atomic!NewStore
  BY RecordInit DEF StreamInit, Init
<1>2. Inv /\ [StreamNext]_streamVars => [RecordStep]_Record
  <2>1. ASSUME UNCHANGED store
        PROVE  UNCHANGED Record
    BY <2>1 DEF store, Record
  <2>2. ASSUME Next
        PROVE  WriterStep \/ UNCHANGED store
    BY <2>2 DEF Next, ReadChecksReady, ReadLoadsCurrent, HealthLoadsCurrent, HealthLoadsReady, HealthLoadsUrl
  <2>3. ASSUME StreamStarts
        PROVE  UNCHANGED store
    BY <2>3 DEF StreamStarts
  <2>4. ASSUME StreamStep \/ StreamIsCut \/ DownloadFails \/ DownloadReturns
        PROVE  UNCHANGED store
    BY <2>4 DEF StreamStep, PushAccount, SendFullChunk, StreamEnds, ReceiveChunk, DownloadEnds,
                StreamIsCut, DownloadFails, DownloadReturns, vars
  <2>5. ASSUME StreamNext
        PROVE  WriterStep \/ UNCHANGED store
    BY <2>2, <2>3, <2>4, <2>5 DEF StreamNext
  <2> QED BY <2>1, <2>5, WriterKeepsRecord DEF streamVars, vars
<1> QED BY <1>1, <1>2, StreamInvHolds, PTL DEF StreamSpec, PublishIsAtomic
=============================================================================
