--------------------------- MODULE AltClientProofs ---------------------------
(***************************************************************************)
(* The handoff from snapshot to stream in the client library loses no      *)
(* update, and its readers never see an older table than they were         *)
(* promised: for any keys, slots, sources, servers and buffer capacity.    *)
(***************************************************************************)
EXTENDS AltClient, DataLemmas

(* The inductive strengthening: no write gets lost or overtaken on its way *)
(* from the stream through the buffer and the pending updates into the     *)
(* session's map.                                                          *)

InSession == phase \in {"replay", "tables", "slot", "ready", "follow"}

(* Where the write of key k in slot s still is.                            *)
StreamOwes(k, s) ==
  \/ s > stream.at + 1
  \/ s = stream.at + 1 /\ k \notin stream.sent
  \/ s = stream.at /\ k \in stream.owed

IsWrite(e, k, s) == e.type = "Account" /\ e.update.key = k /\ e.update.slot = s

Buffered(k, s) == \E i \in DOMAIN attempt.buffered : IsWrite(attempt.buffered[i], k, s)

Staged(k, s) == \E i \in DOMAIN session.pending[s] : session.pending[s][i].key = k

Outstanding(k, s) == StreamOwes(k, s) \/ Buffered(k, s) \/ Staged(k, s)

(* The newest slot that a table of the session can be as of.               *)
Latest == IF servers = "paged" THEN tip ELSE Max({session.confirmedSlot, confirming})

(* The session's table is as of slot d.  Of the key's writes those after   *)
(* slot f are still to come, and none before it, so that each comes after  *)
(* the ones that it overwrites.  Only a page of its own slot may already   *)
(* show a write that is still to come.                                     *)
OnTrack(k, f, d) ==
  /\ servers # "paged" => f = d
  /\ session.tables[k] = ledger[d][k]
  /\ \A s \in (f + 1) .. tip : k \in Changed(s) => Outstanding(k, s)
  /\ \A s \in session.bootstrapSlot .. (f - 1) : ~ Outstanding(k, s)

(* A snapshot that is being fetched will lack only writes still to come.   *)
FetchIsCovered ==
  \A s \in (attempt.floor + 1) .. tip : \A k \in Changed(s) : StreamOwes(k, s) \/ Buffered(k, s)

SessionOnTrack ==
  \A k \in Key : \E d \in session.bootstrapSlot .. Latest :
    \E f \in session.bootstrapSlot .. d : OnTrack(k, f, d)

NothingLost ==
  servers # "behind" =>
    /\ phase = "bootstrap" => FetchIsCovered
    /\ InSession => SessionOnTrack

(* What is buffered or pending comes from the stream.                      *)
FromLedger(u) == u.slot \in 1 .. tip /\ u.table \in {ledger[u.slot][u.key], Malformed}

OnlyFromStream ==
  /\ \A i \in DOMAIN attempt.buffered :
       LET e == attempt.buffered[i]
       IN  IF e.type = "Account" THEN FromLedger(e.update) ELSE e.slot <= stream.at
  /\ \A s \in Slot : \A i \in DOMAIN session.pending[s] :
       /\ session.bootstrapSlot <= s
       /\ session.pending[s][i].slot = s
       /\ FromLedger(session.pending[s][i])

(* The stream is not ahead of the chain, and starts no slot before it has  *)
(* sent what it owes of the last.                                          *)
StreamInOrder ==
  /\ stream.at <= tip
  /\ stream.at = tip => stream.sent = {}
  /\ stream.owed # {} => overtaken /\ stream.at > 0 /\ stream.sent = {}

(* Each key's writes are staged before they are buffered before the stream *)
(* still owes them, the older ones first.                                  *)
HeldOnce == \A k \in Key, s \in Slot : Buffered(k, s) \/ Staged(k, s) => ~ StreamOwes(k, s)

BufferInOrder ==
  \A i, j \in DOMAIN attempt.buffered : \A k \in Key, s, t \in Slot :
    IsWrite(attempt.buffered[i], k, s) /\ IsWrite(attempt.buffered[j], k, t) /\ i < j => s <= t

StagedFirst == \A k \in Key, s, t \in Slot : Staged(k, s) /\ Buffered(k, t) => s <= t

WritesInOrder == HeldOnce /\ BufferInOrder /\ StagedFirst

(* A session is confirmed past its snapshot only by its stream.            *)
SlotsInOrder ==
  /\ phase = "bootstrap" => attempt.floor > 0
  /\ InSession =>
       /\ 0 < session.bootstrapSlot
       /\ session.bootstrapSlot <= session.confirmedSlot
       /\ session.confirmedSlot <= tip
       /\ session.confirmedSlot > session.bootstrapSlot => session.confirmedSlot <= stream.at
  /\ confirming # 0 =>
       /\ phase \in {"replay", "follow"}
       /\ session.confirmedSlot < confirming
       /\ confirming <= stream.at

(* The buffer and the session live only through their phases; after the    *)
(* replay nothing is left of what the session has confirmed.               *)
ReplayIsComplete ==
  /\ phase \notin {"bootstrap", "replay"} => attempt.buffered = << >>
  /\ ~ InSession => session = NoSession
  /\ phase \in {"tables", "slot", "ready", "follow"} =>
       held /\ \A s \in 0 .. session.confirmedSlot : session.pending[s] = << >>

(* Readers see the session's tables, slot and flag in that order, and      *)
(* never a slot below the one they saw before.                             *)
Published ==
  /\ inner.ready => phase = "follow"
  /\ phase \in {"slot", "ready", "follow"} => inner.tables = session.tables
  /\ phase \in {"ready", "follow"} => inner.confirmedSlot = session.confirmedSlot
  /\ ~ held => inner = NoInner
  /\ inner.confirmedSlot <= tip
  /\ servers # "behind" =>
       /\ phase = "bootstrap" => inner.confirmedSlot <= attempt.floor
       /\ InSession => inner.confirmedSlot <= session.confirmedSlot

(* What a reader holds or will find is as new as the slot it saw.          *)
ReaderIsCurrent ==
  /\ reader.step # "idle" => held
  /\ reader.step # "idle" /\ servers # "behind" => reader.slot <= inner.confirmedSlot
  /\ servers # "behind" /\ ~ overtaken =>
       /\ held => AsOf(inner.tables, inner.confirmedSlot .. tip)
       /\ reader.step = "loaded" => \A map \in reader.replaced : AsOf(map, reader.slot .. tip)
  /\ GetIsNotStale

ClientInv ==
  /\ TypeOK
  /\ NothingLost
  /\ OnlyFromStream
  /\ StreamInOrder
  /\ WritesInOrder
  /\ SlotsInOrder
  /\ ReplayIsComplete
  /\ Published
  /\ ReaderIsCurrent

-----------------------------------------------------------------------------
(* What is buffered and staged stays what the stream has sent.             *)
LEMMA OnlyFromStreamStays ==
  ASSUME OnlyFromStream, UNCHANGED <<ledger, tip>>, stream'.at = stream.at,
         attempt'.buffered = attempt.buffered, session'.pending = session.pending,
         session'.bootstrapSlot = session.bootstrapSlot
  PROVE  OnlyFromStream'
<1>1. \A u : FromLedger(u) => u.slot \in 1 .. tip' /\ u.table \in {ledger'[u.slot][u.key], Malformed}
  BY DEF FromLedger
<1>2. ASSUME NEW i \in DOMAIN attempt'.buffered
      PROVE  LET e == attempt'.buffered[i]
             IN  IF e.type = "Account"
                 THEN /\ e.update.slot \in 1 .. tip'
                      /\ e.update.table \in {ledger'[e.update.slot][e.update.key], Malformed}
                 ELSE e.slot <= stream'.at
  <2>1. PICK e : e = attempt'.buffered[i] /\ e = attempt.buffered[i]
    OBVIOUS
  <2>2. IF e.type = "Account" THEN FromLedger(e.update) ELSE e.slot <= stream.at
    BY <2>1 DEF OnlyFromStream
  <2> QED BY <1>1, <2>1, <2>2
<1>3. ASSUME NEW s \in Slot, NEW i \in DOMAIN session'.pending[s]
      PROVE  LET u == session'.pending[s][i]
             IN  /\ session'.bootstrapSlot <= s
                 /\ u.slot = s
                 /\ u.slot \in 1 .. tip' /\ u.table \in {ledger'[u.slot][u.key], Malformed}
  <2>1. PICK u : u = session'.pending[s][i] /\ u = session.pending[s][i]
    OBVIOUS
  <2>2. session.bootstrapSlot <= s /\ u.slot = s /\ FromLedger(u)
    BY <2>1 DEF OnlyFromStream
  <2> QED BY <1>1, <2>1, <2>2
<1> QED BY ONLY <1>2, <1>3 DEF OnlyFromStream, FromLedger

(* A chain grows at its tip and changes nothing before it.                 *)
LEMMA ChainGrows ==
  ASSUME ledger \in [Slot -> Tables], tip \in Slot, ConfirmSlot
  PROVE  /\ tip' = tip + 1 /\ tip' \in Slot
         /\ ledger' \in [Slot -> Tables]
         /\ \A s \in 0 .. tip : ledger'[s] = ledger[s]
         /\ \A s \in 1 .. tip : Changed(s)' = Changed(s)
<1>1. tip' = tip + 1 /\ tip' \in Slot
  BY CountAssumption DEF ConfirmSlot, Slot
<1>2. PICK next \in Tables : ledger' = [s \in 0 .. MaxSlot |-> IF s <= tip THEN ledger[s] ELSE next]
  BY DEF ConfirmSlot, Tables
<1>3. ledger' \in [Slot -> Tables]
  BY <1>2 DEF Slot
<1>4. \A s \in 0 .. tip : ledger'[s] = ledger[s]
  BY <1>2, CountAssumption DEF Slot
<1>5. ASSUME NEW s \in 1 .. tip
      PROVE  Changed(s)' = Changed(s)
  <2>1. s \in 0 .. tip /\ s - 1 \in 0 .. tip
    BY CountAssumption DEF Slot
  <2> QED BY <2>1, <1>4 DEF Changed
<1> QED BY <1>1, <1>3, <1>4, <1>5

(* A table that is not written in any slot after d up to e is the same as  *)
(* of both: the first slot where it differs would have written it.         *)
LEMMA UnchangedTable ==
  ASSUME ledger \in [Slot -> Tables], NEW k \in Key, NEW d \in Slot, NEW e \in Slot, d <= e,
         \A s \in (d + 1) .. e : k \notin Changed(s)
  PROVE  ledger[e][k] = ledger[d][k]
<1> SUFFICES ASSUME ledger[e][k] # ledger[d][k] PROVE FALSE
  OBVIOUS
<1> DEFINE D == { s \in d .. e : ledger[s][k] # ledger[d][k] }
<1>1. \A s \in Slot : s \in Nat
  BY CountAssumption DEF Slot
<1>2. D \in SUBSET Nat /\ e \in D
  BY <1>1
<1>3. Min(D) \in D /\ \A s \in D : Min(D) <= s
  <2> HIDE DEF D
  <2> QED BY <1>2, MinIsLowerBound
<1>4. PICK m \in D : \A s \in D : m <= s
  BY <1>3
<1>5. m \in (d + 1) .. e
  BY <1>1
<1>6. m - 1 \in d .. e /\ m - 1 \notin D
  BY <1>1, <1>4, <1>5
<1>7. ledger[m - 1][k] = ledger[d][k] /\ ledger[m][k] # ledger[d][k]
  BY <1>6
<1> QED BY <1>5, <1>7 DEF Changed

(* Values of the initial state and of a failed session.                    *)
LEMMA InitialValues ==
  /\ 0 \in Slot /\ \A s \in Slot : s \in Nat /\ s <= MaxSlot
  /\ NoTables \in Tables
  /\ NoSession \in Sessions /\ NoSession.bootstrapSlot = 0 /\ NoSession.confirmedSlot = 0
  /\ \A s \in Slot : NoSession.pending[s] = << >>
  /\ NoInner \in [tables: Tables, ready: BOOLEAN, confirmedSlot: Slot]
  /\ NoInner.tables = NoTables /\ ~ NoInner.ready /\ NoInner.confirmedSlot = 0
  /\ NoStream \in Streams
  /\ NoStream.at = 0 /\ NoStream.owed = {} /\ NoStream.sent = {}
<1>1. 0 \in Slot /\ \A s \in Slot : s \in Nat /\ s <= MaxSlot
  BY CountAssumption DEF Slot
<1>2. NoTables \in Tables
  BY DEF NoTables, Tables, Contents
<1>3. /\ NoSession \in Sessions /\ NoSession.bootstrapSlot = 0 /\ NoSession.confirmedSlot = 0
      /\ \A s \in Slot : NoSession.pending[s] = << >>
  BY <1>1, <1>2 DEF NoSession, NewSession, Sessions
<1> QED BY <1>1, <1>2, <1>3 DEF NoInner, NoStream, Streams

(* Every attempt starts with an empty buffer.                              *)
LEMMA NewAttempt ==
  ASSUME NEW source \in 0 .. SourceCount - 1, NEW offset \in 0 .. SourceCount - 1
  PROVE  /\ Attempt(source, offset) \in Attempts
         /\ Attempt(source, offset).buffered = << >>
         /\ Len(Attempt(source, offset).buffered) <= BufferCapacity
BY InitialValues, CountAssumption DEF Attempt, Attempts

(* The rotation stays within the sources.                                  *)
LEMMA NextSourceType ==
  ASSUME attempt \in Attempts
  PROVE  NextSource \in 0 .. SourceCount - 1 /\ 0 \in 0 .. SourceCount - 1
BY CountAssumption DEF Attempts, NextSource

(* Before anything has happened the invariant holds.                       *)
LEMMA ClientInitInv == Init => ClientInv
<1> SUFFICES ASSUME Init PROVE ClientInv
  OBVIOUS
<1> USE InitialValues DEF Init
<1>1. tip = 1 /\ 1 \in Slot /\ ledger \in [Slot -> Tables]
  <2>1. PICK first \in [Key -> {1, NoAccount}] :
          ledger = [s \in 0 .. MaxSlot |-> IF s = 0 THEN [k \in Key |-> NoAccount] ELSE first]
    BY DEF ChainInit
  <2>2. 1 \in Slot /\ first \in Tables /\ [k \in Key |-> NoAccount] \in Tables
    BY CountAssumption DEF Tables, Contents, Slot
  <2> QED BY <2>1, <2>2 DEF ChainInit, Slot
<1>2. 0 \in 0 .. SourceCount - 1 /\ 0 \in 0 .. MaxFaults
  BY CountAssumption
<1>3. attempt \in Attempts /\ attempt.buffered = << >> /\ Len(attempt.buffered) <= BufferCapacity
  BY <1>2, NewAttempt
<1>4. reader \in Readers /\ reader.step = "idle"
  BY DEF Readers, Idle
<1>5. TypeOK
  BY <1>1, <1>2, <1>3, <1>4 DEF TypeOK, Phases
<1>6. NothingLost
  BY DEF NothingLost, InSession
<1>7. \A k, s : ~ Buffered(k, s)
  BY <1>3 DEF Buffered
<1>8. \A s \in Slot : session.pending[s] = << >>
  OBVIOUS
<1>9. OnlyFromStream /\ ReplayIsComplete
  BY <1>3, <1>8 DEF OnlyFromStream, ReplayIsComplete, InSession
<1>10. WritesInOrder
  BY <1>3, <1>7, <1>8 DEF WritesInOrder, HeldOnce, BufferInOrder, StagedFirst, Staged
<1>11. StreamInOrder /\ SlotsInOrder
  BY <1>1 DEF StreamInOrder, SlotsInOrder, InSession
<1>12. Published
  BY <1>1, <1>3 DEF Published, InSession
<1>13. ReaderIsCurrent
  BY <1>4 DEF ReaderIsCurrent, GetIsNotStale
<1> QED BY <1>5, <1>6, <1>9, <1>10, <1>11, <1>12, <1>13 DEF ClientInv

(* The step tells what else a reader is.                                   *)
LEMMA ReaderCases ==
  ASSUME reader \in Readers
  PROVE  /\ reader.step \in {"idle", "slot", "checked", "loaded", "done"}
         /\ reader.step # "idle" => reader.slot \in Slot
         /\ reader.step \in {"slot", "checked"} => reader \in [step: {"slot", "checked"}, slot: Slot]
         /\ reader.step = "loaded" =>
              reader \in [step: {"loaded"}, slot: Slot, replaced: SUBSET Tables]
         /\ reader.step = "done" =>
              reader \in [step: {"done"}, slot: Slot, key: Key, table: Contents]
BY DEF Readers, Idle

-----------------------------------------------------------------------------
(* Where the writes are                                                    *)

(* The slots of a session lie before the tip.                              *)
LEMMA LatestFacts ==
  ASSUME ClientInv, InSession
  PROVE  /\ Latest \in Slot /\ Latest <= tip
         /\ session.bootstrapSlot <= session.confirmedSlot /\ session.confirmedSlot <= Latest
         /\ confirming <= Latest /\ confirming <= tip
         /\ {session.bootstrapSlot, session.confirmedSlot, confirming, tip} \subseteq Slot
<1>1. /\ {session.bootstrapSlot, session.confirmedSlot, confirming, tip, stream.at} \subseteq Slot
      /\ \A s \in Slot : s \in Nat
  BY InitialValues DEF ClientInv, TypeOK, Sessions, Streams
<1>2. /\ session.bootstrapSlot <= session.confirmedSlot
      /\ session.confirmedSlot <= tip
      /\ confirming # 0 => confirming <= stream.at
      /\ stream.at <= tip
  BY DEF ClientInv, SlotsInOrder, StreamInOrder
<1>3. confirming <= tip
  BY <1>1, <1>2
<1>4. Max({session.confirmedSlot, confirming}) =
        IF session.confirmedSlot >= confirming THEN session.confirmedSlot ELSE confirming
  BY <1>1, MaxOfTwo
<1> QED BY <1>1, <1>2, <1>3, <1>4 DEF Latest

(* A step that keeps the session's snapshot and its tables, and moves      *)
(* writes only along, keeps the session on its track.                      *)
LEMMA SessionStays ==
  ASSUME TypeOK, SessionOnTrack, UNCHANGED <<ledger, tip, servers>>,
         session'.tables = session.tables, session'.bootstrapSlot = session.bootstrapSlot,
         Latest \in Slot, Latest' \in Slot, Latest <= Latest', Latest <= tip,
         \A k \in Key : \A s \in session.bootstrapSlot .. tip :
           /\ k \in Changed(s) /\ Outstanding(k, s) => Outstanding(k, s)'
           /\ Outstanding(k, s)' => Outstanding(k, s)
  PROVE  SessionOnTrack'
<1> SUFFICES ASSUME NEW k \in Key
             PROVE  (\E d \in session.bootstrapSlot .. Latest :
                       \E f \in session.bootstrapSlot .. d : OnTrack(k, f, d))'
  BY DEF SessionOnTrack
<1>1. /\ session.bootstrapSlot \in Slot /\ tip \in Slot
      /\ \A s \in Slot : s \in Nat
  BY InitialValues DEF TypeOK, Sessions
<1>2a. PICK d \in session.bootstrapSlot .. Latest :
         \E f \in session.bootstrapSlot .. d : OnTrack(k, f, d)
  BY DEF SessionOnTrack
<1>2. PICK f \in session.bootstrapSlot .. d : OnTrack(k, f, d)
  BY <1>2a
<1>3. d \in session.bootstrapSlot .. Latest'
  BY <1>1
<1>4. session'.tables[k] = ledger'[d][k]
  BY <1>2 DEF OnTrack
<1>5. ASSUME NEW s \in (f + 1) .. tip, k \in Changed(s)'
      PROVE  Outstanding(k, s)'
  <2>1. s \in session.bootstrapSlot .. tip /\ k \in Changed(s)
    BY <1>1, <1>5 DEF Changed
  <2> QED BY <1>2, <1>5, <2>1 DEF OnTrack
<1>6. ASSUME NEW s \in session.bootstrapSlot .. (f - 1)
      PROVE  ~ Outstanding(k, s)'
  <2>1. s \in session.bootstrapSlot .. tip
    BY <1>1, <1>3
  <2> QED BY <1>2, <2>1 DEF OnTrack
<1>7. OnTrack(k, f, d)'
  BY <1>2, <1>4, <1>5, <1>6 DEF OnTrack
<1> QED BY <1>3, <1>7

(* The same writes are where they were.                                    *)
LEMMA SameWrites ==
  ASSUME UNCHANGED <<stream, attempt, session>>
  PROVE  \A k, s : /\ StreamOwes(k, s)' <=> StreamOwes(k, s)
                   /\ Buffered(k, s)' <=> Buffered(k, s)
                   /\ Staged(k, s)' <=> Staged(k, s)
                   /\ Outstanding(k, s)' <=> Outstanding(k, s)
<1>1. \A k, s : /\ StreamOwes(k, s)' <=> StreamOwes(k, s)
                /\ Buffered(k, s)' <=> Buffered(k, s)
                /\ Staged(k, s)' <=> Staged(k, s)
  BY DEF StreamOwes, Buffered, Staged, IsWrite
<1> QED BY <1>1 DEF Outstanding

(* What the task and the stream hold is none of the reader's business.     *)
LEMMA ReaderLeavesRest ==
  ASSUME ClientInv, UNCHANGED <<chain, net, task, inner>>, reader' \in Readers
  PROVE  /\ TypeOK' /\ NothingLost' /\ OnlyFromStream' /\ StreamInOrder' /\ WritesInOrder'
         /\ SlotsInOrder' /\ ReplayIsComplete' /\ Published'
<1> USE DEF chain, net, task
<1>1. /\ UNCHANGED <<ledger, tip, servers, stream, overtaken, faults>>
      /\ UNCHANGED <<phase, held, attempt, session, confirming, inner>>
  OBVIOUS
<1>2. TypeOK'
  BY <1>1 DEF ClientInv, TypeOK
<1>3. NothingLost'
  <2>1. \A k, s : /\ StreamOwes(k, s)' <=> StreamOwes(k, s)
                  /\ Buffered(k, s)' <=> Buffered(k, s)
                  /\ Outstanding(k, s)' <=> Outstanding(k, s)
    BY <1>1, SameWrites
  <2>2. FetchIsCovered => FetchIsCovered'
    BY <1>1, <2>1 DEF FetchIsCovered, Changed
  <2>3. (InSession' <=> InSession) /\ Latest' = Latest
    BY <1>1 DEF InSession, Latest
  <2>4. InSession /\ SessionOnTrack => SessionOnTrack'
    <3> SUFFICES ASSUME InSession, SessionOnTrack PROVE SessionOnTrack'
      OBVIOUS
    <3>1. Latest \in Slot /\ Latest' \in Slot /\ Latest <= Latest' /\ Latest <= tip
      BY <2>3, LatestFacts, InitialValues
    <3> QED BY <1>1, <2>1, <3>1, SessionStays DEF ClientInv
  <2> QED BY <1>1, <2>2, <2>3, <2>4 DEF ClientInv, NothingLost
<1>4. OnlyFromStream' /\ StreamInOrder' /\ WritesInOrder'
  <2>1. OnlyFromStream'
    BY <1>1 DEF ClientInv, OnlyFromStream, FromLedger
  <2>2. StreamInOrder'
    BY <1>1 DEF ClientInv, StreamInOrder
  <2>3. WritesInOrder'
    <3>1. WritesInOrder
      BY DEF ClientInv
    <3> QED BY <1>1, <3>1 DEF WritesInOrder, HeldOnce, BufferInOrder, StagedFirst,
                              Buffered, Staged, StreamOwes, IsWrite
  <2> QED BY <2>1, <2>2, <2>3
<1>5. SlotsInOrder' /\ ReplayIsComplete' /\ Published'
  BY <1>1 DEF ClientInv, SlotsInOrder, ReplayIsComplete, Published, InSession
<1> QED BY <1>2, <1>3, <1>4, <1>5

(* The using program: what it reads is as new as the slot it saw.          *)
LEMMA ReaderStepInv ==
  ASSUME ClientInv, ReaderStep
  PROVE  ClientInv'
<1>1. /\ UNCHANGED <<chain, net, task, inner>>
      /\ UNCHANGED <<ledger, tip, servers, overtaken, held, inner>>
  BY DEF ReaderStep, chain, net, task
<1>2. /\ reader \in Readers /\ inner \in [tables: Tables, ready: BOOLEAN, confirmedSlot: Slot]
      /\ tip \in Slot /\ Idle \in Readers /\ Idle.step = "idle"
  BY DEF ClientInv, TypeOK, Readers, Idle
<1>3. ReaderIsCurrent
  BY DEF ClientInv
<1>4. CASE ReadConfirmedSlot
  <2>1. reader' = [step |-> "slot", slot |-> inner.confirmedSlot] /\ held
    BY <1>4 DEF ReadConfirmedSlot
  <2>2. reader' \in Readers
    BY <1>2, <2>1 DEF Readers
  <2>3. ReaderIsCurrent'
    BY <1>1, <1>2, <1>3, <2>1, InitialValues DEF ReaderIsCurrent, GetIsNotStale, AsOf
  <2> QED BY <1>1, <2>2, <2>3, ReaderLeavesRest DEF ClientInv
<1>5. CASE GetChecksReady
  <2>1. reader \in [step: {"slot", "checked"}, slot: Slot]
    BY <1>2, <1>5, ReaderCases DEF GetChecksReady
  <2>2. \/ reader' = Idle
        \/ /\ reader' \in [step: {"slot", "checked"}, slot: Slot]
           /\ reader'.slot = reader.slot
    BY <1>5, <2>1 DEF GetChecksReady
  <2>3. reader.step # "idle" /\ reader' \in Readers
    BY <1>2, <1>5, <2>2 DEF GetChecksReady, Readers
  <2>4. ReaderIsCurrent'
    BY <1>1, <1>2, <1>3, <2>2, <2>3 DEF ReaderIsCurrent, GetIsNotStale, AsOf
  <2> QED BY <1>1, <2>3, <2>4, ReaderLeavesRest DEF ClientInv
<1>6. CASE GetLoadsMap
  <2>1. reader.step # "idle" /\ reader.slot \in Slot
    BY <1>2, <1>6, ReaderCases DEF GetLoadsMap
  <2>2. reader' = [step |-> "loaded", slot |-> reader.slot, replaced |-> {}] /\ reader' \in Readers
    BY <1>6, <2>1 DEF GetLoadsMap, Readers
  <2>3. ReaderIsCurrent'
    BY <1>1, <1>2, <1>3, <2>1, <2>2 DEF ReaderIsCurrent, GetIsNotStale, AsOf
  <2> QED BY <1>1, <2>2, <2>3, ReaderLeavesRest DEF ClientInv
<1>7. ASSUME NEW k \in Key, GetLooksUp(k)
      PROVE  ClientInv'
  <2>1. /\ reader.step = "loaded" /\ reader.step # "idle"
        /\ reader \in [step: {"loaded"}, slot: Slot, replaced: SUBSET Tables]
    BY <1>2, <1>7, ReaderCases DEF GetLooksUp
  <2>2. PICK map \in (IF reader.replaced = {} THEN {inner.tables} ELSE reader.replaced) :
          reader' = [step |-> "done", slot |-> reader.slot, key |-> k, table |-> map[k]]
    BY <1>7 DEF GetLooksUp
  <2>3. map \in Tables
    BY <1>2, <2>1
  <2>4. reader' \in Readers
    BY <2>1, <2>2, <2>3 DEF Readers, Tables
  <2>5. ASSUME servers # "behind", ~ overtaken
        PROVE  \E d \in reader.slot .. tip : map[k] = ledger[d][k]
    <3>1. CASE reader.replaced = {}
      <4>1. AsOf(inner.tables, inner.confirmedSlot .. tip)
        BY <1>3, <2>1, <2>5 DEF ReaderIsCurrent
      <4>2. inner.confirmedSlot .. tip \subseteq reader.slot .. tip
        BY <1>2, <1>3, <2>1, <2>5, InitialValues DEF ReaderIsCurrent
      <4> QED BY <2>2, <3>1, <4>1, <4>2 DEF AsOf
    <3>2. CASE reader.replaced # {}
      BY <1>3, <2>1, <2>2, <2>5, <3>2 DEF ReaderIsCurrent, AsOf
    <3> QED BY <3>1, <3>2
  <2>6. GetIsNotStale'
    BY <1>1, <2>2, <2>5 DEF GetIsNotStale
  <2>7. ReaderIsCurrent'
    BY <1>1, <1>3, <2>1, <2>2, <2>6 DEF ReaderIsCurrent, AsOf
  <2> QED BY <1>1, <2>4, <2>7, ReaderLeavesRest DEF ClientInv
<1>8. CASE GetReturns
  <2>1. reader' = Idle
    BY <1>8 DEF GetReturns
  <2>2. ReaderIsCurrent'
    BY <1>1, <1>2, <1>3, <2>1 DEF ReaderIsCurrent, GetIsNotStale, AsOf
  <2> QED BY <1>1, <1>2, <2>1, <2>2, ReaderLeavesRest DEF ClientInv
<1> QED BY <1>4, <1>5, <1>6, <1>7, <1>8 DEF ReaderStep

-----------------------------------------------------------------------------
(* The stream                                                              *)

(* What the stream owes of a key is its newest writes.                     *)
LEMMA NewestAreOwed ==
  ASSUME stream \in Streams, StreamInOrder, NEW k \in Key, NEW s \in Slot, NEW t \in Slot,
         StreamOwes(k, s), s < t
  PROVE  StreamOwes(k, t)
BY InitialValues DEF Streams, StreamInOrder, StreamOwes

(* What a step of the stream leaves behind.                                *)
LEMMA ReceiveFacts ==
  ASSUME ClientInv, NEW o \in Offers, Receive(o)
  PROVE  /\ stream' \in Streams /\ StreamInOrder'
         /\ overtaken' \in BOOLEAN /\ (overtaken => overtaken') /\ faults' \in 0 .. MaxFaults
         /\ UNCHANGED <<ledger, tip, servers, reader>>
         /\ stream.at <= stream'.at
         /\ \A k \in Key, s \in Slot : StreamOwes(k, s)' => StreamOwes(k, s)
         /\ o.event \in StreamEvents
         /\ \/ /\ o.event.type = "Account" /\ o.event.update \in Updates
               /\ FromLedger(o.event.update)
               /\ \A k \in Key, s \in Slot :
                    /\ IsWrite(o.event, k, s) => StreamOwes(k, s) /\ ~ StreamOwes(k, s)'
                    /\ StreamOwes(k, s) => StreamOwes(k, s)' \/ IsWrite(o.event, k, s)
            \/ /\ o.event.type = "ConfirmedSlot" /\ o.event.slot \in Slot
               /\ o.event.slot = stream'.at /\ o.event.slot # 0
               /\ \A s \in Slot, k \in Key :
                    k \in Changed(s) /\ StreamOwes(k, s) => StreamOwes(k, s)'
<1>1. /\ stream \in Streams /\ stream.at \in Slot /\ tip \in Slot /\ ledger \in [Slot -> Tables]
      /\ \A s \in Slot : s \in Nat /\ s <= MaxSlot
      /\ overtaken \in BOOLEAN /\ faults \in 0 .. MaxFaults /\ StreamInOrder
  BY InitialValues DEF ClientInv, TypeOK, Streams
<1>2. /\ stream' = o.stream /\ faults' \in 0 .. MaxFaults
      /\ UNCHANGED <<ledger, tip, servers, reader>>
      /\ overtaken' \in BOOLEAN /\ (overtaken \/ o.fault = "overtaken" => overtaken')
  <2>1. overtaken' = (overtaken \/ o.fault = "overtaken")
    BY DEF Receive
  <2>2. overtaken' \in BOOLEAN /\ (overtaken \/ o.fault = "overtaken" => overtaken')
    BY <2>1, Zenon
  <2> QED BY <1>1, <2>2, CountAssumption DEF Receive, Fault, chain
<1>3. CASE stream.owed # {}
  <2>1. PICK k \in stream.owed :
          o = Offer(AccountOf(k, stream.at, ledger[stream.at][k]), [stream EXCEPT !.owed = @ \ {k}], "none")
    BY <1>3 DEF Offers, OwedOffers
  <2>2. /\ o.event = AccountOf(k, stream.at, ledger[stream.at][k])
        /\ o.stream = [stream EXCEPT !.owed = @ \ {k}]
    BY <2>1 DEF Offer
  <2>3. k \in Key /\ stream.at \in 1 .. tip /\ stream.sent = {} /\ overtaken
    BY <1>1, <1>3 DEF Streams, StreamInOrder
  <2>4. stream' = [at |-> stream.at, owed |-> stream.owed \ {k}, sent |-> {}]
    BY <1>1, <1>2, <2>2, <2>3 DEF Streams
  <2>5. stream' \in Streams /\ StreamInOrder' /\ stream.at <= stream'.at
    BY <1>1, <1>2, <2>3, <2>4 DEF Streams, StreamInOrder
  <2>6. /\ o.event.type = "Account"
        /\ o.event.update = [key |-> k, slot |-> stream.at, table |-> ledger[stream.at][k]]
    BY <2>2 DEF AccountOf
  <2>6a. o.event.update.key = k /\ o.event.update.slot = stream.at
    BY <2>6
  <2>7. o.event.update \in Updates /\ o.event \in StreamEvents /\ FromLedger(o.event.update)
    <3>1. ledger[stream.at][k] \in Contents
      BY <1>1, <2>3 DEF Tables
    <3> QED BY <1>1, <2>2, <2>3, <2>6, <3>1 DEF Updates, StreamEvents, AccountOf, FromLedger
  <2>8. \A c \in Key, s \in Slot :
          c = k /\ s = stream.at => StreamOwes(c, s) /\ ~ StreamOwes(c, s)'
    BY <1>1, <2>4 DEF StreamOwes
  <2>9. \A c \in Key, s \in Slot :
          /\ StreamOwes(c, s)' => StreamOwes(c, s)
          /\ StreamOwes(c, s) => StreamOwes(c, s)' \/ (c = k /\ s = stream.at)
    BY <1>1, <2>3, <2>4 DEF StreamOwes
  <2> QED BY <1>1, <1>2, <2>5, <2>6, <2>6a, <2>7, <2>8, <2>9 DEF IsWrite
<1>4. CASE stream.owed = {} /\ stream.at < tip
  <2> DEFINE next == stream.at + 1
             unsent == Changed(next) \ stream.sent
  <2>1. o \in SlotOffers
    BY <1>4 DEF Offers
  <2>2. next \in Slot /\ next \in 1 .. tip /\ unsent \subseteq Key
    BY <1>1, <1>4, CountAssumption DEF Slot, Changed
  <2>3. ASSUME NEW k \in unsent, NEW table \in {ledger[next][k], Malformed},
               o.event = AccountOf(k, next, table), o.stream = [stream EXCEPT !.sent = @ \cup {k}]
        PROVE  /\ stream' \in Streams /\ StreamInOrder' /\ stream.at <= stream'.at
               /\ o.event.type = "Account" /\ o.event.update \in Updates /\ o.event \in StreamEvents
               /\ FromLedger(o.event.update)
               /\ \A c \in Key, s \in Slot :
                    /\ IsWrite(o.event, c, s) => StreamOwes(c, s) /\ ~ StreamOwes(c, s)'
                    /\ StreamOwes(c, s)' => StreamOwes(c, s)
                    /\ StreamOwes(c, s) => StreamOwes(c, s)' \/ IsWrite(o.event, c, s)
    <3>1. k \in Key /\ k \notin stream.sent
      BY <2>2, <2>3
    <3>2. stream' = [at |-> stream.at, owed |-> {}, sent |-> stream.sent \cup {k}]
      BY <1>1, <1>2, <1>4, <2>3 DEF Streams
    <3>3. stream' \in Streams /\ StreamInOrder' /\ stream.at <= stream'.at
      BY <1>1, <1>2, <1>4, <3>1, <3>2 DEF Streams, StreamInOrder
    <3>4. o.event.type = "Account" /\ o.event.update = [key |-> k, slot |-> next, table |-> table]
      BY <2>3 DEF AccountOf
    <3>4a. o.event.update.key = k /\ o.event.update.slot = next
      BY <3>4
    <3>5. o.event.update \in Updates /\ o.event \in StreamEvents /\ FromLedger(o.event.update)
      <4>1. table \in Contents \cup {Malformed}
        BY <1>1, <2>2, <2>3, <3>1 DEF Tables
      <4> QED BY <2>2, <2>3, <3>1, <3>4, <4>1 DEF Updates, StreamEvents, AccountOf, FromLedger
    <3>6. \A c \in Key, s \in Slot : c = k /\ s = next => StreamOwes(c, s) /\ ~ StreamOwes(c, s)'
      BY <1>1, <3>1, <3>2 DEF StreamOwes
    <3>7. \A c \in Key, s \in Slot :
            /\ StreamOwes(c, s)' => StreamOwes(c, s)
            /\ StreamOwes(c, s) => StreamOwes(c, s)' \/ (c = k /\ s = next)
      BY <1>1, <1>4, <3>2 DEF StreamOwes
    <3> QED BY <3>3, <3>4, <3>4a, <3>5, <3>6, <3>7 DEF IsWrite
  <2>4. ASSUME o = Offer(ConfirmedOf(next), [at |-> next, owed |-> unsent, sent |-> {}],
                         IF unsent = {} THEN "none" ELSE "overtaken")
        PROVE  /\ stream' \in Streams /\ StreamInOrder' /\ stream.at <= stream'.at
               /\ o.event.type = "ConfirmedSlot" /\ o.event.slot \in Slot /\ o.event \in StreamEvents
               /\ o.event.slot = stream'.at /\ o.event.slot # 0
               /\ \A k \in Key, s \in Slot :
                    /\ StreamOwes(k, s)' => StreamOwes(k, s)
                    /\ k \in Changed(s) /\ StreamOwes(k, s) => StreamOwes(k, s)'
    <3>1. stream' = [at |-> next, owed |-> unsent, sent |-> {}]
      BY <1>2, <2>4 DEF Offer
    <3>2. unsent # {} => overtaken'
      BY <1>2, <2>4 DEF Offer
    <3>3. stream' \in Streams /\ StreamInOrder' /\ stream.at <= stream'.at
      BY <1>1, <1>2, <2>2, <3>1, <3>2 DEF Streams, StreamInOrder
    <3>4. o.event = [type |-> "ConfirmedSlot", slot |-> next]
      BY <2>4 DEF Offer, ConfirmedOf
    <3>5. \A k \in Key, s \in Slot :
            /\ StreamOwes(k, s)' => StreamOwes(k, s)
            /\ k \in Changed(s) /\ StreamOwes(k, s) => StreamOwes(k, s)'
      BY <1>1, <1>4, <3>1 DEF StreamOwes
    <3> QED BY <1>1, <2>2, <3>1, <3>3, <3>4, <3>5 DEF StreamEvents
  <2>5. \/ \E k \in unsent : \E table \in {ledger[next][k], Malformed} :
             o.event = AccountOf(k, next, table) /\ o.stream = [stream EXCEPT !.sent = @ \cup {k}]
        \/ o = Offer(ConfirmedOf(next), [at |-> next, owed |-> unsent, sent |-> {}],
                     IF unsent = {} THEN "none" ELSE "overtaken")
    <3> DEFINE Sent(k) == [stream EXCEPT !.sent = @ \cup {k}]
    <3>1. \/ \E k \in unsent : o = Offer(AccountOf(k, next, ledger[next][k]), Sent(k), "none")
          \/ \E k \in unsent : o = Offer(AccountOf(k, next, Malformed), Sent(k), "malformed")
          \/ o = Offer(ConfirmedOf(next), [at |-> next, owed |-> unsent, sent |-> {}],
                       IF unsent = {} THEN "none" ELSE "overtaken")
      BY <2>1 DEF SlotOffers
    <3>2. \A e, s, f : Offer(e, s, f).event = e /\ Offer(e, s, f).stream = s
      BY DEF Offer
    <3> HIDE DEF Sent
    <3>3. \A k : k \in unsent /\ o = Offer(AccountOf(k, next, ledger[next][k]), Sent(k), "none")
              => o.event = AccountOf(k, next, ledger[next][k]) /\ o.stream = Sent(k)
      BY <3>2
    <3>4. \A k : k \in unsent /\ o = Offer(AccountOf(k, next, Malformed), Sent(k), "malformed")
              => o.event = AccountOf(k, next, Malformed) /\ o.stream = Sent(k)
      BY <3>2
    <3>5. ASSUME ~ (o = Offer(ConfirmedOf(next), [at |-> next, owed |-> unsent, sent |-> {}],
                       IF unsent = {} THEN "none" ELSE "overtaken"))
          PROVE  \E k \in unsent : \E table \in {ledger[next][k], Malformed} :
                   o.event = AccountOf(k, next, table) /\ o.stream = Sent(k)
      BY <3>1, <3>3, <3>4, <3>5
    <3> QED BY <3>5 DEF Sent
  <2> HIDE DEF next, unsent
  <2> QED BY <1>1, <1>2, <2>3, <2>4, <2>5
<1>5. CASE stream.owed = {} /\ ~ (stream.at < tip)
  BY <1>5 DEF Offers
<1> QED BY <1>3, <1>4, <1>5

-----------------------------------------------------------------------------
(* The end of a session                                                    *)

(* A failure or the last drop leaves nothing behind that could go wrong.   *)
LEMMA SessionEnds ==
  ASSUME ClientInv, UNCHANGED <<ledger, tip, servers, reader>>,
         stream' \in Streams, StreamInOrder', overtaken' \in BOOLEAN, overtaken => overtaken',
         faults' \in 0 .. MaxFaults,
         session' = NoSession, confirming' = 0, phase' \in {"idle", "connect", "delay"},
         attempt' \in Attempts, attempt'.buffered = << >>,
         held' \in BOOLEAN,
         \/ held' = held /\ inner' = [inner EXCEPT !.ready = FALSE]
         \/ ~ held' /\ inner' = NoInner /\ reader.step = "idle"
  PROVE  ClientInv'
<1>1. /\ inner \in [tables: Tables, ready: BOOLEAN, confirmedSlot: Slot] /\ tip \in Slot
      /\ reader \in Readers
  BY DEF ClientInv, TypeOK
<1>2. Len(attempt'.buffered) <= BufferCapacity
  BY CountAssumption
<1>3. /\ inner' \in [tables: Tables, ready: BOOLEAN, confirmedSlot: Slot]
      /\ ~ inner'.ready
  BY <1>1, InitialValues
<1>4. TypeOK'
  BY <1>2, <1>3, InitialValues DEF ClientInv, TypeOK, Phases
<1>5. ~ InSession'
  BY DEF InSession
<1>6. NothingLost'
  BY <1>5 DEF NothingLost
<1>7. \A k, s : ~ Buffered(k, s)' /\ (s \in Slot => ~ Staged(k, s)')
  BY InitialValues DEF Buffered, Staged
<1>8. OnlyFromStream'
  BY InitialValues DEF OnlyFromStream
<1>9. WritesInOrder'
  BY <1>7 DEF WritesInOrder, HeldOnce, BufferInOrder, StagedFirst
<1>10. SlotsInOrder' /\ ReplayIsComplete'
  BY <1>5 DEF SlotsInOrder, ReplayIsComplete
<1>11. Published'
  <2>1. ~ held' => inner' = NoInner
    BY <1>1, InitialValues DEF ClientInv, Published, NoInner
  <2>2. inner'.confirmedSlot <= tip
    BY <1>1, InitialValues DEF ClientInv, Published
  <2> QED BY <1>3, <1>5, <2>1, <2>2 DEF Published
<1>12. ReaderIsCurrent'
  <2>1. CASE held' = held /\ inner' = [inner EXCEPT !.ready = FALSE]
    <3>1. inner'.tables = inner.tables /\ inner'.confirmedSlot = inner.confirmedSlot
      BY <1>1, <2>1
    <3> QED BY <2>1, <3>1 DEF ClientInv, ReaderIsCurrent, GetIsNotStale, AsOf
  <2>2. CASE ~ held' /\ inner' = NoInner /\ reader.step = "idle"
    BY <2>2 DEF ReaderIsCurrent, GetIsNotStale
  <2> QED BY <2>1, <2>2
<1> QED BY <1>4, <1>6, <1>8, <1>9, <1>10, <1>11, <1>12 DEF ClientInv

(* Nothing arrives from the stream.                                        *)
LEMMA StreamRests ==
  ASSUME ClientInv, UNCHANGED <<tip, stream, overtaken>>, UNCHANGED faults \/ Fault
  PROVE  /\ stream' \in Streams /\ StreamInOrder'
         /\ overtaken' \in BOOLEAN /\ (overtaken => overtaken') /\ faults' \in 0 .. MaxFaults
<1>1. faults' \in 0 .. MaxFaults
  BY CountAssumption DEF ClientInv, TypeOK, Fault
<1> QED BY <1>1 DEF ClientInv, TypeOK, StreamInOrder

(* The source has failed.                                                  *)
LEMMA SourceFailedInv ==
  ASSUME ClientInv, SourceFailed, phase \in {"connect", "bootstrap", "replay"},
         UNCHANGED <<ledger, tip, servers, reader>>,
         stream' \in Streams, StreamInOrder', overtaken' \in BOOLEAN, overtaken => overtaken',
         faults' \in 0 .. MaxFaults
  PROVE  ClientInv'
<1>1. /\ inner \in [tables: Tables, ready: BOOLEAN, confirmedSlot: Slot] /\ ~ inner.ready
      /\ attempt \in Attempts /\ held \in BOOLEAN
  BY DEF ClientInv, TypeOK, Published
<1>2. inner = [inner EXCEPT !.ready = FALSE]
  BY <1>1
<1>3. PICK offset \in 0 .. SourceCount - 1 : attempt' = Attempt(NextSource, offset)
  <2>1. 0 \in 0 .. SourceCount - 1
    BY CountAssumption
  <2>2. attempt.offset + 1 < SourceCount => attempt.offset + 1 \in 0 .. SourceCount - 1
    BY <1>1, CountAssumption DEF Attempts
  <2> QED BY <2>1, <2>2 DEF SourceFailed
<1>4. attempt' \in Attempts /\ attempt'.buffered = << >>
  BY <1>1, <1>3, NewAttempt, NextSourceType
<1>5. /\ session' = NoSession /\ confirming' = 0 /\ phase' \in {"idle", "connect", "delay"}
      /\ held' = held /\ held' \in BOOLEAN /\ inner' = inner
  BY <1>1 DEF SourceFailed, AfterLastSource
<1> QED BY <1>2, <1>4, <1>5, SessionEnds

(* The session has failed.                                                 *)
LEMMA FollowFailedInv ==
  ASSUME ClientInv, FollowFailed,
         UNCHANGED <<ledger, tip, servers, reader>>,
         stream' \in Streams, StreamInOrder', overtaken' \in BOOLEAN, overtaken => overtaken',
         faults' \in 0 .. MaxFaults
  PROVE  ClientInv'
<1>1. attempt \in Attempts /\ held \in BOOLEAN
  BY DEF ClientInv, TypeOK
<1>2. attempt' \in Attempts /\ attempt'.buffered = << >>
  BY <1>1, NewAttempt, NextSourceType DEF FollowFailed
<1>3. /\ session' = NoSession /\ confirming' = 0 /\ phase' = "delay"
      /\ held' = held /\ held' \in BOOLEAN /\ inner' = [inner EXCEPT !.ready = FALSE]
  BY <1>1 DEF FollowFailed, NotReady
<1> QED BY <1>2, <1>3, SessionEnds

(* The last handle is dropped.                                             *)
LEMMA DropInv == ClientInv /\ Drop => ClientInv'
<1> SUFFICES ASSUME ClientInv, Drop PROVE ClientInv'
  OBVIOUS
<1>1. /\ UNCHANGED <<ledger, tip, servers, reader, stream, overtaken>> /\ Fault
      /\ session' = NoSession /\ confirming' = 0 /\ phase' = "idle" /\ held' = FALSE
      /\ inner' = NoInner /\ reader.step = "idle"
  BY DEF Drop, chain
<1>2. 0 \in 0 .. SourceCount - 1
  BY CountAssumption
<1>3. attempt' \in Attempts /\ attempt'.buffered = << >>
  BY <1>2, NewAttempt DEF Drop
<1> QED BY <1>1, <1>3, StreamRests, SessionEnds

(* The task starts, or retries after the delay.                            *)
LEMMA ConnectInv ==
  ASSUME ClientInv, Connect \/ DelayEnds
  PROVE  ClientInv'
<1>1. /\ UNCHANGED <<ledger, tip, servers, reader, stream, overtaken, faults>>
      /\ UNCHANGED <<held, attempt, session, confirming, inner>>
      /\ phase \in {"idle", "delay"} /\ phase' = "connect"
  BY DEF Connect, DelayEnds, chain, net
<1>2. /\ inner \in [tables: Tables, ready: BOOLEAN, confirmedSlot: Slot] /\ ~ inner.ready
      /\ attempt \in Attempts /\ attempt.buffered = << >> /\ held \in BOOLEAN
      /\ session = NoSession
  BY <1>1 DEF ClientInv, TypeOK, Published, ReplayIsComplete, InSession
<1>3. confirming = 0
  BY <1>1 DEF ClientInv, SlotsInOrder
<1>4. inner' = [inner EXCEPT !.ready = FALSE]
  BY <1>1, <1>2
<1> QED BY <1>1, <1>2, <1>3, <1>4, StreamRests, SessionEnds

-----------------------------------------------------------------------------
(* The chain                                                               *)

(* A table that is as of a slot stays so when the chain grows.             *)
LEMMA AsOfStays ==
  ASSUME ledger \in [Slot -> Tables], tip \in Slot, ConfirmSlot,
         NEW map, NEW a \in Nat, AsOf(map, a .. tip)
  PROVE  \A k \in Key : \E d \in a .. tip' : map[k] = ledger'[d][k]
<1> SUFFICES ASSUME NEW k \in Key
             PROVE  \E d \in a .. tip' : map[k] = ledger'[d][k]
  OBVIOUS
<1>1. PICK d \in a .. tip : map[k] = ledger[d][k]
  BY DEF AsOf
<1>2. d \in a .. tip' /\ ledger'[d] = ledger[d]
  BY <1>1, ChainGrows, InitialValues
<1> QED BY <1>1, <1>2

(* The write of a new slot is one that the stream owes.                    *)
LEMMA ConfirmBlockInv == ClientInv /\ ConfirmBlock => ClientInv'
<1> SUFFICES ASSUME ClientInv, ConfirmBlock PROVE ClientInv'
  OBVIOUS
<1>1. /\ UNCHANGED <<servers, stream, overtaken, faults, inner, reader>>
      /\ UNCHANGED <<phase, held, attempt, session, confirming>>
      /\ ConfirmSlot
  BY DEF ConfirmBlock, net, task
<1>2. /\ ledger \in [Slot -> Tables] /\ tip \in Slot /\ stream \in Streams /\ stream.at \in Slot
      /\ session \in Sessions /\ attempt \in Attempts /\ reader \in Readers
      /\ inner \in [tables: Tables, ready: BOOLEAN, confirmedSlot: Slot]
      /\ \A s \in Slot : s \in Nat
  BY InitialValues DEF ClientInv, TypeOK, Streams
<1>2a. /\ session.bootstrapSlot \in Nat /\ session.confirmedSlot \in Nat /\ confirming \in Nat
       /\ attempt.floor \in Nat /\ tip \in Nat /\ inner.confirmedSlot \in Nat
       /\ stream.at \in Nat
  BY <1>2, InitialValues DEF ClientInv, TypeOK, Sessions, Attempts
<1>3. /\ tip' = tip + 1 /\ tip' \in Slot /\ ledger' \in [Slot -> Tables]
      /\ \A s \in 0 .. tip : ledger'[s] = ledger[s]
      /\ \A s \in 1 .. tip : Changed(s)' = Changed(s)
  BY <1>1, <1>2, ChainGrows
<1>4. TypeOK'
  BY <1>1, <1>3 DEF ClientInv, TypeOK
<1>5. StreamInOrder'
  BY <1>1, <1>2a, <1>3 DEF ClientInv, StreamInOrder
<1>6. \A k, s : /\ StreamOwes(k, s)' <=> StreamOwes(k, s)
                /\ Buffered(k, s)' <=> Buffered(k, s)
                /\ Staged(k, s)' <=> Staged(k, s)
                /\ Outstanding(k, s)' <=> Outstanding(k, s)
  BY <1>1, SameWrites
<1>7. \A k \in Key : StreamOwes(k, tip + 1)
  BY <1>2 DEF ClientInv, StreamInOrder, StreamOwes
<1>8. FetchIsCovered => FetchIsCovered'
  <2> SUFFICES ASSUME FetchIsCovered,
                      NEW s \in (attempt.floor + 1) .. tip', NEW k \in Changed(s)'
               PROVE  StreamOwes(k, s)' \/ Buffered(k, s)'
    BY <1>1 DEF FetchIsCovered
  <2>1. k \in Key
    BY DEF Changed
  <2>2. CASE s = tip + 1
    BY <1>6, <1>7, <2>1, <2>2
  <2>3. CASE s # tip + 1
    <3>1. s \in (attempt.floor + 1) .. tip /\ s \in 1 .. tip
      BY <1>2a, <1>3, <2>3
    <3>2. k \in Changed(s)
      BY <1>3, <3>1
    <3> QED BY <1>6, <3>1, <3>2 DEF FetchIsCovered
  <2> QED BY <2>2, <2>3
<1>9. InSession /\ SessionOnTrack => SessionOnTrack'
  <2> SUFFICES ASSUME InSession, SessionOnTrack, NEW k \in Key
               PROVE  (\E d \in session.bootstrapSlot .. Latest :
                         \E f \in session.bootstrapSlot .. d : OnTrack(k, f, d))'
    BY DEF SessionOnTrack
  <2>1. Latest \in Slot /\ Latest <= tip
    BY LatestFacts
  <2>2. Latest' \in Slot /\ Latest <= Latest'
    <3>1. Latest' = IF servers = "paged" THEN tip' ELSE Max({session.confirmedSlot, confirming})
      BY <1>1 DEF Latest
    <3>2. tip \in Slot /\ tip <= tip' /\ Latest \in Nat
      BY <1>2, <1>2a, <1>3, <2>1
    <3>3. CASE servers = "paged"
      BY <1>3, <2>1, <3>1, <3>2, <3>3 DEF Latest
    <3>4. CASE servers # "paged"
      <4>1. Latest' = Latest
        BY <3>1, <3>4 DEF Latest
      <4> QED BY <2>1, <3>2, <4>1
    <3> QED BY <3>3, <3>4
  <2>3. PICK d \in session.bootstrapSlot .. Latest :
          \E f \in session.bootstrapSlot .. d : OnTrack(k, f, d)
    BY DEF SessionOnTrack
  <2>4. PICK f \in session.bootstrapSlot .. d : OnTrack(k, f, d)
    BY <2>3
  <2>0. f \in Nat /\ Latest \in Nat /\ Latest' \in Nat
    BY <1>2, <1>2a, <2>1, <2>2, <2>3, <2>4
  <2>5. d \in session'.bootstrapSlot .. Latest' /\ f \in session'.bootstrapSlot .. d /\ d \in 0 .. tip
    BY <1>1, <1>2a, <2>0, <2>1, <2>2
  <2>6. session'.tables[k] = ledger'[d][k]
    BY <1>1, <1>3, <2>4, <2>5 DEF OnTrack
  <2>7. ASSUME NEW s \in (f + 1) .. tip', k \in Changed(s)'
        PROVE  Outstanding(k, s)'
    <3>1. CASE s = tip + 1
      BY <1>6, <1>7, <3>1 DEF Outstanding
    <3>2. CASE s # tip + 1
      <4>1. s \in (f + 1) .. tip /\ s \in 1 .. tip
        BY <1>2a, <1>3, <2>0, <3>2
      <4>2. k \in Changed(s)
        BY <1>3, <2>7, <4>1
      <4> QED BY <1>6, <2>4, <4>1, <4>2 DEF OnTrack
    <3> QED BY <3>1, <3>2
  <2>8. \A s \in session'.bootstrapSlot .. (f - 1) : ~ Outstanding(k, s)'
    BY <1>1, <1>6, <2>4 DEF OnTrack
  <2>9. OnTrack(k, f, d)'
    BY <1>1, <2>4, <2>6, <2>7, <2>8 DEF OnTrack
  <2> QED BY <2>5, <2>9
<1>10. NothingLost'
  <2>1. InSession' <=> InSession
    BY <1>1 DEF InSession
  <2> QED BY <1>1, <1>8, <1>9, <2>1 DEF ClientInv, NothingLost
<1>11. OnlyFromStream'
  <2>1. ASSUME NEW u \in Updates, FromLedger(u) PROVE FromLedger(u)'
    BY <1>2, <1>3, <2>1 DEF FromLedger
  <2>2. ASSUME NEW i \in DOMAIN attempt.buffered
        PROVE  IF attempt.buffered[i].type = "Account"
               THEN FromLedger(attempt.buffered[i].update)'
               ELSE attempt.buffered[i].slot <= stream.at
    <3>1. attempt.buffered[i] \in StreamEvents
      BY <1>2 DEF Attempts
    <3>2. CASE attempt.buffered[i].type = "Account"
      <4>1. PICK u \in Updates : u = attempt.buffered[i].update
        BY <3>1, <3>2 DEF StreamEvents
      <4>2. FromLedger(u)
        BY <3>2, <4>1 DEF ClientInv, OnlyFromStream
      <4> QED BY <1>1, <2>1, <3>2, <4>1, <4>2
    <3> QED BY <3>2 DEF ClientInv, OnlyFromStream
  <2>3. ASSUME NEW s \in Slot, NEW i \in DOMAIN session.pending[s]
        PROVE  /\ session.bootstrapSlot <= s
               /\ session.pending[s][i].slot = s
               /\ FromLedger(session.pending[s][i])'
    <3>1. PICK u \in Updates : u = session.pending[s][i]
      BY <1>2 DEF Sessions
    <3>2. FromLedger(u)
      BY <3>1 DEF ClientInv, OnlyFromStream
    <3> QED BY <1>1, <2>1, <3>1, <3>2 DEF ClientInv, OnlyFromStream
  <2> QED BY <1>1, <2>2, <2>3 DEF OnlyFromStream
<1>12. WritesInOrder'
  BY <1>1, <1>6 DEF ClientInv, WritesInOrder, HeldOnce, BufferInOrder, StagedFirst, IsWrite
<1>13. SlotsInOrder' /\ ReplayIsComplete'
  <2>1. SlotsInOrder'
    BY <1>1, <1>2a, <1>3 DEF ClientInv, SlotsInOrder, InSession
  <2>2. ReplayIsComplete'
    BY <1>1 DEF ClientInv, ReplayIsComplete, InSession, NoSession, NewSession
  <2> QED BY <2>1, <2>2
<1>14. Published'
  BY <1>1, <1>2a, <1>3 DEF ClientInv, Published, InSession
<1>15. ReaderIsCurrent'
  <2>1. ASSUME NEW map, NEW a \in Nat, AsOf(map, a .. tip)
        PROVE  \A k \in Key : \E d \in a .. tip' : map[k] = ledger'[d][k]
    BY <1>1, <1>2, <2>1, AsOfStays
  <2>2. reader.step # "idle" => reader.slot \in Nat
    BY <1>2, ReaderCases
  <2>3. GetIsNotStale'
    <3>1. \A d \in reader.slot .. tip : reader.step # "idle" => d \in 0 .. tip /\ d \in reader.slot .. tip'
      BY <1>2, <1>3, <2>2
    <3> QED BY <1>1, <1>3, <3>1 DEF ClientInv, ReaderIsCurrent, GetIsNotStale
  <2>4. inner.confirmedSlot \in Nat
    BY <1>2
  <2>5. ReaderIsCurrent
    BY DEF ClientInv
  <2>6. ASSUME NEW map, NEW a \in Nat, AsOf(map, a .. tip)
        PROVE  AsOf(map, a .. tip)'
    BY <2>1, <2>6 DEF AsOf
  <2>7. ASSUME servers # "behind", ~ overtaken, held PROVE AsOf(inner.tables, inner.confirmedSlot .. tip)'
    BY <1>1, <2>4, <2>5, <2>6, <2>7 DEF ReaderIsCurrent
  <2>8. ASSUME servers # "behind", ~ overtaken, reader.step = "loaded", NEW map \in reader.replaced
        PROVE  AsOf(map, reader.slot .. tip)'
    BY <1>1, <2>2, <2>5, <2>6, <2>8 DEF ReaderIsCurrent
  <2> QED BY <1>1, <2>3, <2>5, <2>7, <2>8 DEF ReaderIsCurrent
<1> QED BY <1>4, <1>5, <1>10, <1>11, <1>12, <1>13, <1>14, <1>15 DEF ClientInv

-----------------------------------------------------------------------------
(* The snapshot and the updates buffered meanwhile                         *)

(* A reader has what it had, when neither the chain nor what it sees       *)
(* changes.                                                                *)
LEMMA ReaderRests ==
  ASSUME ReaderIsCurrent, UNCHANGED <<ledger, tip, servers, held, inner, reader>>,
         overtaken => overtaken'
  PROVE  ReaderIsCurrent'
BY DEF ReaderIsCurrent, GetIsNotStale, AsOf

(* Between sessions nothing is staged or being confirmed.                  *)
LEMMA NoSessionFacts ==
  ASSUME ClientInv, ~ InSession
  PROVE  /\ session = NoSession /\ confirming = 0
         /\ \A s \in Slot : session.pending[s] = << >>
         /\ \A k, s : s \in Slot => ~ Staged(k, s)
<1>1. session = NoSession
  BY DEF ClientInv, ReplayIsComplete
<1>2. confirming = 0
  BY DEF ClientInv, SlotsInOrder, InSession
<1> QED BY <1>1, <1>2, InitialValues DEF Staged

(* A stream and a request: the stream starts no later than the snapshot.   *)
LEMMA SubscribeInv == ClientInv /\ Subscribe => ClientInv'
<1> SUFFICES ASSUME ClientInv, Subscribe PROVE ClientInv'
  OBVIOUS
<1>1. /\ UNCHANGED <<ledger, tip, servers, overtaken, faults, held, session, confirming, inner, reader>>
      /\ phase = "connect" /\ phase' = "bootstrap"
  BY DEF Subscribe, chain
<1>2. PICK p \in 1 .. tip :
        /\ stream' = [at |-> p, owed |-> {}, sent |-> {}]
        /\ attempt' = [attempt EXCEPT
             !.floor = IF servers = "behind" THEN 1 ELSE Max({p, inner.confirmedSlot})]
  BY DEF Subscribe
<1>3. /\ tip \in Slot /\ tip <= MaxSlot /\ tip \in Nat /\ p \in Slot /\ p \in Nat /\ 1 \in Slot
      /\ attempt \in Attempts /\ attempt.buffered = << >> /\ Len(attempt.buffered) <= BufferCapacity
      /\ inner.confirmedSlot \in Slot /\ inner.confirmedSlot \in Nat
  BY <1>1, CountAssumption DEF ClientInv, TypeOK, ReplayIsComplete, Slot
<1>4. Max({p, inner.confirmedSlot}) = IF p >= inner.confirmedSlot THEN p ELSE inner.confirmedSlot
  BY <1>3, MaxOfTwo
<1>5. PICK floor \in Slot : /\ attempt' = [attempt EXCEPT !.floor = floor]
                            /\ servers # "behind" => p <= floor /\ inner.confirmedSlot <= floor
                            /\ floor > 0
  BY <1>2, <1>3, <1>4
<1>6. /\ attempt' \in Attempts /\ attempt'.floor = floor /\ attempt'.buffered = << >>
      /\ Len(attempt'.buffered) <= BufferCapacity
  BY <1>3, <1>5 DEF Attempts
<1>7. stream' \in Streams /\ StreamInOrder'
  BY <1>1, <1>2, <1>3 DEF Streams, StreamInOrder
<1>8. TypeOK'
  BY <1>1, <1>6, <1>7 DEF ClientInv, TypeOK, Phases
<1>9. ~ InSession /\ ~ InSession'
  BY <1>1 DEF InSession
<1>10. NothingLost'
  <2>1. ASSUME servers # "behind", NEW s \in (floor + 1) .. tip, NEW k
        PROVE  StreamOwes(k, s)'
    <3>1. s \in Int /\ s >= p + 1
      BY <1>3, <1>5, <2>1, InitialValues
    <3> QED BY <1>2, <1>3, <3>1 DEF StreamOwes
  <2> QED BY <1>1, <1>6, <1>9, <2>1 DEF NothingLost, FetchIsCovered
<1>11. OnlyFromStream'
  BY <1>1, <1>6, <1>9, NoSessionFacts DEF OnlyFromStream
<1>12. WritesInOrder'
  <2>1. \A k, s : ~ Buffered(k, s)' /\ (s \in Slot => ~ Staged(k, s)')
    BY <1>1, <1>6, <1>9, NoSessionFacts DEF Buffered, Staged
  <2> QED BY <1>6, <2>1 DEF WritesInOrder, HeldOnce, BufferInOrder, StagedFirst
<1>13. SlotsInOrder' /\ ReplayIsComplete'
  BY <1>1, <1>5, <1>6, <1>9, NoSessionFacts DEF SlotsInOrder, ReplayIsComplete
<1>14. Published'
  BY <1>1, <1>5, <1>6, <1>9 DEF ClientInv, Published
<1>15. ReaderIsCurrent'
  BY <1>1, ReaderRests DEF ClientInv
<1> QED BY <1>7, <1>8, <1>10, <1>11, <1>12, <1>13, <1>14, <1>15 DEF ClientInv

(* An event that is buffered during the fetch.                             *)
LEMMA BufferFacts ==
  ASSUME attempt \in Attempts, NEW e \in StreamEvents,
         attempt'.buffered = Append(attempt.buffered, e)
  PROVE  /\ \A k, s : Buffered(k, s)' <=> Buffered(k, s) \/ IsWrite(e, k, s)
         /\ \A i \in DOMAIN attempt'.buffered :
              \/ i \in DOMAIN attempt.buffered /\ attempt'.buffered[i] = attempt.buffered[i]
              \/ i = Len(attempt.buffered) + 1 /\ attempt'.buffered[i] = e
         /\ \A i \in DOMAIN attempt.buffered : i < Len(attempt.buffered) + 1 /\ i \in Nat
<1> DEFINE q == attempt.buffered
<1>1. q \in Seq(StreamEvents)
  BY DEF Attempts
<1>2. /\ DOMAIN Append(q, e) = DOMAIN q \cup {Len(q) + 1}
      /\ \A i \in DOMAIN q : Append(q, e)[i] = q[i] /\ i \in Nat /\ i < Len(q) + 1
      /\ Append(q, e)[Len(q) + 1] = e
  <2> HIDE DEF q
  <2> QED BY <1>1, AppendFacts
<1> QED BY <1>2 DEF Buffered

(* During the fetch: what the stream sends is buffered in order, or the    *)
(* attempt fails because the buffer is full.                               *)
LEMMA BootstrapReceivesInv ==
  ASSUME ClientInv, NEW o \in Offers, BootstrapReceives(o)
  PROVE  ClientInv'
<1>1. Receive(o) /\ phase = "bootstrap" /\ attempt \in Attempts
  BY DEF BootstrapReceives, ClientInv, TypeOK
<1>2. /\ stream' \in Streams /\ StreamInOrder'
      /\ overtaken' \in BOOLEAN /\ (overtaken => overtaken') /\ faults' \in 0 .. MaxFaults
      /\ UNCHANGED <<ledger, tip, servers, reader>>
  BY <1>1, ReceiveFacts
<1>3. CASE SourceFailed
  BY <1>1, <1>2, <1>3, SourceFailedInv
<1>4. CASE /\ Len(attempt.buffered) < BufferCapacity
           /\ attempt' = [attempt EXCEPT !.buffered = Append(@, o.event)]
           /\ UNCHANGED <<phase, held, session, confirming, inner>>
  <2> DEFINE e == o.event
  <2>1. e \in StreamEvents
    BY <1>1, ReceiveFacts
  <2>2. /\ attempt' \in Attempts /\ attempt'.buffered = Append(attempt.buffered, e)
        /\ attempt'.floor = attempt.floor /\ Len(attempt'.buffered) <= BufferCapacity
    <3>1. attempt.buffered \in Seq(StreamEvents) /\ Append(attempt.buffered, e) \in Seq(StreamEvents)
      BY <1>1, <2>1 DEF Attempts
    <3>2. /\ attempt' \in Attempts /\ attempt'.buffered = Append(attempt.buffered, e)
          /\ attempt'.floor = attempt.floor
      BY <1>1, <1>4, <3>1 DEF Attempts
    <3>3. Len(attempt.buffered) \in Nat /\ Len(Append(attempt.buffered, e)) = Len(attempt.buffered) + 1
      BY <2>1, <3>1, AppendFacts
    <3> QED BY <1>4, <3>2, <3>3, CountAssumption
  <2>3. /\ \A k, s : Buffered(k, s)' <=> Buffered(k, s) \/ IsWrite(e, k, s)
        /\ \A i \in DOMAIN attempt'.buffered :
             \/ i \in DOMAIN attempt.buffered /\ attempt'.buffered[i] = attempt.buffered[i]
             \/ i = Len(attempt.buffered) + 1 /\ attempt'.buffered[i] = e
        /\ \A i \in DOMAIN attempt.buffered : i < Len(attempt.buffered) + 1 /\ i \in Nat
    BY <1>1, <2>1, <2>2, BufferFacts
  <2>4. /\ \A k \in Key, s \in Slot : IsWrite(e, k, s) => StreamOwes(k, s) /\ ~ StreamOwes(k, s)'
        /\ \A k \in Key, s \in Slot : StreamOwes(k, s)' => StreamOwes(k, s)
        /\ \A k \in Key, s \in Slot :
             k \in Changed(s) /\ StreamOwes(k, s) => StreamOwes(k, s)' \/ IsWrite(e, k, s)
        /\ IF e.type = "Account" THEN FromLedger(e.update) ELSE e.slot <= stream'.at
        /\ stream.at <= stream'.at
        /\ stream.at \in Nat /\ stream'.at \in Nat /\ tip \in Nat /\ attempt.floor \in Nat /\ tip \in Slot
    <3>1. stream.at \in Nat /\ stream'.at \in Nat /\ tip \in Nat /\ attempt.floor \in Nat /\ tip \in Slot
      BY <1>1, <1>2, InitialValues DEF ClientInv, TypeOK, Streams, Attempts
    <3> QED BY <1>1, <3>1, ReceiveFacts DEF IsWrite
  <2> HIDE DEF e
  <2>5. TypeOK'
    BY <1>2, <1>4, <2>2 DEF ClientInv, TypeOK
  <2>6. ~ InSession /\ ~ InSession'
    BY <1>1, <1>4 DEF InSession
  <2>7. NothingLost'
    <3> SUFFICES ASSUME servers # "behind", NEW s \in (attempt.floor + 1) .. tip, NEW k \in Changed(s)
                 PROVE  StreamOwes(k, s)' \/ Buffered(k, s)'
      BY <1>2, <2>2, <2>6 DEF NothingLost, FetchIsCovered, Changed
    <3>1. StreamOwes(k, s) \/ Buffered(k, s)
      BY <1>1 DEF ClientInv, NothingLost, FetchIsCovered
    <3>2. k \in Key /\ s \in Slot
      <4>1. tip \in Nat /\ attempt.floor \in Nat /\ tip <= MaxSlot /\ MaxSlot \in Nat
        BY <2>4, InitialValues, CountAssumption
      <4> QED BY <4>1 DEF Changed, Slot
    <3> QED BY <2>3, <2>4, <3>1, <3>2
  <2>8. OnlyFromStream'
    <3>1. \A i \in DOMAIN attempt.buffered :
            IF attempt.buffered[i].type = "Account"
            THEN FromLedger(attempt.buffered[i].update) ELSE attempt.buffered[i].slot <= stream'.at
      <4> SUFFICES ASSUME NEW i \in DOMAIN attempt.buffered, attempt.buffered[i].type # "Account"
                   PROVE  attempt.buffered[i].slot <= stream'.at
        BY DEF ClientInv, OnlyFromStream
      <4>1. attempt.buffered[i].slot <= stream.at
        BY DEF ClientInv, OnlyFromStream
      <4>2. attempt.buffered[i].slot \in Nat
        BY <1>1, InitialValues DEF Attempts, StreamEvents
      <4> QED BY <2>4, <4>1, <4>2
    <3>2. \A u : FromLedger(u)' <=> FromLedger(u)
      BY <1>2 DEF FromLedger
    <3>3. \A i \in DOMAIN attempt'.buffered :
            IF attempt'.buffered[i].type = "Account"
            THEN FromLedger(attempt'.buffered[i].update) ELSE attempt'.buffered[i].slot <= stream'.at
      BY <2>3, <2>4, <3>1
    <3>4. \A s \in Slot : session'.pending[s] = << >>
      BY <1>4, <2>6, NoSessionFacts
    <3> QED BY <3>3, <3>4, <1>2, SMTT(30) DEF OnlyFromStream, FromLedger
  <2>9. WritesInOrder'
    <3>1. \A k \in Key, s \in Slot : ~ Staged(k, s)'
      BY <1>4, <2>6, NoSessionFacts DEF Staged
    <3>2. HeldOnce'
      BY <2>3, <2>4, <3>1 DEF ClientInv, WritesInOrder, HeldOnce
    <3>3. ASSUME NEW i \in DOMAIN attempt'.buffered, NEW j \in DOMAIN attempt'.buffered, i < j,
                 NEW k \in Key, NEW s \in Slot, NEW t \in Slot,
                 IsWrite(attempt'.buffered[i], k, s), IsWrite(attempt'.buffered[j], k, t)
          PROVE  s <= t
      <4>1. CASE i \in DOMAIN attempt.buffered /\ j \in DOMAIN attempt.buffered
                 /\ attempt'.buffered[i] = attempt.buffered[i] /\ attempt'.buffered[j] = attempt.buffered[j]
        BY <3>3, <4>1 DEF ClientInv, WritesInOrder, BufferInOrder
      <4>2. CASE i \in DOMAIN attempt.buffered /\ attempt'.buffered[i] = attempt.buffered[i]
                 /\ attempt'.buffered[j] = e
        <5>1. ~ StreamOwes(k, s)
          BY <3>3, <4>2 DEF ClientInv, WritesInOrder, HeldOnce, Buffered
        <5>2. StreamOwes(k, t)
          BY <2>4, <3>3, <4>2
        <5>3. ~ (t < s)
          BY <5>1, <5>2, NewestAreOwed DEF ClientInv, TypeOK
        <5> QED BY <5>3, InitialValues
      <4> QED BY <2>3, <3>3, <4>1, <4>2
    <3>4. BufferInOrder'
      BY <3>3 DEF BufferInOrder, IsWrite
    <3> QED BY <3>1, <3>2, <3>4 DEF WritesInOrder, StagedFirst
  <2>10. SlotsInOrder' /\ ReplayIsComplete'
    BY <1>1, <1>4, <2>2, <2>6, NoSessionFacts DEF ClientInv, SlotsInOrder, ReplayIsComplete
  <2>11. Published'
    BY <1>2, <1>4, <2>2, <2>6 DEF ClientInv, Published
  <2>12. ReaderIsCurrent'
    BY <1>2, <1>4, ReaderRests DEF ClientInv
  <2> QED BY <1>2, <2>5, <2>7, <2>8, <2>9, <2>10, <2>11, <2>12 DEF ClientInv
<1> QED BY <1>3, <1>4 DEF BootstrapReceives

(* The stream breaks, or a snapshot server fails, before there is a        *)
(* snapshot.                                                               *)
LEMMA BootstrapFailsInv ==
  ASSUME ClientInv, SubscribeFails \/ BootstrapStreamFails \/ SnapshotFails
  PROVE  ClientInv'
<1>1. /\ UNCHANGED <<ledger, tip, servers, stream, overtaken, reader>> /\ Fault
      /\ phase \in {"connect", "bootstrap"} /\ attempt \in Attempts
  BY DEF SubscribeFails, BootstrapStreamFails, SnapshotFails, chain, ClientInv, TypeOK
<1>2. /\ stream' \in Streams /\ StreamInOrder'
      /\ overtaken' \in BOOLEAN /\ (overtaken => overtaken') /\ faults' \in 0 .. MaxFaults
  BY <1>1, StreamRests
<1>3. CASE SourceFailed
  BY <1>1, <1>2, <1>3, SourceFailedInv
<1>4. CASE /\ phase = "bootstrap"
           /\ attempt.server + 1 < ServerCount
           /\ attempt' = [attempt EXCEPT !.server = @ + 1]
           /\ UNCHANGED <<phase, held, session, confirming, inner>>
  <2>1. /\ attempt' \in Attempts /\ attempt'.buffered = attempt.buffered
        /\ attempt'.floor = attempt.floor
    BY <1>1, <1>4, CountAssumption DEF Attempts
  <2>2. TypeOK'
    BY <1>1, <1>2, <1>4, <2>1 DEF ClientInv, TypeOK
  <2>3. \A k, s : /\ StreamOwes(k, s)' <=> StreamOwes(k, s)
                  /\ Buffered(k, s)' <=> Buffered(k, s)
                  /\ Staged(k, s)' <=> Staged(k, s)
    BY <1>1, <1>4, <2>1 DEF StreamOwes, Buffered, Staged, IsWrite
  <2>4. ~ InSession /\ ~ InSession'
    BY <1>4 DEF InSession
  <2>5. NothingLost'
    BY <1>1, <1>4, <2>1, <2>3, <2>4 DEF ClientInv, NothingLost, FetchIsCovered, Changed
  <2>6. OnlyFromStream'
    <3>1. OnlyFromStream
      BY DEF ClientInv
    <3> QED BY <1>1, <1>4, <2>1, <3>1, OnlyFromStreamStays
  <2>7. WritesInOrder'
    BY <2>1, <2>3 DEF ClientInv, WritesInOrder, HeldOnce, BufferInOrder, StagedFirst, IsWrite
  <2>8. SlotsInOrder' /\ ReplayIsComplete'
    BY <1>4, <2>1, <2>4, NoSessionFacts DEF ClientInv, SlotsInOrder, ReplayIsComplete
  <2>9. Published'
    BY <1>1, <1>4, <2>1, <2>4 DEF ClientInv, Published
  <2>10. ReaderIsCurrent'
    BY <1>1, <1>4, ReaderRests DEF ClientInv
  <2> QED BY <1>2, <2>2, <2>5, <2>6, <2>7, <2>8, <2>9, <2>10 DEF ClientInv
<1> QED BY <1>3, <1>4 DEF SubscribeFails, BootstrapStreamFails, SnapshotFails

(* The snapshot: it lacks only what is buffered or still to come.          *)
LEMMA SnapshotFetchedInv ==
  ASSUME ClientInv, NEW f \in Fetchable, SnapshotFetched(f)
  PROVE  ClientInv'
<1>1. /\ UNCHANGED <<ledger, tip, servers, stream, overtaken, faults, held, confirming, inner, reader>>
      /\ phase = "bootstrap" /\ phase' = "replay"
      /\ session' = NewSession(f)
      /\ attempt' = [attempt EXCEPT !.floor = 0, !.server = 0]
  BY DEF SnapshotFetched, chain, net
<1>2. /\ attempt \in Attempts /\ tip \in Slot /\ tip \in Nat /\ attempt.floor \in Nat
      /\ ledger \in [Slot -> Tables] /\ inner.confirmedSlot \in Nat /\ tip <= MaxSlot
  BY InitialValues DEF ClientInv, TypeOK, Attempts
<1>3. /\ f.slot \in attempt.floor .. tip /\ f.tables \in Tables
      /\ AsOf(f.tables, PageSlots(f.slot))
  BY DEF Fetchable
<1>4. f.slot \in Nat /\ f.slot \in Slot /\ f.slot <= tip /\ attempt.floor <= f.slot
  BY <1>2, <1>3, CountAssumption DEF Slot
<1>5. /\ session' \in Sessions /\ session'.tables = f.tables
      /\ session'.bootstrapSlot = f.slot /\ session'.confirmedSlot = f.slot
      /\ \A s \in Slot : session'.pending[s] = << >>
  BY <1>1, <1>3, <1>4 DEF NewSession, Sessions
<1>6. /\ attempt' \in Attempts /\ attempt'.buffered = attempt.buffered
  <2>1. 0 \in Slot /\ 0 \in 0 .. ServerCount - 1
    BY CountAssumption DEF Slot
  <2> QED BY <1>1, <1>2, <2>1 DEF Attempts
<1>7. TypeOK'
  BY <1>1, <1>5, <1>6 DEF ClientInv, TypeOK, Phases
<1>8. ~ InSession /\ InSession'
  BY <1>1 DEF InSession
<1>9. confirming = 0 /\ confirming' = 0
  BY <1>1, <1>8, NoSessionFacts
<1>10. \A k, s : /\ StreamOwes(k, s)' <=> StreamOwes(k, s)
                 /\ Buffered(k, s)' <=> Buffered(k, s)
                 /\ s \in Slot => ~ Staged(k, s)'
  <2>1. \A k, s : s \in Slot => ~ Staged(k, s)'
    BY <1>5 DEF Staged
  <2> QED BY <1>1, <1>6, <2>1 DEF StreamOwes, Buffered, IsWrite
<1>11. servers # "behind" => SessionOnTrack'
  <2> SUFFICES ASSUME servers # "behind", NEW k \in Key
               PROVE  (\E d \in session.bootstrapSlot .. Latest :
                         \E b \in session.bootstrapSlot .. d : OnTrack(k, b, d))'
    BY DEF SessionOnTrack
  <2>1. Latest' = IF servers = "paged" THEN tip ELSE f.slot
    <3>1. Max({f.slot, 0}) = f.slot
      BY <1>4, MaxOfTwo
    <3> QED BY <1>1, <1>5, <1>9, <3>1 DEF Latest
  <2>2. PICK d \in PageSlots(f.slot) : f.tables[k] = ledger[d][k]
    BY <1>3 DEF AsOf
  <2>3. /\ d \in session'.bootstrapSlot .. Latest'
        /\ f.slot \in session'.bootstrapSlot .. d
    BY <1>2, <1>4, <1>5, <2>1, <2>2 DEF PageSlots
  <2>4. ASSUME NEW s \in (f.slot + 1) .. tip, k \in Changed(s)
        PROVE  Outstanding(k, s)'
    <3>1. s \in (attempt.floor + 1) .. tip
      BY <1>2, <1>4
    <3>2. StreamOwes(k, s) \/ Buffered(k, s)
      BY <1>1, <2>4, <3>1 DEF ClientInv, NothingLost, FetchIsCovered
    <3> QED BY <1>10, <3>2 DEF Outstanding
  <2>5. session'.tables[k] = ledger'[d][k]
    BY <1>1, <1>5, <2>2
  <2>6. \A s \in (f.slot + 1) .. tip' : k \in Changed(s)' => Outstanding(k, s)'
    BY <1>1, <2>4 DEF Changed
  <2>7. \A s \in session'.bootstrapSlot .. (f.slot - 1) : FALSE
    BY <1>4, <1>5
  <2>8. servers # "paged" => f.slot = d
    BY <1>4, <2>2 DEF PageSlots
  <2>9. OnTrack(k, f.slot, d)'
    BY <1>1, <2>5, <2>6, <2>7, <2>8 DEF OnTrack
  <2> QED BY <2>3, <2>9
<1>12. NothingLost'
  BY <1>1, <1>11 DEF NothingLost
<1>13. StreamInOrder' /\ OnlyFromStream'
  <2>1. StreamInOrder'
    BY <1>1 DEF ClientInv, StreamInOrder
  <2>2. ASSUME NEW i \in DOMAIN attempt'.buffered
        PROVE  LET e == attempt'.buffered[i]
               IN  IF e.type = "Account"
                   THEN /\ e.update.slot \in 1 .. tip'
                        /\ e.update.table \in {ledger'[e.update.slot][e.update.key], Malformed}
                   ELSE e.slot <= stream'.at
    <3>1. PICK e : e = attempt'.buffered[i] /\ e = attempt.buffered[i] /\ i \in DOMAIN attempt.buffered
      BY <1>6
    <3>2. IF e.type = "Account" THEN FromLedger(e.update) ELSE e.slot <= stream.at
      BY <3>1 DEF ClientInv, OnlyFromStream
    <3> QED BY <1>1, <3>1, <3>2 DEF FromLedger
  <2>3. \A s \in Slot : session'.pending[s] = << >>
    BY <1>5
  <2>4. OnlyFromStream'
    BY ONLY <2>2, <2>3 DEF OnlyFromStream, FromLedger
  <2> QED BY <2>1, <2>4
<1>14. WritesInOrder'
  BY <1>6, <1>10 DEF ClientInv, WritesInOrder, HeldOnce, BufferInOrder, StagedFirst, IsWrite
<1>15. SlotsInOrder' /\ ReplayIsComplete'
  <2>1. 0 < f.slot
    BY <1>1, <1>2, <1>4 DEF ClientInv, SlotsInOrder
  <2> QED BY <1>1, <1>4, <1>5, <1>8, <1>9, <2>1 DEF SlotsInOrder, ReplayIsComplete
<1>16. Published'
  <2>1. servers # "behind" => inner.confirmedSlot <= f.slot
    BY <1>1, <1>2, <1>4 DEF ClientInv, Published
  <2> QED BY <1>1, <1>5, <1>8, <2>1 DEF ClientInv, Published
<1>17. ReaderIsCurrent'
  BY <1>1, ReaderRests DEF ClientInv
<1> QED BY <1>7, <1>12, <1>13, <1>14, <1>15, <1>16, <1>17 DEF ClientInv

-----------------------------------------------------------------------------
(* Queueing                                                                *)

(* queue_update, when it accepts: staged last, if the snapshot did not     *)
(* cover the slot.                                                         *)
LEMMA QueueFacts ==
  ASSUME session \in Sessions, NEW u \in Updates, session' = Queued(session, u)
  PROVE  /\ session' \in Sessions /\ session'.tables = session.tables
         /\ session'.bootstrapSlot = session.bootstrapSlot
         /\ session'.confirmedSlot = session.confirmedSlot
         /\ \A k \in Key, s \in Slot :
              Staged(k, s)' <=>
                Staged(k, s) \/ (u.key = k /\ u.slot = s /\ session.bootstrapSlot <= s)
         /\ \A s \in Slot : s # u.slot => session'.pending[s] = session.pending[s]
         /\ u.slot < session.bootstrapSlot => session' = session
         /\ \A s \in Slot : \A i \in DOMAIN session'.pending[s] :
              \/ i \in DOMAIN session.pending[s] /\ session'.pending[s][i] = session.pending[s][i]
              \/ session'.pending[s][i] = u /\ u.slot = s /\ session.bootstrapSlot <= s
<1>1. u.slot \in Slot /\ u.slot \in Nat /\ session.bootstrapSlot \in Nat
  BY InitialValues DEF Updates, Sessions
<1>2. CASE u.slot < session.bootstrapSlot
  <2>1. session' = session
    BY <1>2 DEF Queued
  <2>2. \A k, s : Staged(k, s)' <=> Staged(k, s)
    BY <2>1 DEF Staged
  <2>3. \A s \in Slot : ~ (u.slot = s /\ session.bootstrapSlot <= s)
    BY <1>1, <1>2
  <2> QED BY <2>1, <2>2, <2>3
<1>3. CASE ~ (u.slot < session.bootstrapSlot)
  <2>1. session' = [session EXCEPT !.pending[u.slot] = Append(@, u)]
    BY <1>3 DEF Queued
  <2>2. session.pending \in [Slot -> Seq(Updates)]
    BY DEF Sessions
  <2>3. \A s \in Slot : session'.pending[s] =
          IF s = u.slot THEN Append(session.pending[s], u) ELSE session.pending[s]
    BY <1>1, <2>1, <2>2 DEF Sessions
  <2>4. ASSUME NEW s \in Slot
        PROVE  /\ Append(session.pending[s], u) \in Seq(Updates)
               /\ DOMAIN Append(session.pending[s], u) =
                    DOMAIN session.pending[s] \cup {Len(session.pending[s]) + 1}
               /\ \A i \in DOMAIN session.pending[s] :
                    Append(session.pending[s], u)[i] = session.pending[s][i]
               /\ Append(session.pending[s], u)[Len(session.pending[s]) + 1] = u
    <3>1. session.pending[s] \in Seq(Updates)
      BY <2>2
    <3> QED BY <3>1, AppendFacts
  <2>4a. /\ DOMAIN session'.pending[u.slot] =
              DOMAIN session.pending[u.slot] \cup {Len(session.pending[u.slot]) + 1}
         /\ \A i \in DOMAIN session.pending[u.slot] :
              session'.pending[u.slot][i] = session.pending[u.slot][i]
         /\ session'.pending[u.slot][Len(session.pending[u.slot]) + 1] = u
    BY <1>1, <2>3, <2>4
  <2>5. /\ session' \in Sessions /\ session'.tables = session.tables
        /\ session'.bootstrapSlot = session.bootstrapSlot
        /\ session'.confirmedSlot = session.confirmedSlot
    <3>1. Append(session.pending[u.slot], u) \in Seq(Updates)
      BY <1>1, <2>4
    <3> QED BY <1>1, <2>1, <2>2, <3>1 DEF Sessions
  <2>6. \A k \in Key, s \in Slot :
          Staged(k, s)' <=> Staged(k, s) \/ (u.key = k /\ u.slot = s /\ session.bootstrapSlot <= s)
    <3> SUFFICES ASSUME NEW k \in Key, NEW s \in Slot
                 PROVE  Staged(k, s)' <=>
                          Staged(k, s) \/ (u.key = k /\ u.slot = s /\ session.bootstrapSlot <= s)
      OBVIOUS
    <3>1. CASE s = u.slot
      <4>1. session.bootstrapSlot <= s
        BY <1>1, <1>3, <3>1
      <4> QED BY <2>4a, <3>1, <4>1 DEF Staged
    <3>2. CASE s # u.slot
      BY <2>3, <3>2 DEF Staged
    <3> QED BY <3>1, <3>2
  <2>7. \A s \in Slot : \A i \in DOMAIN session'.pending[s] :
          \/ i \in DOMAIN session.pending[s] /\ session'.pending[s][i] = session.pending[s][i]
          \/ session'.pending[s][i] = u /\ u.slot = s /\ session.bootstrapSlot <= s
    <3> SUFFICES ASSUME NEW s \in Slot, NEW i \in DOMAIN session'.pending[s]
                 PROVE  \/ /\ i \in DOMAIN session.pending[s]
                           /\ session'.pending[s][i] = session.pending[s][i]
                        \/ session'.pending[s][i] = u /\ u.slot = s /\ session.bootstrapSlot <= s
      OBVIOUS
    <3>1. CASE s = u.slot
      <4>1. session.bootstrapSlot <= s
        BY <1>1, <1>3, <3>1
      <4> QED BY <2>4a, <3>1, <4>1
    <3>2. CASE s # u.slot
      BY <2>3, <3>2
    <3> QED BY <3>1, <3>2
  <2> QED BY <1>3, <2>3, <2>5, <2>6, <2>7
<1> QED BY <1>2, <1>3

(* The head of the buffer, and what is left.                               *)
LEMMA TakeFacts ==
  ASSUME attempt \in Attempts, attempt.buffered # << >>,
         attempt' = [attempt EXCEPT !.buffered = Tail(@)]
  PROVE  /\ attempt' \in Attempts /\ Len(attempt.buffered) \in Nat
         /\ Len(attempt'.buffered) = Len(attempt.buffered) - 1
         /\ Head(attempt.buffered) = attempt.buffered[1] /\ 1 \in DOMAIN attempt.buffered
         /\ Head(attempt.buffered) \in StreamEvents
         /\ \A i \in DOMAIN attempt'.buffered :
              /\ i + 1 \in DOMAIN attempt.buffered /\ i \in Nat \ {0}
              /\ attempt'.buffered[i] = attempt.buffered[i + 1]
         /\ \A k, s : Buffered(k, s) <=> Buffered(k, s)' \/ IsWrite(Head(attempt.buffered), k, s)
<1> DEFINE q == attempt.buffered
<1>1. q \in Seq(StreamEvents) /\ q # << >>
  BY DEF Attempts
<1>2. /\ Tail(q) \in Seq(StreamEvents) /\ Len(Tail(q)) = Len(q) - 1 /\ Len(q) \in Nat \ {0}
      /\ Head(q) \in StreamEvents /\ Head(q) = q[1] /\ 1 \in DOMAIN q
      /\ \A i \in DOMAIN Tail(q) : i + 1 \in DOMAIN q /\ Tail(q)[i] = q[i + 1] /\ i \in Nat \ {0}
      /\ \A i \in DOMAIN q : i = 1 \/ (i - 1 \in DOMAIN Tail(q) /\ q[i] = Tail(q)[i - 1])
  <2> HIDE DEF q
  <2> QED BY <1>1, TailFacts
<1>3. attempt' \in Attempts /\ attempt'.buffered = Tail(q)
  BY <1>2 DEF Attempts
<1>4. \A k, s : Buffered(k, s) <=> Buffered(k, s)' \/ IsWrite(Head(q), k, s)
  BY <1>2, <1>3, ZenonT(40) DEF Buffered
<1> QED BY <1>2, <1>3, <1>4

(* A step of a session that shows readers nothing and keeps its snapshot   *)
(* leaves Published true.                                                  *)
LEMMA PublishedStays ==
  ASSUME Published, InSession, UNCHANGED <<tip, servers, phase, held, inner>>,
         session'.tables = session.tables, session'.confirmedSlot = session.confirmedSlot
  PROVE  Published'
BY DEF Published, InSession

(* The replay takes the next event from the buffer.                        *)
LEMMA ReplayEventInv == ClientInv /\ ReplayEvent => ClientInv'
<1> SUFFICES ASSUME ClientInv, ReplayEvent PROVE ClientInv'
  OBVIOUS
<1> DEFINE e == Head(attempt.buffered)
<1>1. /\ UNCHANGED <<ledger, tip, servers, stream, overtaken, faults, phase, held, inner, reader>>
      /\ phase = "replay" /\ confirming = 0 /\ attempt.buffered # << >>
      /\ attempt' = [attempt EXCEPT !.buffered = Tail(@)]
  BY DEF ReplayEvent, chain, net
<1>2. /\ attempt \in Attempts /\ session \in Sessions /\ tip \in Slot /\ stream \in Streams
      /\ stream.at \in Nat /\ tip \in Nat /\ session.confirmedSlot \in Nat
      /\ session.confirmedSlot \in Slot /\ session.bootstrapSlot \in Nat
      /\ Len(attempt.buffered) <= BufferCapacity
  BY InitialValues DEF ClientInv, TypeOK, Streams, Sessions
<1>3. /\ attempt' \in Attempts /\ Len(attempt.buffered) \in Nat
      /\ Len(attempt'.buffered) = Len(attempt.buffered) - 1
      /\ e = attempt.buffered[1] /\ 1 \in DOMAIN attempt.buffered
      /\ e \in StreamEvents
      /\ \A i \in DOMAIN attempt'.buffered :
           /\ i + 1 \in DOMAIN attempt.buffered /\ i \in Nat \ {0}
           /\ attempt'.buffered[i] = attempt.buffered[i + 1]
      /\ \A k, s : Buffered(k, s) <=> Buffered(k, s)' \/ IsWrite(e, k, s)
  BY <1>1, <1>2, TakeFacts
<1>4. IF e.type = "Account" THEN FromLedger(e.update) ELSE e.slot <= stream.at
  BY <1>3 DEF ClientInv, OnlyFromStream
<1>5. \/ /\ e.type = "Account" /\ e.update \in Updates /\ FromLedger(e.update)
         /\ session' = Queued(session, e.update) /\ confirming' = 0
      \/ /\ e.type = "ConfirmedSlot" /\ e.slot \in Slot /\ e.slot <= stream.at
         /\ confirming' = IF e.slot > session.confirmedSlot THEN e.slot ELSE 0
         /\ session' = session
  BY <1>1, <1>3, <1>4 DEF ReplayEvent, StreamEvents
<1> HIDE DEF e
<1>6. /\ session' \in Sessions /\ session'.tables = session.tables
      /\ session'.bootstrapSlot = session.bootstrapSlot
      /\ session'.confirmedSlot = session.confirmedSlot
      /\ \A k \in Key, s \in Slot :
           Staged(k, s)' <=> Staged(k, s) \/ (IsWrite(e, k, s) /\ session.bootstrapSlot <= s)
      /\ \A s \in Slot : \A i \in DOMAIN session'.pending[s] :
           \/ i \in DOMAIN session.pending[s] /\ session'.pending[s][i] = session.pending[s][i]
           \/ /\ session'.pending[s][i] = e.update /\ e.update.slot = s
              /\ session.bootstrapSlot <= s /\ e.type = "Account"
  <2>1. CASE e.type = "Account" /\ e.update \in Updates /\ session' = Queued(session, e.update)
    <3>1. PICK u \in Updates : u = e.update
      BY <2>1
    <3> QED BY <1>2, <2>1, <3>1, QueueFacts DEF IsWrite
  <2>2. CASE e.type = "ConfirmedSlot" /\ session' = session
    BY <1>2, <2>2 DEF Staged, IsWrite
  <2> QED BY <1>5, <2>1, <2>2
<1>7. /\ confirming' \in Slot /\ confirming' \in Nat
      /\ confirming' # 0 => session.confirmedSlot < confirming' /\ confirming' <= stream.at
  BY <1>2, <1>5, InitialValues
<1>8. InSession /\ InSession'
  BY <1>1 DEF InSession
<1>9. TypeOK'
  BY <1>1, <1>2, <1>3, <1>6, <1>7, CountAssumption DEF ClientInv, TypeOK
<1>10. \A k, s : StreamOwes(k, s)' <=> StreamOwes(k, s)
  BY <1>1 DEF StreamOwes
<1>11. servers # "behind" => SessionOnTrack'
  <2>1. /\ Latest \in Slot /\ Latest <= tip
    BY <1>8, LatestFacts
  <2>2. Latest' \in Slot /\ Latest <= Latest'
    <3>1. CASE servers = "paged"
      BY <1>1, <1>2, <2>1, <3>1 DEF Latest
    <3>2. CASE servers # "paged"
      <4>1. Latest = session.confirmedSlot
        <5>1. Max({session.confirmedSlot, 0}) = session.confirmedSlot
          BY <1>2, MaxOfTwo
        <5> QED BY <1>1, <3>2, <5>1 DEF Latest
      <4>2. Latest' = Max({session.confirmedSlot, confirming'})
        BY <1>1, <1>6, <3>2 DEF Latest
      <4>3. Latest' = IF session.confirmedSlot >= confirming' THEN session.confirmedSlot ELSE confirming'
        BY <1>2, <1>7, <4>2, MaxOfTwo
      <4> QED BY <1>2, <1>7, <4>1, <4>3
    <3> QED BY <3>1, <3>2
  <2>3. ASSUME NEW k \in Key, NEW s \in session.bootstrapSlot .. tip
        PROVE  /\ Outstanding(k, s) => Outstanding(k, s)'
               /\ Outstanding(k, s)' => Outstanding(k, s)
    <3>1. s \in Slot /\ session.bootstrapSlot <= s
      BY <1>2, InitialValues, CountAssumption DEF Slot
    <3> QED BY <1>3, <1>6, <1>10, <3>1 DEF Outstanding
  <2> QED BY <1>1, <1>6, <1>8, <2>1, <2>2, <2>3, SessionStays DEF ClientInv, NothingLost
<1>12. NothingLost'
  BY <1>1, <1>11 DEF NothingLost
<1>13. StreamInOrder'
  BY <1>1 DEF ClientInv, StreamInOrder
<1>14. OnlyFromStream'
  <2>1. \A u : FromLedger(u)' <=> FromLedger(u)
    BY <1>1 DEF FromLedger
  <2>2. \A i \in DOMAIN attempt'.buffered :
          IF attempt'.buffered[i].type = "Account"
          THEN FromLedger(attempt'.buffered[i].update) ELSE attempt'.buffered[i].slot <= stream'.at
    BY <1>1, <1>3 DEF ClientInv, OnlyFromStream
  <2>3. \A s \in Slot : \A i \in DOMAIN session'.pending[s] :
          /\ session'.bootstrapSlot <= s
          /\ session'.pending[s][i].slot = s
          /\ FromLedger(session'.pending[s][i])
    BY <1>4, <1>6 DEF ClientInv, OnlyFromStream
  <2> QED BY <1>1, <2>2, <2>3 DEF OnlyFromStream, FromLedger
<1>15. WritesInOrder'
  <2>1. HeldOnce'
    BY <1>3, <1>6, <1>10 DEF ClientInv, WritesInOrder, HeldOnce
  <2>2. BufferInOrder'
    <3> SUFFICES ASSUME NEW i \in DOMAIN attempt'.buffered, NEW j \in DOMAIN attempt'.buffered, i < j,
                        NEW k \in Key, NEW s \in Slot, NEW t \in Slot,
                        IsWrite(attempt'.buffered[i], k, s), IsWrite(attempt'.buffered[j], k, t)
                 PROVE  s <= t
      BY DEF BufferInOrder, IsWrite
    <3>1. i + 1 < j + 1 /\ i + 1 \in DOMAIN attempt.buffered /\ j + 1 \in DOMAIN attempt.buffered
      BY <1>3
    <3> QED BY <1>3, <3>1 DEF ClientInv, WritesInOrder, BufferInOrder
  <2>3. StagedFirst'
    <3> SUFFICES ASSUME NEW k \in Key, NEW s \in Slot, NEW t \in Slot, Staged(k, s)', Buffered(k, t)'
                 PROVE  s <= t
      BY DEF StagedFirst
    <3>1. CASE Staged(k, s)
      BY <1>3, <3>1 DEF ClientInv, WritesInOrder, StagedFirst
    <3>2. CASE IsWrite(e, k, s)
      <4>1. PICK i \in DOMAIN attempt'.buffered : IsWrite(attempt'.buffered[i], k, t)
        BY DEF Buffered, IsWrite
      <4>2. IsWrite(attempt.buffered[i + 1], k, t) /\ i + 1 \in DOMAIN attempt.buffered /\ 1 < i + 1
        BY <1>3, <4>1
      <4> QED BY <1>3, <3>2, <4>2 DEF ClientInv, WritesInOrder, BufferInOrder
    <3> QED BY <1>6, <3>1, <3>2
  <2> QED BY <2>1, <2>2, <2>3 DEF WritesInOrder
<1>16. SlotsInOrder' /\ ReplayIsComplete'
  BY <1>1, <1>6, <1>7, <1>8 DEF ClientInv, SlotsInOrder, ReplayIsComplete
<1>17. Published'
  BY <1>1, <1>6, <1>8, PublishedStays DEF ClientInv
<1>18. ReaderIsCurrent'
  BY <1>1, ReaderRests DEF ClientInv
<1> QED BY <1>9, <1>12, <1>13, <1>14, <1>15, <1>16, <1>17, <1>18 DEF ClientInv

(* While following: a write is staged, a late one ends the session, and a  *)
(* confirmation starts the work on its slot.                               *)
LEMMA FollowReceivesInv ==
  ASSUME ClientInv, NEW o \in Offers, FollowReceives(o)
  PROVE  ClientInv'
<1> DEFINE e == o.event
<1>1. Receive(o) /\ phase = "follow" /\ confirming = 0 /\ InSession
  BY DEF FollowReceives, InSession
<1>2. /\ stream' \in Streams /\ StreamInOrder'
      /\ overtaken' \in BOOLEAN /\ (overtaken => overtaken') /\ faults' \in 0 .. MaxFaults
      /\ UNCHANGED <<ledger, tip, servers, reader>>
      /\ stream.at <= stream'.at
      /\ \A k \in Key, s \in Slot : StreamOwes(k, s)' => StreamOwes(k, s)
      /\ e \in StreamEvents
  BY <1>1, ReceiveFacts
<1>3. CASE FollowFailed
  BY <1>2, <1>3, FollowFailedInv
<1>4. CASE /\ UNCHANGED <<phase, held, attempt, inner>>
           /\ \/ /\ e.type = "Account" /\ ~ Refused(session, e.update)
                 /\ session' = Queued(session, e.update) /\ UNCHANGED confirming
              \/ /\ e.type = "ConfirmedSlot" /\ UNCHANGED session
                 /\ confirming' = IF e.slot > session.confirmedSlot THEN e.slot ELSE 0
  <2>1. /\ session \in Sessions /\ tip \in Slot /\ tip \in Nat /\ stream.at \in Nat /\ stream'.at \in Nat
        /\ session.confirmedSlot \in Slot /\ session.confirmedSlot \in Nat /\ session.bootstrapSlot \in Nat
        /\ stream'.at \in Slot
    BY <1>2, InitialValues DEF ClientInv, TypeOK, Streams, Sessions
  <2>2. \/ /\ e.type = "Account" /\ e.update \in Updates /\ FromLedger(e.update)
           /\ session' = Queued(session, e.update) /\ confirming' = 0
           /\ ~ Refused(session, e.update)
           /\ \A k \in Key, s \in Slot :
                /\ IsWrite(e, k, s) => StreamOwes(k, s) /\ ~ StreamOwes(k, s)'
                /\ StreamOwes(k, s) => StreamOwes(k, s)' \/ IsWrite(e, k, s)
        \/ /\ e.type = "ConfirmedSlot" /\ e.slot = stream'.at
           /\ confirming' = IF e.slot > session.confirmedSlot THEN e.slot ELSE 0
           /\ session' = session
           /\ \A s \in Slot, k \in Key :
                k \in Changed(s) /\ StreamOwes(k, s) => StreamOwes(k, s)'
    BY <1>1, <1>4, ReceiveFacts
  <2> HIDE DEF e
  <2>3. /\ session' \in Sessions /\ session'.tables = session.tables
        /\ session'.bootstrapSlot = session.bootstrapSlot
        /\ session'.confirmedSlot = session.confirmedSlot
        /\ \A k \in Key, s \in Slot :
             Staged(k, s)' <=> Staged(k, s) \/ (IsWrite(e, k, s) /\ session.bootstrapSlot <= s)
        /\ \A s \in Slot : \A i \in DOMAIN session'.pending[s] :
             \/ i \in DOMAIN session.pending[s] /\ session'.pending[s][i] = session.pending[s][i]
             \/ /\ session'.pending[s][i] = e.update /\ e.update.slot = s
                /\ session.bootstrapSlot <= s /\ e.type = "Account"
        /\ \A s \in Slot : \/ session'.pending[s] = session.pending[s]
                           \/ s > session.confirmedSlot
    <3>1. CASE /\ e.type = "Account" /\ e.update \in Updates /\ session' = Queued(session, e.update)
               /\ ~ Refused(session, e.update)
      <4>1. PICK u \in Updates : u = e.update
        BY <3>1
      <4>2. u.slot \in Nat /\ (u.slot >= session.bootstrapSlot => u.slot > session.confirmedSlot)
        BY <2>1, <3>1, <4>1, InitialValues DEF Refused, Updates
      <4>3. \A s \in Slot : \/ session'.pending[s] = session.pending[s]
                            \/ s > session.confirmedSlot
        BY <2>1, <3>1, <4>1, <4>2, QueueFacts
      <4> QED BY <2>1, <3>1, <4>1, <4>3, QueueFacts DEF IsWrite
    <3>2. CASE e.type = "ConfirmedSlot" /\ session' = session
      BY <2>1, <3>2 DEF Staged, IsWrite
    <3> QED BY <2>2, <3>1, <3>2
  <2>4. /\ confirming' \in Slot /\ confirming' \in Nat
        /\ confirming' # 0 => session.confirmedSlot < confirming' /\ confirming' <= stream'.at
    BY <2>1, <2>2, InitialValues
  <2>5. InSession' /\ attempt.buffered = << >>
    BY <1>1, <1>4 DEF InSession, ClientInv, ReplayIsComplete
  <2>6. TypeOK'
    BY <1>2, <1>4, <2>3, <2>4 DEF ClientInv, TypeOK
  <2>7. \A k, s : ~ Buffered(k, s) /\ ~ Buffered(k, s)'
    BY <1>4, <2>5 DEF Buffered
  <2>8. servers # "behind" => SessionOnTrack'
    <3>1. Latest \in Slot /\ Latest <= tip
      BY <1>1, LatestFacts
    <3>2. Latest' \in Slot /\ Latest <= Latest'
      <4>1. CASE servers = "paged"
        BY <1>2, <2>1, <3>1, <4>1 DEF Latest
      <4>2. CASE servers # "paged"
        <5>1. Latest = session.confirmedSlot
          <6>1. Max({session.confirmedSlot, 0}) = session.confirmedSlot
            BY <2>1, MaxOfTwo
          <6> QED BY <1>1, <4>2, <6>1 DEF Latest
        <5>2. Latest' = Max({session.confirmedSlot, confirming'})
          BY <1>2, <2>3, <4>2 DEF Latest
        <5>3. Latest' = IF session.confirmedSlot >= confirming' THEN session.confirmedSlot ELSE confirming'
          BY <2>1, <2>4, <5>2, MaxOfTwo
        <5> QED BY <2>1, <2>4, <5>1, <5>3
      <4> QED BY <4>1, <4>2
    <3>3. ASSUME NEW k \in Key, NEW s \in session.bootstrapSlot .. tip
          PROVE  /\ k \in Changed(s) /\ Outstanding(k, s) => Outstanding(k, s)'
                 /\ Outstanding(k, s)' => Outstanding(k, s)
      <4>1. s \in Slot /\ session.bootstrapSlot <= s
        BY <2>1, InitialValues, CountAssumption DEF Slot
      <4>2. IsWrite(e, k, s) => StreamOwes(k, s)
        BY <2>2, <4>1 DEF IsWrite
      <4>3. k \in Changed(s) /\ StreamOwes(k, s) => StreamOwes(k, s)' \/ IsWrite(e, k, s)
        BY <2>2, <4>1
      <4> QED BY <1>2, <2>3, <2>7, <4>1, <4>2, <4>3 DEF Outstanding
    <3> QED BY <1>1, <1>2, <2>3, <3>1, <3>2, <3>3, SessionStays DEF ClientInv, NothingLost
  <2>9. NothingLost'
    BY <1>1, <1>2, <1>4, <2>8 DEF NothingLost
  <2>10. OnlyFromStream'
    <3>1. \A s \in Slot : \A i \in DOMAIN session'.pending[s] :
            /\ session'.bootstrapSlot <= s
            /\ session'.pending[s][i].slot = s
            /\ FromLedger(session'.pending[s][i])
      BY <2>2, <2>3 DEF ClientInv, OnlyFromStream
    <3> QED BY <1>2, <1>4, <2>5, <3>1 DEF OnlyFromStream, FromLedger
  <2>11. WritesInOrder'
    <3>1. HeldOnce'
      <4> SUFFICES ASSUME NEW k \in Key, NEW s \in Slot, Staged(k, s)'
                   PROVE  ~ StreamOwes(k, s)'
        BY <2>7 DEF HeldOnce
      <4>1. CASE Staged(k, s)
        BY <1>2, <4>1 DEF ClientInv, WritesInOrder, HeldOnce
      <4>2. CASE IsWrite(e, k, s)
        BY <2>2, <4>2 DEF IsWrite
      <4> QED BY <2>3, <4>1, <4>2
    <3> QED BY <1>4, <2>5, <2>7, <3>1 DEF WritesInOrder, BufferInOrder, StagedFirst
  <2>12. SlotsInOrder'
    <3>1. session.confirmedSlot > session.bootstrapSlot => session.confirmedSlot <= stream'.at
      BY <1>1, <1>2, <2>1 DEF ClientInv, SlotsInOrder
    <3> QED BY <1>1, <1>2, <1>4, <2>3, <2>4, <3>1 DEF ClientInv, SlotsInOrder
  <2>13. ReplayIsComplete'
    <3>1. \A s \in 0 .. session.confirmedSlot : s \in Slot /\ ~ (s > session.confirmedSlot)
      BY <2>1, InitialValues, CountAssumption DEF Slot
    <3> QED BY <1>1, <1>4, <2>3, <2>5, <3>1 DEF ClientInv, ReplayIsComplete
  <2>14. Published'
    BY <1>1, <1>2, <1>4, <2>3, PublishedStays DEF ClientInv
  <2>15. ReaderIsCurrent'
    BY <1>2, <1>4, ReaderRests DEF ClientInv
  <2> QED BY <1>2, <2>6, <2>9, <2>10, <2>11, <2>12, <2>13, <2>14, <2>15 DEF ClientInv
<1> QED BY <1>3, <1>4 DEF FollowReceives

(* The stream breaks, or is silent too long.                               *)
LEMMA FollowStreamFailsInv == ClientInv /\ FollowStreamFails => ClientInv'
<1> SUFFICES ASSUME ClientInv, FollowStreamFails PROVE ClientInv'
  OBVIOUS
<1>1. /\ UNCHANGED <<ledger, tip, servers, stream, overtaken, reader>> /\ Fault /\ FollowFailed
  BY DEF FollowStreamFails, chain
<1> QED BY <1>1, StreamRests, FollowFailedInv

-----------------------------------------------------------------------------
(* Applying                                                                *)

(* The next update is the first of the oldest due slot, which is not after *)
(* the latest slot that the tables may be as of.                           *)
LEMMA NextUpdateFacts ==
  ASSUME ClientInv, InSession, Due # {}
  PROVE  /\ Min(Due) \in Due /\ Min(Due) \in Slot /\ Min(Due) \in 1 .. Latest
         /\ \A s \in 1 .. (Min(Due) - 1) : session.pending[s] = << >>
         /\ session.pending[Min(Due)] # << >>
         /\ NextUpdate = session.pending[Min(Due)][1]
         /\ NextUpdate \in Updates /\ NextUpdate.slot = Min(Due) /\ FromLedger(NextUpdate)
         /\ session.bootstrapSlot <= Min(Due)
         /\ Staged(NextUpdate.key, Min(Due))
<1>1. /\ Latest \in Slot /\ Latest <= tip /\ session.confirmedSlot <= Latest /\ confirming <= Latest
      /\ session.confirmedSlot \in Nat /\ confirming \in Nat /\ session \in Sessions
      /\ Latest \in Nat /\ Latest <= MaxSlot /\ MaxSlot \in Nat
  BY LatestFacts, InitialValues, CountAssumption DEF ClientInv, TypeOK
<1>2. Through \in Nat /\ Through <= Latest
  BY <1>1 DEF Through
<1>3. Due \subseteq 1 .. Through /\ Due \in SUBSET Nat
  BY <1>2 DEF Due
<1>4. Min(Due) \in Due /\ \A s \in Due : Min(Due) <= s
  BY <1>3, MinIsLowerBound
<1>5. PICK m \in Due : m = Min(Due)
  BY <1>4
<1>6. m \in 1 .. Through /\ m \in Slot /\ m \in 1 .. Latest /\ m \in Nat
  BY <1>1, <1>2, <1>3 DEF Slot
<1>7. \A s \in 1 .. (m - 1) : session.pending[s] = << >>
  <2> SUFFICES ASSUME NEW s \in 1 .. (m - 1), session.pending[s] # << >> PROVE FALSE
    OBVIOUS
  <2>1. s \in 1 .. Through /\ s < m
    BY <1>2, <1>6
  <2>2. s \in Due
    BY <2>1 DEF Due
  <2> QED BY <1>4, <1>5, <1>6, <2>1, <2>2
<1>8. session.pending[m] # << >> /\ session.pending[m] \in Seq(Updates)
  BY <1>1, <1>6 DEF Due, Sessions
<1>9. /\ 1 \in DOMAIN session.pending[m] /\ Head(session.pending[m]) = session.pending[m][1]
      /\ session.pending[m][1] \in Updates
  BY <1>8, TailFacts
<1>10. NextUpdate = session.pending[m][1]
  BY <1>5, <1>9 DEF NextUpdate
<1>11. /\ session.pending[m][1].slot = m /\ FromLedger(session.pending[m][1])
       /\ session.bootstrapSlot <= m
  BY <1>6, <1>9 DEF ClientInv, OnlyFromStream
<1>12. Staged(session.pending[m][1].key, m)
  BY <1>9 DEF Staged
<1> QED BY <1>4, <1>5, <1>6, <1>7, <1>8, <1>9, <1>10, <1>11, <1>12

(* Nothing is pending before the first slot.                               *)
LEMMA NoneBeforeFirst ==
  ASSUME ClientInv
  PROVE  session.pending[0] = << >>
<1>1. 0 \in Slot /\ session.pending[0] \in Seq(Updates) /\ tip \in Nat
  BY InitialValues DEF ClientInv, TypeOK, Sessions
<1> SUFFICES ASSUME session.pending[0] # << >> PROVE FALSE
  OBVIOUS
<1>2. 1 \in DOMAIN session.pending[0]
  BY <1>1, TailFacts
<1>3. session.pending[0][1].slot = 0 /\ session.pending[0][1].slot \in 1 .. tip
  BY <1>1, <1>2 DEF ClientInv, OnlyFromStream, FromLedger
<1> QED BY <1>1, <1>3

(* Applying an update brings its table to the slot of the update: nothing  *)
(* older of that key is anywhere, so nothing will overwrite it wrongly.    *)
LEMMA ApplyUpdateInv == ClientInv /\ ApplyUpdate => ClientInv'
<1> SUFFICES ASSUME ClientInv, ApplyUpdate PROVE ClientInv'
  OBVIOUS
<1>1. /\ UNCHANGED <<ledger, tip, servers, stream, overtaken, faults>>
      /\ UNCHANGED <<phase, held, attempt, confirming, reader>>
      /\ phase \in {"replay", "follow"} /\ Due # {} /\ NextUpdate.table # Malformed
      /\ inner' = IF phase = "follow" THEN [inner EXCEPT !.tables = session'.tables] ELSE inner
      /\ InSession /\ InSession'
  BY DEF ApplyUpdate, chain, net, InSession
<1>2. PICK m \in Slot, u \in Updates :
        /\ m = Min(Due) /\ u = NextUpdate
        /\ m \in 1 .. Latest
        /\ \A s \in 1 .. (m - 1) : session.pending[s] = << >>
        /\ session.pending[m] # << >> /\ u = session.pending[m][1]
        /\ u.slot = m /\ FromLedger(u) /\ session.bootstrapSlot <= m /\ Staged(u.key, m)
  BY <1>1, NextUpdateFacts
<1>3. session' = [session EXCEPT !.tables[u.key] = u.table, !.pending[m] = Tail(@)]
  BY <1>2 DEF ApplyUpdate
<1>4. /\ session \in Sessions /\ tip \in Slot /\ tip \in Nat /\ m \in Nat
      /\ session.bootstrapSlot \in Nat /\ session.confirmedSlot \in Nat
      /\ session.tables \in Tables /\ u.key \in Key
      /\ inner \in [tables: Tables, ready: BOOLEAN, confirmedSlot: Slot]
      /\ Latest \in Slot /\ Latest \in Nat /\ Latest <= tip /\ ledger \in [Slot -> Tables]
      /\ stream \in Streams /\ StreamInOrder
  BY <1>1, LatestFacts, InitialValues DEF ClientInv, TypeOK, Sessions, Updates
<1>5. u.table = ledger[m][u.key] /\ u.table \in Contents
  <2>1. u.table = ledger[m][u.key]
    BY <1>1, <1>2 DEF FromLedger
  <2> QED BY <1>4, <2>1 DEF Tables
<1>6. /\ session.pending[m] \in Seq(Updates) /\ Tail(session.pending[m]) \in Seq(Updates)
      /\ \A i \in DOMAIN Tail(session.pending[m]) :
           i + 1 \in DOMAIN session.pending[m] /\ Tail(session.pending[m])[i] = session.pending[m][i + 1]
      /\ \A i \in DOMAIN session.pending[m] :
           i = 1 \/ (i - 1 \in DOMAIN Tail(session.pending[m])
                       /\ session.pending[m][i] = Tail(session.pending[m])[i - 1])
  <2>1. session.pending[m] \in Seq(Updates)
    BY <1>4 DEF Sessions
  <2> QED BY <1>2, <2>1, TailFacts
<1>7. /\ session' \in Sessions
      /\ session'.bootstrapSlot = session.bootstrapSlot
      /\ session'.confirmedSlot = session.confirmedSlot
      /\ session'.tables \in Tables
      /\ session'.tables[u.key] = ledger[m][u.key]
      /\ \A k \in Key : k # u.key => session'.tables[k] = session.tables[k]
      /\ session'.pending[m] = Tail(session.pending[m])
      /\ \A s \in Slot : s # m => session'.pending[s] = session.pending[s]
  <2>1. session' = [bootstrapSlot |-> session.bootstrapSlot, confirmedSlot |-> session.confirmedSlot,
                    tables |-> [session.tables EXCEPT ![u.key] = u.table],
                    pending |-> [session.pending EXCEPT ![m] = Tail(session.pending[m])]]
    BY <1>3, <1>4 DEF Sessions
  <2>2. [session.tables EXCEPT ![u.key] = u.table] \in Tables
    BY <1>4, <1>5 DEF Tables
  <2>3. session.pending \in [Slot -> Seq(Updates)]
    BY <1>4 DEF Sessions
  <2>4. [session.pending EXCEPT ![m] = Tail(session.pending[m])] \in [Slot -> Seq(Updates)]
    BY <1>6, <2>3
  <2>5. session.tables \in [Key -> Contents]
    BY <1>4 DEF Tables
  <2>6. session' \in Sessions /\ session'.tables \in Tables
    BY <1>4, <2>1, <2>2, <2>4 DEF Sessions
  <2> QED BY <1>4, <1>5, <2>1, <2>3, <2>5, <2>6
<1>7a. /\ \A i \in DOMAIN session'.pending[m] :
            i + 1 \in DOMAIN session.pending[m] /\ session'.pending[m][i] = session.pending[m][i + 1]
       /\ \A i \in DOMAIN session.pending[m] :
            i = 1 \/ (i - 1 \in DOMAIN session'.pending[m]
                        /\ session.pending[m][i] = session'.pending[m][i - 1])
  BY <1>6, <1>7
<1>8. \A k \in Key, s \in Slot :
        /\ Staged(k, s)' => Staged(k, s)
        /\ k # u.key \/ s # m => (Staged(k, s) => Staged(k, s)')
  <2> SUFFICES ASSUME NEW k \in Key, NEW s \in Slot
               PROVE  /\ Staged(k, s)' => Staged(k, s)
                      /\ k # u.key \/ s # m => (Staged(k, s) => Staged(k, s)')
    OBVIOUS
  <2>1. CASE s = m
    <3>1. Staged(k, m)' => Staged(k, m)
      BY <1>7a DEF Staged
    <3>2. k # u.key => (Staged(k, m) => Staged(k, m)')
      BY <1>2, <1>7a DEF Staged
    <3> QED BY <2>1, <3>1, <3>2
  <2>2. CASE s # m
    BY <1>7, <2>2 DEF Staged
  <2> QED BY <2>1, <2>2
<1>9. \A k, s : /\ StreamOwes(k, s)' <=> StreamOwes(k, s)
                /\ Buffered(k, s)' <=> Buffered(k, s)
  BY <1>1 DEF StreamOwes, Buffered, IsWrite
<1>10. \A s \in session.bootstrapSlot .. (m - 1) : ~ Outstanding(u.key, s)
  <2> SUFFICES ASSUME NEW s \in session.bootstrapSlot .. (m - 1) PROVE ~ Outstanding(u.key, s)
    OBVIOUS
  <2>1. s \in Slot /\ s < m /\ s \in Nat
    BY <1>4, InitialValues, CountAssumption DEF Slot
  <2>2. ~ Staged(u.key, s)
    <3>1. session.pending[s] = << >>
      BY <1>2, <1>4, <2>1, NoneBeforeFirst
    <3> QED BY <3>1 DEF Staged
  <2>3. ~ Buffered(u.key, s)
    <3>1. ~ (m <= s)
      BY <1>4, <2>1
    <3> QED BY <1>2, <1>4, <2>1, <3>1 DEF ClientInv, WritesInOrder, StagedFirst
  <2>4. ~ StreamOwes(u.key, s)
    <3>1. ~ StreamOwes(u.key, m)
      BY <1>2, <1>4 DEF ClientInv, WritesInOrder, HeldOnce
    <3> QED BY <1>4, <2>1, <3>1, NewestAreOwed
  <2> QED BY <2>2, <2>3, <2>4 DEF Outstanding
<1>11. TypeOK'
  <2>1. inner' \in [tables: Tables, ready: BOOLEAN, confirmedSlot: Slot]
    BY <1>1, <1>4, <1>7
  <2> QED BY <1>1, <1>7, <2>1 DEF ClientInv, TypeOK
<1>12. Latest' = Latest
  BY <1>1, <1>7 DEF Latest
<1>13. servers # "behind" => SessionOnTrack'
  <2> SUFFICES ASSUME servers # "behind", NEW k \in Key
               PROVE  (\E d \in session.bootstrapSlot .. Latest :
                         \E f \in session.bootstrapSlot .. d : OnTrack(k, f, d))'
    BY DEF SessionOnTrack
  <2>1. PICK d \in session.bootstrapSlot .. Latest :
          \E f \in session.bootstrapSlot .. d : OnTrack(k, f, d)
    BY <1>1 DEF ClientInv, NothingLost, SessionOnTrack
  <2>2. PICK f \in session.bootstrapSlot .. d : OnTrack(k, f, d)
    BY <2>1
  <2>3. d \in Nat /\ f \in Nat
    BY <1>4
  <2>4. \A s \in session.bootstrapSlot .. tip : s \in Slot
    BY <1>4, InitialValues, CountAssumption DEF Slot
  <2>5. CASE k # u.key
    <3>1. session'.tables[k] = ledger'[d][k]
      BY <1>1, <1>7, <2>2, <2>5 DEF OnTrack
    <3>2. ASSUME NEW s \in session.bootstrapSlot .. tip
          PROVE  Outstanding(k, s)' <=> Outstanding(k, s)
      BY <1>8, <1>9, <2>4, <2>5 DEF Outstanding
    <3>3. \A s \in (f + 1) .. tip : s \in session.bootstrapSlot .. tip
      BY <1>4, <2>3
    <3>4. \A s \in session.bootstrapSlot .. (f - 1) : s \in session.bootstrapSlot .. tip
      BY <1>4, <2>3
    <3>5. \A s \in (f + 1) .. tip' : k \in Changed(s)' => Outstanding(k, s)'
      BY <1>1, <2>2, <3>2, <3>3 DEF OnTrack, Changed
    <3>6. \A s \in session'.bootstrapSlot .. (f - 1) : ~ Outstanding(k, s)'
      BY <1>7, <2>2, <3>2, <3>4 DEF OnTrack
    <3>7. OnTrack(k, f, d)'
      BY <1>1, <2>2, <3>1, <3>5, <3>6 DEF OnTrack
    <3> QED BY <1>7, <1>12, <3>7
  <2>6. CASE k = u.key
    <3>1. f <= m
      <4> SUFFICES ASSUME m < f PROVE FALSE
        BY <1>4, <2>3
      <4>1. m \in session.bootstrapSlot .. (f - 1)
        BY <1>2, <1>4, <2>3
      <4> QED BY <1>2, <2>2, <2>6, <4>1 DEF OnTrack, Outstanding
    <3>2. session'.tables[k] = ledger'[m][k]
      BY <1>1, <1>7, <2>6
    <3>3. ASSUME NEW s \in (m + 1) .. tip, k \in Changed(s)
          PROVE  Outstanding(k, s)'
      <4>1. s \in (f + 1) .. tip /\ s \in session.bootstrapSlot .. tip /\ s # m
        BY <1>2, <1>4, <2>3, <3>1
      <4>2. Outstanding(k, s)
        BY <2>2, <3>3, <4>1 DEF OnTrack
      <4> QED BY <1>8, <1>9, <2>4, <4>1, <4>2 DEF Outstanding
    <3>4. \A s \in (m + 1) .. tip' : k \in Changed(s)' => Outstanding(k, s)'
      BY <1>1, <3>3 DEF Changed
    <3>5. \A s \in session.bootstrapSlot .. (m - 1) : s \in Slot
      BY <1>4, InitialValues, CountAssumption DEF Slot
    <3>6. \A s \in session'.bootstrapSlot .. (m - 1) : ~ Outstanding(k, s)'
      BY <1>7, <1>8, <1>9, <1>10, <2>6, <3>5 DEF Outstanding
    <3>7. OnTrack(k, m, m)'
      BY <3>2, <3>4, <3>6 DEF OnTrack
    <3>8. m \in session'.bootstrapSlot .. Latest' /\ m \in session'.bootstrapSlot .. m
      BY <1>2, <1>4, <1>7, <1>12
    <3> QED BY <3>7, <3>8
  <2> QED BY <2>5, <2>6
<1>14. NothingLost'
  BY <1>1, <1>13 DEF NothingLost, InSession
<1>15. StreamInOrder' /\ OnlyFromStream'
  <2>1. StreamInOrder'
    BY <1>1 DEF ClientInv, StreamInOrder
  <2>2. \A s \in Slot : \A i \in DOMAIN session'.pending[s] :
          /\ session'.bootstrapSlot <= s
          /\ session'.pending[s][i].slot = s
          /\ FromLedger(session'.pending[s][i])
    <3> SUFFICES ASSUME NEW s \in Slot, NEW i \in DOMAIN session'.pending[s]
                 PROVE  \E j \in DOMAIN session.pending[s] : session'.pending[s][i] = session.pending[s][j]
      BY <1>7 DEF ClientInv, OnlyFromStream
    <3>1. CASE s = m
      BY <1>7a, <3>1
    <3>2. CASE s # m
      BY <1>7, <3>2
    <3> QED BY <3>1, <3>2
  <2>3. \A i \in DOMAIN attempt'.buffered :
          IF attempt'.buffered[i].type = "Account"
          THEN FromLedger(attempt'.buffered[i].update) ELSE attempt'.buffered[i].slot <= stream'.at
    BY <1>1 DEF ClientInv, OnlyFromStream
  <2> QED BY <1>1, <2>1, <2>2, <2>3 DEF OnlyFromStream, FromLedger
<1>16. WritesInOrder'
  <2>1. HeldOnce'
    BY <1>8, <1>9 DEF ClientInv, WritesInOrder, HeldOnce
  <2>2. BufferInOrder'
    BY <1>1 DEF ClientInv, WritesInOrder, BufferInOrder, IsWrite
  <2>3. StagedFirst'
    BY <1>8, <1>9 DEF ClientInv, WritesInOrder, StagedFirst
  <2> QED BY <2>1, <2>2, <2>3 DEF WritesInOrder
<1>17. phase = "follow" => session.confirmedSlot < m
  <2> SUFFICES ASSUME phase = "follow", ~ (session.confirmedSlot < m) PROVE FALSE
    OBVIOUS
  <2>1. m \in 0 .. session.confirmedSlot
    BY <1>4
  <2> QED BY <1>2, <2>1 DEF ClientInv, ReplayIsComplete
<1>18. SlotsInOrder' /\ ReplayIsComplete'
  <2>1. SlotsInOrder'
    BY <1>1, <1>7 DEF ClientInv, SlotsInOrder
  <2>2. \A s \in 0 .. session.confirmedSlot : phase = "follow" => session'.pending[s] = << >>
    <3>1. \A s \in 0 .. session.confirmedSlot : phase = "follow" => s # m
      BY <1>4, <1>17
    <3>2. \A s \in 0 .. session.confirmedSlot : s \in Slot
      BY <1>1, LatestFacts, InitialValues, CountAssumption DEF Slot
    <3> QED BY <1>7, <3>1, <3>2 DEF ClientInv, ReplayIsComplete
  <2>3. ReplayIsComplete'
    BY <1>1, <1>7, <2>2 DEF ClientInv, ReplayIsComplete
  <2> QED BY <2>1, <2>3
<1>19. Published'
  <2>1. CASE phase = "follow"
    <3>1. /\ inner'.tables = session'.tables /\ inner'.confirmedSlot = inner.confirmedSlot
          /\ inner'.ready = inner.ready /\ held
      BY <1>1, <1>4, <2>1 DEF ClientInv, ReplayIsComplete
    <3> QED BY <1>1, <1>7, <2>1, <3>1 DEF ClientInv, Published
  <2>2. CASE phase = "replay"
    BY <1>1, <1>7, <2>2 DEF ClientInv, Published
  <2> QED BY <1>1, <2>1, <2>2
<1>20. ReaderIsCurrent'
  <2>1. CASE phase = "replay"
    BY <1>1, <2>1, ReaderRests DEF ClientInv
  <2>2. CASE phase = "follow"
    <3>1. /\ inner'.tables = session'.tables /\ inner'.confirmedSlot = inner.confirmedSlot
          /\ inner.confirmedSlot = session.confirmedSlot /\ inner.tables = session.tables
      BY <1>1, <1>4, <2>2 DEF ClientInv, Published
    <3>2. AsOf(inner.tables, inner.confirmedSlot .. tip) =>
            \A k \in Key : \E d \in inner.confirmedSlot .. tip : inner'.tables[k] = ledger[d][k]
      <4> SUFFICES ASSUME AsOf(inner.tables, inner.confirmedSlot .. tip), NEW k \in Key
                   PROVE  \E d \in inner.confirmedSlot .. tip : inner'.tables[k] = ledger[d][k]
        OBVIOUS
      <4>1. CASE k = u.key
        <5>1. m \in inner.confirmedSlot .. tip
          BY <1>2, <1>4, <1>17, <2>2, <3>1
        <5> QED BY <1>7, <3>1, <4>1, <5>1
      <4>2. CASE k # u.key
        BY <1>7, <3>1, <4>2 DEF AsOf
      <4> QED BY <4>1, <4>2
    <3> QED BY <1>1, <3>1, <3>2 DEF ClientInv, ReaderIsCurrent, GetIsNotStale, AsOf
  <2> QED BY <1>1, <2>1, <2>2
<1> QED BY <1>11, <1>14, <1>15, <1>16, <1>18, <1>19, <1>20 DEF ClientInv

(* A table that does not decode ends the attempt or the session.           *)
LEMMA ApplyMalformedInv == ClientInv /\ ApplyMalformed => ClientInv'
<1> SUFFICES ASSUME ClientInv, ApplyMalformed PROVE ClientInv'
  OBVIOUS
<1>1. /\ UNCHANGED <<ledger, tip, servers, stream, overtaken, faults, reader>>
      /\ (phase = "replay" /\ SourceFailed) \/ (phase = "follow" /\ FollowFailed)
  BY DEF ApplyMalformed, chain, net
<1> QED BY <1>1, StreamRests, SourceFailedInv, FollowFailedInv

-----------------------------------------------------------------------------
(* Publishing                                                              *)

(* When nothing up to slot c is pending, buffered or owed, an older table  *)
(* of the session has not been written since: it is the one of c too.      *)
LEMMA OldTableIsCurrent ==
  ASSUME ClientInv, InSession, stream.owed = {}, attempt.buffered = << >>,
         NEW c \in Slot, c > session.bootstrapSlot => c <= stream.at, c <= Latest,
         \A s \in 1 .. c : session.pending[s] = << >>,
         NEW k \in Key, NEW d \in session.bootstrapSlot .. Latest,
         NEW f \in session.bootstrapSlot .. d, OnTrack(k, f, d), d < c
  PROVE  session.tables[k] = ledger[c][k]
<1>1. /\ Latest \in Slot /\ Latest <= tip /\ Latest \in Nat /\ c \in Nat /\ tip \in Nat
      /\ session.bootstrapSlot \in Nat /\ stream.at \in Nat /\ ledger \in [Slot -> Tables]
  BY LatestFacts, InitialValues DEF ClientInv, TypeOK, Streams, Sessions
<1>2. d \in Nat /\ f \in Nat /\ session.tables[k] = ledger[d][k] /\ c <= stream.at
  BY <1>1 DEF OnTrack
<1>3. \A s \in (d + 1) .. c : k \notin Changed(s)
  <2> SUFFICES ASSUME NEW s \in (d + 1) .. c, k \in Changed(s) PROVE FALSE
    OBVIOUS
  <2>1. s \in (f + 1) .. tip /\ s \in 1 .. c /\ s \in Nat /\ s <= stream.at
    BY <1>1, <1>2
  <2>2. StreamOwes(k, s) \/ Buffered(k, s) \/ Staged(k, s)
    BY <2>1 DEF OnTrack, Outstanding
  <2>3. ~ Buffered(k, s) /\ ~ Staged(k, s)
    BY <2>1 DEF Buffered, Staged
  <2>4. ~ StreamOwes(k, s)
    BY <1>1, <2>1 DEF StreamOwes
  <2> QED BY <2>2, <2>3, <2>4
<1>4. d \in Slot
  BY <1>1, <1>2, InitialValues, CountAssumption DEF Slot
<1> QED BY <1>1, <1>2, <1>3, <1>4, UnchangedTable

(* So the session's tables are as of c or later.                           *)
LEMMA CaughtUp ==
  ASSUME ClientInv, InSession, servers # "behind", stream.owed = {}, attempt.buffered = << >>,
         NEW c \in Slot, session.bootstrapSlot <= c, c <= Latest,
         c > session.bootstrapSlot => c <= stream.at,
         \A s \in 1 .. c : session.pending[s] = << >>
  PROVE  AsOf(session.tables, c .. Latest)
<1> SUFFICES ASSUME NEW k \in Key
             PROVE  \E d \in c .. Latest : session.tables[k] = ledger[d][k]
  BY DEF AsOf
<1>1. Latest \in Nat /\ c \in Nat /\ session.bootstrapSlot \in Nat
  BY LatestFacts, InitialValues DEF ClientInv, TypeOK, Sessions
<1>2. PICK d \in session.bootstrapSlot .. Latest :
        \E f \in session.bootstrapSlot .. d : OnTrack(k, f, d)
  BY DEF ClientInv, NothingLost, SessionOnTrack
<1>3. CASE c <= d
  BY <1>1, <1>2, <1>3 DEF OnTrack
<1>4. CASE d < c
  BY <1>1, <1>2, <1>4, OldTableIsCurrent
<1> QED BY <1>1, <1>3, <1>4

(* Nothing is owed as long as no confirmation has overtaken a write.       *)
LEMMA NothingOwed == ClientInv /\ ~ overtaken => stream.owed = {}
BY DEF ClientInv, StreamInOrder

(* A session whose confirmed slot is applied can be published.             *)
LEMMA SessionIsCurrent ==
  ASSUME ClientInv, InSession, servers # "behind", stream.owed = {}, attempt.buffered = << >>,
         \A s \in 1 .. session.confirmedSlot : session.pending[s] = << >>
  PROVE  /\ AsOf(session.tables, session.confirmedSlot .. Latest)
         /\ AsOf(session.tables, session.confirmedSlot .. tip)
<1>1. /\ session.confirmedSlot \in Slot /\ session.bootstrapSlot <= session.confirmedSlot
      /\ session.confirmedSlot <= Latest /\ Latest <= tip
      /\ Latest \in Nat /\ tip \in Nat /\ session.confirmedSlot \in Nat
      /\ session.confirmedSlot > session.bootstrapSlot => session.confirmedSlot <= stream.at
  <2>1. session.confirmedSlot \in Slot /\ Latest \in Slot /\ tip \in Slot
    BY LatestFacts
  <2> QED BY <2>1, LatestFacts, InitialValues DEF ClientInv, SlotsInOrder
<1>2. AsOf(session.tables, session.confirmedSlot .. Latest)
  BY <1>1, CaughtUp
<1>3. session.confirmedSlot .. Latest \subseteq session.confirmedSlot .. tip
  BY <1>1
<1> QED BY <1>2, <1>3 DEF AsOf

(* A step that moves the session from one phase to the next, or publishes  *)
(* of it, leaves its writes on track.                                      *)
LEMMA SessionRests ==
  ASSUME ClientInv, UNCHANGED <<ledger, tip, servers, stream, overtaken, session>>,
         InSession, InSession', Latest' = Latest, attempt'.buffered = attempt.buffered
  PROVE  NothingLost' /\ OnlyFromStream' /\ StreamInOrder' /\ WritesInOrder'
<1>1. \A k, s : /\ StreamOwes(k, s)' <=> StreamOwes(k, s)
                /\ Buffered(k, s)' <=> Buffered(k, s)
                /\ Staged(k, s)' <=> Staged(k, s)
                /\ Outstanding(k, s)' <=> Outstanding(k, s)
  <2>1. \A k, s : /\ StreamOwes(k, s)' <=> StreamOwes(k, s)
                  /\ Buffered(k, s)' <=> Buffered(k, s)
                  /\ Staged(k, s)' <=> Staged(k, s)
    BY DEF StreamOwes, Buffered, Staged, IsWrite
  <2> QED BY <2>1 DEF Outstanding
<1>2. Latest \in Slot /\ Latest' \in Slot /\ Latest <= Latest' /\ Latest <= tip
  BY LatestFacts, InitialValues
<1>3. NothingLost'
  <2>1. servers # "behind" => SessionOnTrack'
    BY <1>1, <1>2, SessionStays DEF ClientInv, NothingLost
  <2> QED BY <2>1 DEF NothingLost, InSession
<1>4. OnlyFromStream'
  <2>1. \A u : FromLedger(u)' <=> FromLedger(u)
    BY DEF FromLedger
  <2> QED BY <2>1 DEF ClientInv, OnlyFromStream, FromLedger
<1>5. StreamInOrder' /\ WritesInOrder'
  BY <1>1 DEF ClientInv, StreamInOrder, WritesInOrder, HeldOnce, BufferInOrder, StagedFirst, IsWrite
<1> QED BY <1>3, <1>4, <1>5

(* confirm is done: the session has everything through the slot.           *)
LEMMA ConfirmEndsInv == ClientInv /\ ConfirmEnds => ClientInv'
<1> SUFFICES ASSUME ClientInv, ConfirmEnds PROVE ClientInv'
  OBVIOUS
<1>1. /\ UNCHANGED <<ledger, tip, servers, stream, overtaken, faults, phase, held, attempt, reader>>
      /\ confirming # 0 /\ Due = {}
      /\ session' = [session EXCEPT !.confirmedSlot = confirming]
      /\ confirming' = 0
      /\ inner' = IF phase = "follow" THEN [inner EXCEPT !.confirmedSlot = confirming] ELSE inner
  BY DEF ConfirmEnds, SlotApplied, chain, net
<1>2. /\ phase \in {"replay", "follow"} /\ InSession /\ InSession'
      /\ session.confirmedSlot < confirming /\ confirming <= stream.at /\ stream.at <= tip
  BY <1>1 DEF ClientInv, SlotsInOrder, StreamInOrder, InSession
<1>3. /\ session \in Sessions /\ confirming \in Slot /\ confirming \in Nat /\ 0 \in Slot
      /\ session.confirmedSlot \in Nat /\ session.bootstrapSlot \in Nat
      /\ session.bootstrapSlot <= session.confirmedSlot /\ confirming <= Latest
      /\ tip \in Nat /\ stream.at \in Nat /\ Latest \in Nat /\ Latest <= tip
      /\ inner \in [tables: Tables, ready: BOOLEAN, confirmedSlot: Slot]
  <2>1. Latest \in Slot
    BY <1>2, LatestFacts
  <2> QED BY <1>2, <2>1, LatestFacts, InitialValues DEF ClientInv, TypeOK, Sessions, Streams
<1>4. /\ session' \in Sessions /\ session'.tables = session.tables
      /\ session'.bootstrapSlot = session.bootstrapSlot
      /\ session'.pending = session.pending /\ session'.confirmedSlot = confirming
  BY <1>1, <1>3 DEF Sessions
<1>5. TypeOK'
  <2>1. inner' \in [tables: Tables, ready: BOOLEAN, confirmedSlot: Slot]
    BY <1>1, <1>3
  <2> QED BY <1>1, <1>3, <1>4, <2>1 DEF ClientInv, TypeOK
<1>6. Latest' = Latest
  <2>1. Max({session.confirmedSlot, confirming}) = confirming /\ Max({confirming, 0}) = confirming
    <3>1. ~ (session.confirmedSlot >= confirming) /\ confirming >= 0
      BY <1>2, <1>3
    <3> QED BY <1>3, <3>1, MaxOfTwo
  <2> QED BY <1>1, <1>4, <2>1 DEF Latest
<1>7. \A k, s : /\ StreamOwes(k, s)' <=> StreamOwes(k, s)
                /\ Buffered(k, s)' <=> Buffered(k, s)
                /\ Staged(k, s)' <=> Staged(k, s)
                /\ Outstanding(k, s)' <=> Outstanding(k, s)
  <2>1. \A k, s : /\ StreamOwes(k, s)' <=> StreamOwes(k, s)
                  /\ Buffered(k, s)' <=> Buffered(k, s)
                  /\ Staged(k, s)' <=> Staged(k, s)
    BY <1>1, <1>4 DEF StreamOwes, Buffered, Staged, IsWrite
  <2> QED BY <2>1 DEF Outstanding
<1>8. NothingLost'
  <2>1. Latest \in Slot /\ Latest' \in Slot /\ Latest <= Latest'
    BY <1>2, <1>3, <1>6, LatestFacts
  <2>2. servers # "behind" => SessionOnTrack'
    BY <1>1, <1>2, <1>3, <1>4, <1>7, <2>1, SessionStays DEF ClientInv, NothingLost
  <2> QED BY <1>1, <1>2, <2>2 DEF NothingLost
<1>9. OnlyFromStream' /\ StreamInOrder'
  <2>1. OnlyFromStream /\ StreamInOrder
    BY DEF ClientInv
  <2>2. OnlyFromStream'
    BY <1>1, <1>4, <2>1, OnlyFromStreamStays
  <2>3. StreamInOrder'
    BY <1>1, <2>1 DEF StreamInOrder
  <2> QED BY <2>2, <2>3
<1>10. WritesInOrder'
  BY <1>1, <1>7 DEF ClientInv, WritesInOrder, HeldOnce, BufferInOrder, StagedFirst, IsWrite
<1>11. \A s \in 0 .. confirming : session.pending[s] = << >>
  <2>1. Through = confirming
    BY <1>1 DEF Through
  <2>2. \A s \in 1 .. confirming : session.pending[s] = << >>
    BY <1>1, <2>1 DEF Due
  <2>3. \A s \in 0 .. confirming : s = 0 \/ s \in 1 .. confirming
    BY <1>3
  <2> QED BY <2>2, <2>3, NoneBeforeFirst
<1>12. SlotsInOrder' /\ ReplayIsComplete'
  <2>1. SlotsInOrder'
    <3>1. 0 < session.bootstrapSlot /\ phase' # "bootstrap"
      BY <1>1, <1>2 DEF ClientInv, SlotsInOrder
    <3> QED BY <1>1, <1>2, <1>3, <1>4, <3>1 DEF SlotsInOrder
  <2>2. ReplayIsComplete'
    BY <1>1, <1>2, <1>4, <1>11 DEF ClientInv, ReplayIsComplete
  <2> QED BY <2>1, <2>2
<1>13. /\ inner'.tables = inner.tables /\ inner'.ready = inner.ready
       /\ phase = "follow" => inner'.confirmedSlot = confirming /\ held
                                /\ inner.confirmedSlot = session.confirmedSlot
       /\ phase # "follow" => inner' = inner
  BY <1>1, <1>3 DEF ClientInv, Published, ReplayIsComplete
<1>14. Published'
  <2>1. CASE phase = "follow"
    BY <1>1, <1>2, <1>3, <1>4, <1>13, <2>1 DEF ClientInv, Published
  <2>2. CASE phase = "replay"
    <3>1. inner.confirmedSlot \in Nat
      BY <1>3, InitialValues
    <3>2. servers # "behind" => inner.confirmedSlot <= confirming
      BY <1>2, <1>3, <3>1 DEF ClientInv, Published
    <3> QED BY <1>1, <1>2, <1>4, <1>13, <2>2, <3>2 DEF ClientInv, Published
  <2> QED BY <1>2, <2>1, <2>2
<1>15. ReaderIsCurrent'
  <2>1. CASE phase # "follow"
    BY <1>1, <1>13, <2>1, ReaderRests DEF ClientInv
  <2>2. CASE phase = "follow"
    <3>1. inner.tables = session.tables /\ attempt.buffered = << >>
      BY <2>2 DEF ClientInv, Published, ReplayIsComplete
    <3>2. ASSUME servers # "behind", ~ overtaken
          PROVE  AsOf(inner.tables, confirming .. tip)
      <4>1. AsOf(session.tables, confirming .. Latest)
        <5>1. session.bootstrapSlot <= confirming
          BY <1>2, <1>3
        <5>2. \A s \in 1 .. confirming : session.pending[s] = << >>
          BY <1>3, <1>11
        <5> QED BY <1>2, <1>3, <3>1, <3>2, <5>1, <5>2, NothingOwed, CaughtUp
      <4>2. confirming .. Latest \subseteq confirming .. tip
        BY <1>3
      <4> QED BY <3>1, <4>1, <4>2 DEF AsOf
    <3>3. reader.step # "idle" /\ servers # "behind" => reader.slot <= confirming
      <4> SUFFICES ASSUME reader.step # "idle", servers # "behind" PROVE reader.slot <= confirming
        OBVIOUS
      <4>1. reader.slot \in Nat /\ reader.slot <= inner.confirmedSlot
        BY ReaderCases, InitialValues DEF ClientInv, TypeOK, ReaderIsCurrent
      <4> QED BY <1>2, <1>3, <1>13, <2>2, <4>1
    <3> QED BY <1>1, <1>13, <2>2, <3>2, <3>3 DEF ClientInv, ReaderIsCurrent, GetIsNotStale, AsOf
  <2> QED BY <2>1, <2>2
<1> QED BY <1>5, <1>8, <1>9, <1>10, <1>12, <1>14, <1>15 DEF ClientInv

(* The session stands: everything through its slot is applied.             *)
LEMMA EstablishedInv == ClientInv /\ Established => ClientInv'
<1> SUFFICES ASSUME ClientInv, Established PROVE ClientInv'
  OBVIOUS
<1>1. /\ UNCHANGED <<ledger, tip, servers, stream, overtaken, faults, session, confirming, reader>>
      /\ phase = "replay" /\ confirming = 0 /\ attempt.buffered = << >> /\ Due = {}
      /\ attempt' = Attempt(attempt.source, 0)
      /\ phase' \in {"tables", "follow"} /\ held'
      /\ InSession /\ InSession'
  BY DEF Established, chain, net, InSession, ClientInv, TypeOK
<1>2. /\ attempt \in Attempts /\ session \in Sessions /\ session.confirmedSlot \in Nat
      /\ inner \in [tables: Tables, ready: BOOLEAN, confirmedSlot: Slot] /\ held \in BOOLEAN
      /\ session.tables \in Tables /\ session.confirmedSlot \in Slot
  BY InitialValues DEF ClientInv, TypeOK, Sessions
<1>3. attempt' \in Attempts /\ attempt'.buffered = << >> /\ Len(attempt'.buffered) <= BufferCapacity
  <2>1. attempt.source \in 0 .. SourceCount - 1 /\ 0 \in 0 .. SourceCount - 1
    BY <1>2, CountAssumption DEF Attempts
  <2> QED BY <1>1, <2>1, NewAttempt
<1>4. \A s \in 0 .. session.confirmedSlot : session.pending[s] = << >>
  <2>1. Through = session.confirmedSlot
    BY <1>1 DEF Through
  <2>2. \A s \in 1 .. session.confirmedSlot : session.pending[s] = << >>
    BY <1>1, <2>1 DEF Due
  <2>3. \A s \in 0 .. session.confirmedSlot : s = 0 \/ s \in 1 .. session.confirmedSlot
    BY <1>2
  <2> QED BY <2>2, <2>3, NoneBeforeFirst
<1>5. Latest' = Latest
  BY <1>1 DEF Latest
<1>6. NothingLost' /\ OnlyFromStream' /\ StreamInOrder' /\ WritesInOrder'
  BY <1>1, <1>3, <1>5, SessionRests
<1>7. SlotsInOrder' /\ ReplayIsComplete'
  BY <1>1, <1>3, <1>4 DEF ClientInv, SlotsInOrder, ReplayIsComplete
<1>8. CASE held /\ phase' = "tables" /\ UNCHANGED <<held, inner>>
  <2>1. TypeOK'
    BY <1>1, <1>3, <1>8 DEF ClientInv, TypeOK, Phases
  <2>2. Published'
    BY <1>1, <1>8 DEF ClientInv, Published
  <2>3. ReaderIsCurrent'
    BY <1>1, <1>8, ReaderRests DEF ClientInv
  <2> QED BY <1>6, <1>7, <2>1, <2>2, <2>3 DEF ClientInv
<1>9. CASE /\ ~ held /\ phase' = "follow"
           /\ inner' = [tables |-> session.tables, ready |-> TRUE,
                        confirmedSlot |-> session.confirmedSlot]
  <2>1. TypeOK'
    BY <1>1, <1>2, <1>3, <1>9 DEF ClientInv, TypeOK, Phases
  <2>2. session.confirmedSlot <= tip
    BY <1>1 DEF ClientInv, SlotsInOrder
  <2>3. Published'
    BY <1>1, <1>2, <1>9, <2>2 DEF Published
  <2>4. reader.step = "idle"
    BY <1>9 DEF ClientInv, ReaderIsCurrent
  <2>5. servers # "behind" /\ ~ overtaken => AsOf(session.tables, session.confirmedSlot .. tip)
    <3>1. \A s \in 1 .. session.confirmedSlot : s \in 0 .. session.confirmedSlot
      BY <1>2
    <3> QED BY <1>1, <1>4, <3>1, NothingOwed, SessionIsCurrent
  <2>6. ReaderIsCurrent'
    BY <1>1, <1>9, <2>4, <2>5 DEF ReaderIsCurrent, GetIsNotStale, AsOf
  <2> QED BY <1>6, <1>7, <2>1, <2>3, <2>6 DEF ClientInv
<1> QED BY <1>8, <1>9 DEF Established

(* Recovery shows readers the new tables, then the slot, then the flag:    *)
(* at each of the steps the slot that readers see is one that the tables   *)
(* they see are as of.                                                     *)
LEMMA StoreInv ==
  ASSUME ClientInv, StoreTables \/ StoreSlot \/ StoreReady
  PROVE  ClientInv'
<1>1. /\ UNCHANGED <<ledger, tip, servers, stream, overtaken, faults, held, attempt, session, confirming>>
      /\ phase \in {"tables", "slot", "ready"} /\ phase' \in {"slot", "ready", "follow"}
      /\ InSession /\ InSession'
  BY DEF StoreTables, StoreSlot, StoreReady, chain, net, InSession
<1>2. /\ session \in Sessions /\ session.confirmedSlot \in Nat /\ session.confirmedSlot \in Slot
      /\ session.tables \in Tables /\ reader \in Readers
      /\ inner \in [tables: Tables, ready: BOOLEAN, confirmedSlot: Slot]
      /\ inner.confirmedSlot \in Nat /\ tip \in Nat
  BY InitialValues DEF ClientInv, TypeOK, Sessions
<1>3. /\ held /\ attempt.buffered = << >> /\ confirming = 0 /\ ~ inner.ready
      /\ \A s \in 1 .. session.confirmedSlot : session.pending[s] = << >>
      /\ session.confirmedSlot <= tip
  <2>1. \A s \in 1 .. session.confirmedSlot : s \in 0 .. session.confirmedSlot
    BY <1>2
  <2> QED BY <1>1, <2>1 DEF ClientInv, ReplayIsComplete, SlotsInOrder, Published
<1>4. NothingLost' /\ OnlyFromStream' /\ StreamInOrder' /\ WritesInOrder'
  <2>1. Latest' = Latest
    BY <1>1 DEF Latest
  <2> QED BY <1>1, <2>1, SessionRests
<1>5. SlotsInOrder' /\ ReplayIsComplete'
  BY <1>1, <1>3 DEF ClientInv, SlotsInOrder, ReplayIsComplete
<1>6. servers # "behind" /\ ~ overtaken => AsOf(session.tables, session.confirmedSlot .. tip)
  BY <1>1, <1>3, NothingOwed, SessionIsCurrent
<1>7. /\ servers # "behind" => inner.confirmedSlot <= session.confirmedSlot
      /\ reader.step # "idle" => reader.slot \in Nat
      /\ reader.step # "idle" /\ servers # "behind" => reader.slot <= inner.confirmedSlot
  BY <1>1, <1>2, ReaderCases, InitialValues DEF ClientInv, Published, ReaderIsCurrent
<1>8. CASE StoreTables
  <2>1. /\ inner' = [inner EXCEPT !.tables = session.tables]
        /\ phase = "tables" /\ phase' = "slot"
        /\ reader' = IF reader.step = "loaded" /\ reader.replaced = {}
                     THEN [reader EXCEPT !.replaced = {inner.tables}]
                     ELSE reader
    BY <1>8 DEF StoreTables
  <2>2. /\ inner' \in [tables: Tables, ready: BOOLEAN, confirmedSlot: Slot]
        /\ inner'.tables = session.tables /\ inner'.confirmedSlot = inner.confirmedSlot
        /\ inner'.ready = inner.ready
    BY <1>2, <2>1
  <2>3. /\ reader' \in Readers /\ reader'.step = reader.step
        /\ reader.step # "idle" => reader'.slot = reader.slot
        /\ reader' = reader \/ (reader'.step = "loaded" /\ reader'.replaced = {inner.tables})
    <3>1. CASE reader.step = "loaded" /\ reader.replaced = {}
      <4>1. reader \in [step: {"loaded"}, slot: Slot, replaced: SUBSET Tables]
        BY <1>2, <3>1, ReaderCases
      <4>2. reader' = [step |-> "loaded", slot |-> reader.slot, replaced |-> {inner.tables}]
        BY <2>1, <3>1, <4>1
      <4> QED BY <1>2, <4>1, <4>2 DEF Readers
    <3>2. CASE ~ (reader.step = "loaded" /\ reader.replaced = {})
      BY <1>2, <2>1, <3>2
    <3> QED BY <3>1, <3>2
  <2>4. TypeOK'
    BY <1>1, <2>1, <2>2, <2>3 DEF ClientInv, TypeOK, Phases
  <2>5. Published'
    BY <1>1, <1>3, <1>7, <2>1, <2>2 DEF ClientInv, Published
  <2>6. ASSUME servers # "behind", ~ overtaken
        PROVE  AsOf(inner'.tables, inner'.confirmedSlot .. tip)
    <3>1. session.confirmedSlot .. tip \subseteq inner.confirmedSlot .. tip
      BY <1>2, <1>7, <2>6
    <3> QED BY <1>6, <2>2, <2>6, <3>1 DEF AsOf
  <2>7. ASSUME servers # "behind", ~ overtaken, reader.step = "loaded"
        PROVE  AsOf(inner.tables, reader.slot .. tip)
    <3>1. inner.confirmedSlot .. tip \subseteq reader.slot .. tip
      BY <1>2, <1>7, <2>7
    <3> QED BY <1>3, <2>7, <3>1 DEF ClientInv, ReaderIsCurrent, AsOf
  <2>8. GetIsNotStale'
    BY <1>1, <2>3 DEF ClientInv, ReaderIsCurrent, GetIsNotStale
  <2>9. ASSUME servers # "behind", ~ overtaken, reader'.step = "loaded"
        PROVE  \A map \in reader'.replaced : AsOf(map, reader'.slot .. tip)
    <3>1. CASE reader' = reader
      BY <2>9, <3>1 DEF ClientInv, ReaderIsCurrent
    <3>2. CASE reader'.replaced = {inner.tables}
      BY <2>3, <2>7, <2>9, <3>2
    <3> QED BY <2>3, <3>1, <3>2
  <2>10. ReaderIsCurrent'
    BY <1>1, <1>3, <1>7, <2>2, <2>3, <2>6, <2>8, <2>9 DEF ReaderIsCurrent, AsOf
  <2> QED BY <1>4, <1>5, <2>4, <2>5, <2>10 DEF ClientInv
<1>9. CASE StoreSlot
  <2>1. /\ inner' = [inner EXCEPT !.confirmedSlot = session.confirmedSlot]
        /\ phase = "slot" /\ phase' = "ready" /\ reader' = reader
    BY <1>9 DEF StoreSlot
  <2>2. /\ inner' \in [tables: Tables, ready: BOOLEAN, confirmedSlot: Slot]
        /\ inner'.tables = session.tables /\ inner'.confirmedSlot = session.confirmedSlot
        /\ inner'.ready = inner.ready
    BY <1>2, <2>1 DEF ClientInv, Published
  <2>3. TypeOK'
    BY <1>1, <2>1, <2>2 DEF ClientInv, TypeOK, Phases
  <2>4. Published'
    BY <1>1, <1>2, <1>3, <2>1, <2>2 DEF Published
  <2>5. reader.step # "idle" /\ servers # "behind" => reader.slot <= session.confirmedSlot
    BY <1>2, <1>7
  <2>6. ReaderIsCurrent'
    BY <1>1, <1>3, <1>6, <2>1, <2>2, <2>5 DEF ClientInv, ReaderIsCurrent, GetIsNotStale, AsOf
  <2> QED BY <1>4, <1>5, <2>3, <2>4, <2>6 DEF ClientInv
<1>10. CASE StoreReady
  <2>1. /\ inner' = [inner EXCEPT !.ready = TRUE]
        /\ phase = "ready" /\ phase' = "follow" /\ reader' = reader
    BY <1>10 DEF StoreReady
  <2>2. /\ inner' \in [tables: Tables, ready: BOOLEAN, confirmedSlot: Slot]
        /\ inner'.tables = inner.tables /\ inner'.confirmedSlot = inner.confirmedSlot
        /\ inner.tables = session.tables /\ inner.confirmedSlot = session.confirmedSlot
    BY <1>2, <2>1 DEF ClientInv, Published
  <2>3. TypeOK'
    BY <1>1, <2>1, <2>2 DEF ClientInv, TypeOK, Phases
  <2>4. Published'
    BY <1>1, <1>2, <1>3, <2>1, <2>2 DEF Published
  <2>5. ReaderIsCurrent'
    BY <1>1, <2>1, <2>2 DEF ClientInv, ReaderIsCurrent, GetIsNotStale, AsOf
  <2> QED BY <1>4, <1>5, <2>3, <2>4, <2>5 DEF ClientInv
<1> QED BY <1>8, <1>9, <1>10

-----------------------------------------------------------------------------
(* The theorems                                                            *)

(* Nothing happens.                                                        *)
LEMMA StutterInv == ClientInv /\ UNCHANGED vars => ClientInv'
<1> SUFFICES ASSUME ClientInv, UNCHANGED vars PROVE ClientInv'
  OBVIOUS
<1>1. UNCHANGED <<chain, net, task, inner>> /\ reader' = reader
  BY DEF vars
<1>2. UNCHANGED <<ledger, tip, servers, overtaken, held, inner>> /\ reader' \in Readers
  BY <1>1 DEF chain, net, task, ClientInv, TypeOK
<1> QED BY <1>1, <1>2, ReaderLeavesRest, ReaderRests DEF ClientInv

(* Every step keeps the invariant.                                         *)
LEMMA ClientStepInv == ClientInv /\ [Next]_vars => ClientInv'
<1> SUFFICES ASSUME ClientInv, [Next]_vars PROVE ClientInv'
  OBVIOUS
<1>1. CASE ConfirmBlock
  BY <1>1, ConfirmBlockInv
<1>2. CASE Connect
  BY <1>2, ConnectInv
<1>3. CASE TaskStep
  BY <1>3, ConnectInv, SubscribeInv, ReplayEventInv, ApplyUpdateInv, ApplyMalformedInv,
     ConfirmEndsInv, EstablishedInv, StoreInv DEF TaskStep
<1>4. CASE SubscribeFails \/ BootstrapStreamFails \/ SnapshotFails
  BY <1>4, BootstrapFailsInv
<1>5. CASE \E o \in Offers : BootstrapReceives(o)
  BY <1>5, BootstrapReceivesInv
<1>6. CASE Fetch
  BY <1>6, SnapshotFetchedInv DEF Fetch
<1>7. CASE Follow
  BY <1>7, FollowReceivesInv DEF Follow
<1>8. CASE FollowStreamFails
  BY <1>8, FollowStreamFailsInv
<1>9. CASE ReaderStep
  BY <1>9, ReaderStepInv
<1>10. CASE Drop
  BY <1>10, DropInv
<1>11. CASE UNCHANGED vars
  BY <1>11, StutterInv
<1> QED BY <1>1, <1>2, <1>3, <1>4, <1>5, <1>6, <1>7, <1>8, <1>9, <1>10, <1>11 DEF Next

(* The invariant of the client, whatever the numbers of keys, slots,       *)
(* sources, servers and faults and the capacity of the buffer.             *)
THEOREM ClientInvHolds == Spec => []ClientInv
<1>1. Init => ClientInv
  BY ClientInitInv
<1>2. ClientInv /\ [Next]_vars => ClientInv'
  BY ClientStepInv
<1> QED BY <1>1, <1>2, PTL DEF Spec

(* Type correctness of client.rs's state: among the rest, the buffer stays *)
(* within UPDATE_BUFFER_CAPACITY and the source index within the sources.  *)
THEOREM ClientTypeCorrect == Spec => []TypeOK
<1>1. ClientInv => TypeOK
  BY DEF ClientInv
<1> QED BY <1>1, ClientInvHolds, PTL

(* The handoff from snapshot to stream (establish_session, confirm): the   *)
(* tables that a ready cache shows are as of its slot or the one being     *)
(* applied; no update between the snapshot and the stream is lost, and     *)
(* none is shown early.                                                    *)
THEOREM HandoffLosesNothing == Spec => []ServesBetween
<1>1. ClientInv => ServesBetween
  <2> SUFFICES ASSUME ClientInv, inner.ready, servers # "behind", stream.owed = {}
               PROVE  AsOf(inner.tables,
                           inner.confirmedSlot ..
                             (IF servers = "paged" THEN tip
                              ELSE Max({inner.confirmedSlot, confirming})))
    BY DEF ServesBetween
  <2>1. /\ phase = "follow" /\ InSession
        /\ inner.tables = session.tables /\ inner.confirmedSlot = session.confirmedSlot
        /\ attempt.buffered = << >> /\ session.confirmedSlot \in Nat
        /\ \A s \in 0 .. session.confirmedSlot : session.pending[s] = << >>
    BY InitialValues DEF ClientInv, TypeOK, Sessions, Published, ReplayIsComplete, InSession
  <2>2. \A s \in 1 .. session.confirmedSlot : session.pending[s] = << >>
    BY <2>1
  <2>3. AsOf(session.tables, session.confirmedSlot .. Latest)
    BY <2>1, <2>2, SessionIsCurrent
  <2> QED BY <2>1, <2>3 DEF Latest
<1> QED BY <1>1, ClientInvHolds, PTL

(* get against recovery: what a caller is given is never older than the    *)
(* slot that confirmed_slot told it before.                                *)
THEOREM GetIsCurrent == Spec => []GetIsNotStale
<1>1. ClientInv => GetIsNotStale
  BY DEF ClientInv, ReaderIsCurrent
<1> QED BY <1>1, ClientInvHolds, PTL

(* The flag: a ready cache is followed by the task, under the session's    *)
(* own tables and slot.                                                    *)
THEOREM ReadyIsFollowed == Spec => []ReadyMeansFollowing
<1>1. ClientInv => ReadyMeansFollowing
  BY DEF ClientInv, Published, ReadyMeansFollowing
<1> QED BY <1>1, ClientInvHolds, PTL

-----------------------------------------------------------------------------
(* What readers are promised                                               *)

(* A ready cache has applied what its session has confirmed.               *)
LEMMA ReadyFacts ==
  ASSUME ClientInv, inner.ready
  PROVE  /\ phase = "follow" /\ InSession
         /\ inner.tables = session.tables /\ inner.confirmedSlot = session.confirmedSlot
         /\ attempt.buffered = << >>
         /\ \A s \in 0 .. session.confirmedSlot : session.pending[s] = << >>
         /\ session.confirmedSlot \in Slot /\ session.confirmedSlot > 0
         /\ Latest \in Slot /\ session.confirmedSlot <= Latest /\ Latest <= tip
<1>1. phase = "follow" /\ InSession
  BY DEF ClientInv, Published, InSession
<1>2. session.bootstrapSlot \in Nat /\ session.confirmedSlot \in Nat
  BY <1>1, LatestFacts, InitialValues
<1> QED BY <1>1, <1>2, LatestFacts DEF ClientInv, SlotsInOrder, Published, ReplayIsComplete

(* What is readable keeps the promise of a view.                           *)
LEMMA ServedFacts ==
  ClientInv =>
    /\ Served = View!None <=> ~ (inner.ready /\ ~ overtaken /\ servers # "behind")
    /\ Served # View!None =>
         /\ Served.slot = inner.confirmedSlot /\ Served.tables = inner.tables
         /\ Served \in View!Views /\ View!Promise(Served)
         /\ View!Span(Served) = inner.confirmedSlot .. Latest
<1> SUFFICES ASSUME ClientInv
             PROVE  /\ Served = View!None <=> ~ (inner.ready /\ ~ overtaken /\ servers # "behind")
                    /\ Served # View!None =>
                         /\ Served.slot = inner.confirmedSlot /\ Served.tables = inner.tables
                         /\ Served \in View!Views /\ View!Promise(Served)
                         /\ View!Span(Served) = inner.confirmedSlot .. Latest
  OBVIOUS
<1>1. CASE ~ (inner.ready /\ ~ overtaken /\ servers # "behind")
  BY <1>1 DEF Served, View!None
<1>2. CASE inner.ready /\ ~ overtaken /\ servers # "behind"
  <2>1. /\ InSession /\ inner.tables = session.tables /\ inner.confirmedSlot = session.confirmedSlot
        /\ attempt.buffered = << >> /\ stream.owed = {}
        /\ \A s \in 0 .. session.confirmedSlot : session.pending[s] = << >>
        /\ session.confirmedSlot \in Nat /\ session.confirmedSlot > 0
        /\ Latest \in Nat /\ session.confirmedSlot <= Latest /\ Latest <= tip
        /\ tip \in Nat /\ tip <= MaxSlot /\ MaxSlot \in Nat
    BY <1>2, ReadyFacts, NothingOwed, InitialValues, CountAssumption DEF ClientInv, TypeOK
  <2>2. PICK c \in 1 .. MaxSlot, u \in 1 .. MaxSlot, t \in Tables :
          /\ c = inner.confirmedSlot /\ t = inner.tables
          /\ u = IF servers = "paged" THEN MaxSlot ELSE Max({inner.confirmedSlot, confirming})
    <3>1. inner.tables \in Tables
      BY DEF ClientInv, TypeOK
    <3>2. CASE servers = "paged"
      BY <2>1, <3>1, <3>2
    <3>3. CASE servers # "paged"
      BY <2>1, <3>1, <3>3 DEF Latest
    <3> QED BY <3>2, <3>3
  <2>3. Served = [slot |-> c, until |-> u, tables |-> t]
    BY <1>2, <2>2 DEF Served
  <2>4. Served # View!None
    <3>1. DOMAIN [slot |-> c, until |-> u, tables |-> t] # DOMAIN [none |-> TRUE]
      OBVIOUS
    <3> QED BY <2>3, <3>1 DEF View!None
  <2>5. Served \in View!Views /\ Served.slot = c /\ Served.until = u /\ Served.tables = t
    BY <2>3 DEF View!Views, View!Contents, Tables, Contents
  <2>6. View!Span(Served) = inner.confirmedSlot .. Latest
    <3>1. CASE servers = "paged"
      BY <2>1, <2>2, <2>5, <3>1 DEF View!Span, Latest
    <3>2. CASE servers # "paged"
      <4>1. u = Latest
        BY <2>1, <2>2, <3>2 DEF Latest
      <4> QED BY <2>1, <2>2, <2>5, <4>1 DEF View!Span
    <3> QED BY <3>1, <3>2
  <2>7. \A s \in 1 .. session.confirmedSlot : session.pending[s] = << >>
    BY <2>1
  <2>8. AsOf(session.tables, session.confirmedSlot .. Latest)
    BY <1>2, <2>1, <2>7, SessionIsCurrent
  <2>9. View!Promise(Served)
    BY <2>1, <2>2, <2>5, <2>6, <2>8 DEF View!Promise, View!AsOf, AsOf
  <2> QED BY <1>2, <2>2, <2>4, <2>5, <2>6, <2>9
<1> QED BY <1>1, <1>2

(* What is readable after a step may be served, when neither the slot nor, *)
(* with exact servers, a table goes back.                                  *)
LEMMA ServesAnew ==
  ASSUME ClientInv, ClientInv', UNCHANGED <<ledger, tip, servers>>, Served' # View!None,
         Served # View!None =>
           /\ inner.confirmedSlot <= inner'.confirmedSlot
           /\ servers # "paged" =>
                \A k \in Key :
                  \E d \in inner'.confirmedSlot .. Latest' : \E b \in inner.confirmedSlot .. Latest :
                    b <= d /\ inner.tables[k] = ledger[b][k] /\ inner'.tables[k] = ledger[d][k]
  PROVE  View!Next
<1>1. (ClientInv =>
         /\ Served = View!None <=> ~ (inner.ready /\ ~ overtaken /\ servers # "behind")
         /\ Served # View!None =>
              /\ Served.slot = inner.confirmedSlot /\ Served.tables = inner.tables
              /\ Served \in View!Views /\ View!Promise(Served)
              /\ View!Span(Served) = inner.confirmedSlot .. Latest)'
  BY ServedFacts, PTL
<1>2. (View!None)' = View!None /\ (View!Views)' = View!Views
  BY DEF View!None, View!Views, View!Contents
<1>3. PICK v : v = Served'
  OBVIOUS
<1>4. /\ v \in View!Views /\ v.slot = inner'.confirmedSlot /\ v.tables = inner'.tables
      /\ View!Promise(Served)' /\ View!Span(Served)' = inner'.confirmedSlot .. Latest'
  BY <1>1, <1>2, <1>3
<1>5. View!Span(v) = inner'.confirmedSlot .. Latest' /\ View!Promise(v)
  BY <1>3, <1>4 DEF View!Span, View!Promise, View!AsOf
<1>6. Served # View!None =>
        /\ Served.slot <= v.slot
        /\ servers = "paged" \/ View!NoTableGoesBack(Served, v)
  BY <1>4, <1>5, ServedFacts DEF View!NoTableGoesBack
<1>7. View!Serve(v)
  BY <1>3, <1>5, <1>6 DEF View!Serve
<1> QED BY <1>4, <1>7 DEF View!Next

(* An update that is applied while following is of a later slot than any   *)
(* that its table, of an exact server, was already as of.                  *)
LEMMA UpdateAdvances ==
  ASSUME ClientInv, ApplyUpdate, inner.ready, servers \notin {"behind", "paged"}, stream.owed = {}
  PROVE  /\ inner'.confirmedSlot = inner.confirmedSlot /\ Latest' = Latest
         /\ \A k \in Key :
              \E d \in inner.confirmedSlot .. Latest : \E b \in inner.confirmedSlot .. Latest :
                b <= d /\ inner.tables[k] = ledger[b][k] /\ inner'.tables[k] = ledger[d][k]
<1>1. /\ phase = "follow" /\ InSession /\ Due # {} /\ NextUpdate.table # Malformed
      /\ inner.tables = session.tables /\ inner.confirmedSlot = session.confirmedSlot
      /\ attempt.buffered = << >>
      /\ \A s \in 0 .. session.confirmedSlot : session.pending[s] = << >>
      /\ session.confirmedSlot \in Slot /\ Latest \in Slot /\ session.confirmedSlot <= Latest
      /\ UNCHANGED <<ledger, servers, confirming>>
  BY ReadyFacts DEF ApplyUpdate, chain
<1>2. PICK m \in Slot, u \in Updates :
        /\ m = Min(Due) /\ u = NextUpdate /\ m \in 1 .. Latest
        /\ session.pending[m] # << >> /\ u.slot = m /\ FromLedger(u)
        /\ session.bootstrapSlot <= m /\ Staged(u.key, m)
  BY <1>1, NextUpdateFacts
<1>3. /\ m \in Nat /\ session.confirmedSlot \in Nat /\ Latest \in Nat /\ session.bootstrapSlot \in Nat
      /\ u.key \in Key /\ u.table = ledger[m][u.key] /\ session \in Sessions
      /\ inner \in [tables: Tables, ready: BOOLEAN, confirmedSlot: Slot]
      /\ session.tables \in Tables
  BY <1>1, <1>2, InitialValues DEF ClientInv, TypeOK, Sessions, Updates, FromLedger
<1>4. m > session.confirmedSlot
  <2>1. m \notin 0 .. session.confirmedSlot
    BY <1>1, <1>2
  <2> QED BY <1>3, <2>1
<1>5. session' = [session EXCEPT !.tables[u.key] = u.table, !.pending[m] = Tail(@)]
  BY <1>2 DEF ApplyUpdate
<1>6. /\ session'.confirmedSlot = session.confirmedSlot
      /\ session'.tables = [session.tables EXCEPT ![u.key] = u.table]
  BY <1>3, <1>5 DEF Sessions
<1>7. inner'.tables = session'.tables /\ inner'.confirmedSlot = inner.confirmedSlot
  <2>1. inner' = [inner EXCEPT !.tables = session'.tables]
    BY <1>1 DEF ApplyUpdate
  <2> QED BY <1>3, <2>1
<1>8. Latest' = Latest
  BY <1>1, <1>6 DEF Latest
<1>9. ASSUME NEW k \in Key
      PROVE  \E d \in inner.confirmedSlot .. Latest : \E b \in inner.confirmedSlot .. Latest :
               b <= d /\ inner.tables[k] = ledger[b][k] /\ inner'.tables[k] = ledger[d][k]
  <2>1. CASE k # u.key
    <3>1. inner'.tables[k] = session.tables[k]
      BY <1>3, <1>6, <1>7, <2>1 DEF Tables
    <3>2. \A s \in 1 .. session.confirmedSlot : session.pending[s] = << >>
      BY <1>1, <1>3
    <3>3. AsOf(session.tables, session.confirmedSlot .. Latest)
      BY <1>1, <3>2, SessionIsCurrent
    <3>4. PICK d \in session.confirmedSlot .. Latest : session.tables[k] = ledger[d][k]
      BY <3>3 DEF AsOf
    <3> QED BY <1>1, <1>3, <3>1, <3>4
  <2>2. CASE k = u.key
    <3>1. PICK d \in session.bootstrapSlot .. Latest :
            \E f \in session.bootstrapSlot .. d : OnTrack(k, f, d)
      BY <1>1 DEF ClientInv, NothingLost, SessionOnTrack
    <3>2. PICK f \in session.bootstrapSlot .. d : OnTrack(k, f, d)
      BY <3>1
    <3>3. f = d /\ session.tables[k] = ledger[d][k] /\ d \in Nat
      BY <1>3, <3>1, <3>2 DEF OnTrack
    <3>4. d <= m
      <4> SUFFICES ASSUME m < d PROVE FALSE
        BY <1>3, <3>3
      <4>1. m \in session.bootstrapSlot .. (f - 1)
        BY <1>2, <1>3, <3>3
      <4> QED BY <1>2, <2>2, <3>2, <4>1 DEF OnTrack, Outstanding
    <3>5. PICK b \in session.confirmedSlot .. m : session.tables[k] = ledger[b][k]
      <4>1. CASE session.confirmedSlot <= d
        BY <1>3, <3>3, <3>4, <4>1
      <4>2. CASE d < session.confirmedSlot
        <5>1. session.confirmedSlot > session.bootstrapSlot => session.confirmedSlot <= stream.at
          BY <1>1 DEF ClientInv, SlotsInOrder
        <5>2. \A s \in 1 .. session.confirmedSlot : session.pending[s] = << >>
          BY <1>1, <1>3
        <5>3. session.tables[k] = ledger[session.confirmedSlot][k]
          BY <1>1, <3>2, <4>2, <5>1, <5>2, OldTableIsCurrent
        <5> QED BY <1>3, <1>4, <5>3
      <4> QED BY <1>3, <3>3, <4>1, <4>2
    <3>6. inner'.tables[k] = ledger[m][k]
      BY <1>3, <1>6, <1>7, <2>2 DEF Tables
    <3>7. m \in session.confirmedSlot .. Latest /\ b \in session.confirmedSlot .. Latest /\ b <= m
      BY <1>2, <1>3, <1>4
    <3> QED BY <1>1, <3>5, <3>6, <3>7
  <2> QED BY <2>1, <2>2
<1> QED BY <1>7, <1>8, <1>9

(* While the cache stays ready its task applies updates, ends a            *)
(* confirmation, starts one, or leaves what readers see alone.             *)
LEMMA ReadySteps ==
  ASSUME ClientInv, [Next]_vars, ~ ConfirmBlock, inner.ready, inner'.ready
  PROVE  /\ UNCHANGED <<ledger, tip, servers>>
         /\ \/ ApplyUpdate
            \/ ConfirmEnds
            \/ UNCHANGED <<inner, confirming>>
            \/ UNCHANGED inner /\ confirming = 0
<1>1. phase = "follow" /\ inner \in [tables: Tables, ready: BOOLEAN, confirmedSlot: Slot]
  BY ReadyFacts DEF ClientInv, TypeOK
<1>2. ~ FollowFailed
  <2>1. ASSUME FollowFailed PROVE FALSE
    <3>1. PICK off : off = FALSE
      OBVIOUS
    <3>2. inner' = [inner EXCEPT !.ready = off]
      BY <2>1, <3>1 DEF FollowFailed, NotReady
    <3>3. inner'.ready = off
      BY <1>1, <3>2
    <3> QED BY <3>1, <3>3
  <2> QED BY <2>1
<1>3. CASE TaskStep
  <2>1. ApplyUpdate \/ ConfirmEnds
    BY <1>1, <1>2, <1>3 DEF TaskStep, DelayEnds, Subscribe, ReplayEvent, ApplyMalformed, Established,
                            StoreTables, StoreSlot, StoreReady
  <2> QED BY <2>1 DEF ApplyUpdate, ConfirmEnds, chain
<1>4. CASE Follow
  <2>1. PICK o \in Offers : FollowReceives(o)
    BY <1>4 DEF Follow
  <2> QED BY <1>2, <2>1 DEF FollowReceives, Receive, chain
<1>5. CASE ReaderStep \/ UNCHANGED vars
  BY <1>5 DEF ReaderStep, chain, task, vars
<1>6. ~ Connect /\ ~ SubscribeFails /\ ~ BootstrapStreamFails /\ ~ SnapshotFails /\ ~ Fetch
      /\ ~ FollowStreamFails
  BY <1>1, <1>2 DEF Connect, SubscribeFails, BootstrapStreamFails, SnapshotFails, Fetch, SnapshotFetched,
                    FollowStreamFails
<1>7. ~ (\E o \in Offers : BootstrapReceives(o))
  BY <1>1 DEF BootstrapReceives
<1>8. ~ Drop
  BY InitialValues DEF Drop
<1> QED BY <1>3, <1>4, <1>5, <1>6, <1>7, <1>8 DEF Next

(* Nothing goes back while the cache stays ready.                          *)
LEMMA NothingGoesBack ==
  ASSUME ClientInv, ClientInv', [Next]_vars, ~ ConfirmBlock, Served # View!None, Served' # View!None
  PROVE  /\ inner.confirmedSlot <= inner'.confirmedSlot
         /\ servers # "paged" =>
              \A k \in Key :
                \E d \in inner'.confirmedSlot .. Latest' : \E b \in inner.confirmedSlot .. Latest :
                  b <= d /\ inner.tables[k] = ledger[b][k] /\ inner'.tables[k] = ledger[d][k]
<1>1. (ClientInv =>
         /\ Served = View!None <=> ~ (inner.ready /\ ~ overtaken /\ servers # "behind")
         /\ Served # View!None =>
              /\ Served.slot = inner.confirmedSlot /\ Served.tables = inner.tables
              /\ Served \in View!Views /\ View!Promise(Served)
              /\ View!Span(Served) = inner.confirmedSlot .. Latest)'
  BY ServedFacts, PTL
<1>2. (View!None)' = View!None
  BY DEF View!None
<1>3. /\ inner.ready /\ inner'.ready /\ ~ overtaken /\ servers # "behind" /\ stream.owed = {}
      /\ AsOf(inner.tables, inner.confirmedSlot .. Latest)
      /\ \A k \in Key : \E d \in inner'.confirmedSlot .. Latest' : inner'.tables[k] = ledger'[d][k]
  BY <1>1, <1>2, ServedFacts, NothingOwed DEF View!Promise, View!AsOf, AsOf
<1>4. /\ UNCHANGED <<ledger, tip, servers>>
      /\ \/ ApplyUpdate
         \/ ConfirmEnds
         \/ UNCHANGED <<inner, confirming>>
         \/ UNCHANGED inner /\ confirming = 0
  BY <1>3, ReadySteps
<1>5. /\ phase = "follow" /\ InSession /\ inner.confirmedSlot = session.confirmedSlot
      /\ session.confirmedSlot \in Nat /\ Latest \in Nat /\ session.confirmedSlot <= Latest
      /\ confirming \in Nat /\ inner \in [tables: Tables, ready: BOOLEAN, confirmedSlot: Slot]
  BY <1>3, ReadyFacts, InitialValues DEF ClientInv, TypeOK
<1>6. inner'.confirmedSlot = session'.confirmedSlot /\ confirming' \in Nat
  BY <1>3, InitialValues DEF ClientInv, TypeOK, Published
<1>7. ASSUME inner' = inner, servers # "paged", Latest' \in Nat, Latest <= Latest', NEW k \in Key
      PROVE  \E d \in inner'.confirmedSlot .. Latest' : \E b \in inner.confirmedSlot .. Latest :
               b <= d /\ inner.tables[k] = ledger[b][k] /\ inner'.tables[k] = ledger[d][k]
  <2>1. PICK d \in inner.confirmedSlot .. Latest : inner.tables[k] = ledger[d][k]
    BY <1>3 DEF AsOf
  <2>2. d \in inner'.confirmedSlot .. Latest' /\ d <= d
    BY <1>5, <1>7
  <2> QED BY <1>7, <2>1, <2>2
<1>8. CASE ApplyUpdate
  BY <1>3, <1>5, <1>8, UpdateAdvances DEF ApplyUpdate
<1>9. CASE ConfirmEnds
  <2>1. session.confirmedSlot < confirming /\ confirming' = 0
    BY <1>9 DEF ConfirmEnds, SlotApplied, ClientInv, SlotsInOrder
  <2>2. inner' = [inner EXCEPT !.confirmedSlot = confirming]
    BY <1>5, <1>9 DEF ConfirmEnds
  <2>3. inner'.tables = inner.tables /\ inner'.confirmedSlot = confirming
    BY <1>5, <2>2
  <2>4. ASSUME servers # "paged" PROVE Latest = confirming /\ Latest' = confirming
    <3>1. Max({session.confirmedSlot, confirming}) = confirming /\ Max({confirming, 0}) = confirming
      <4>1. ~ (session.confirmedSlot >= confirming) /\ confirming >= 0
        BY <1>5, <2>1
      <4> QED BY <1>5, <4>1, MaxOfTwo
    <3> QED BY <1>4, <1>6, <2>1, <2>3, <2>4, <3>1 DEF Latest
  <2> QED BY <1>3, <1>4, <1>5, <2>1, <2>3, <2>4
<1>10. CASE UNCHANGED <<inner, confirming>>
  <2>1. Latest' = Latest \/ servers = "paged"
    BY <1>4, <1>5, <1>6, <1>10 DEF Latest
  <2> QED BY <1>5, <1>7, <1>10, <2>1
<1>11. CASE UNCHANGED inner /\ confirming = 0
  <2>1. ASSUME servers # "paged" PROVE Latest' \in Nat /\ Latest <= Latest'
    <3>1. /\ Max({session.confirmedSlot, 0}) = session.confirmedSlot
          /\ Max({session.confirmedSlot, confirming'}) =
               IF session.confirmedSlot >= confirming' THEN session.confirmedSlot ELSE confirming'
      BY <1>5, <1>6, MaxOfTwo
    <3>2. Latest = session.confirmedSlot
      BY <1>11, <2>1, <3>1 DEF Latest
    <3>3. session'.confirmedSlot = session.confirmedSlot
      BY <1>5, <1>6, <1>11
    <3>4. Latest' = Max({session.confirmedSlot, confirming'})
      BY <1>4, <2>1, <3>3 DEF Latest
    <3> QED BY <1>5, <1>6, <3>1, <3>2, <3>4
  <2> QED BY <1>5, <1>7, <1>11, <2>1
<1> QED BY <1>4, <1>8, <1>9, <1>10, <1>11

(* The chain and the kind of servers are nobody's here to change.          *)
LEMMA ChainSteps ==
  ASSUME [Next]_vars
  PROVE  ConfirmBlock \/ UNCHANGED <<ledger, tip, servers>>
BY DEF Next, TaskStep, Connect, DelayEnds, Subscribe, ReplayEvent, ApplyUpdate, ApplyMalformed, ConfirmEnds,
       Established, StoreTables, StoreSlot, StoreReady, SubscribeFails, BootstrapReceives,
       BootstrapStreamFails, Fetch, SnapshotFetched, SnapshotFails, Follow, FollowReceives,
       FollowStreamFails, ReaderStep, Drop, Receive, chain, vars

(* Each step of the client is one of ServedLedger, or changes nothing it   *)
(* speaks of.                                                              *)
LEMMA ServedSteps ==
  ASSUME ClientInv, ClientInv', [Next]_vars
  PROVE  [View!Next]_(View!vars)
<1>1. CASE ConfirmBlock
  <2>1. View!ConfirmSlot
    BY <1>1 DEF ConfirmBlock, ConfirmSlot, View!ConfirmSlot, Contents, View!Contents
  <2>2. UNCHANGED Served /\ ((servers = "paged")' = (servers = "paged"))
    BY <1>1 DEF ConfirmBlock, net, task, Served
  <2> QED BY <2>1, <2>2 DEF View!Confirm, View!Next
<1>2. CASE ~ ConfirmBlock
  <2>1. UNCHANGED <<ledger, tip, servers>>
    BY <1>2, ChainSteps
  <2>2. CASE Served' = View!None
    BY <2>1, <2>2 DEF View!Withdraw, View!Next
  <2>3. CASE Served' # View!None
    BY <1>2, <2>1, <2>3, NothingGoesBack, ServesAnew
  <2> QED BY <2>2, <2>3
<1> QED BY <1>1, <1>2

(* The client implements ServedLedger, as the service that it copies does: *)
(* from one update, confirmation and recovery to the next, neither its     *)
(* slot nor, with exact servers, any of its tables goes back while it is   *)
(* ready, and each table is of a slot between the published slot and the   *)
(* one being applied.                                                      *)
THEOREM ClientRefinesServedLedger == Spec => ImplementsServedLedger
<1>1. Init => View!Init
  <2> SUFFICES ASSUME Init PROVE View!Init
    OBVIOUS
  <2>1. View!ChainInit
    BY DEF Init, ChainInit, View!ChainInit
  <2>2. Served = View!None
    BY InitialValues DEF Init, Served, View!None
  <2> QED BY <2>1, <2>2 DEF View!Init
<1>2. ClientInv /\ ClientInv' /\ [Next]_vars => [View!Next]_(View!vars)
  BY ServedSteps
<1> QED BY <1>1, <1>2, ClientInvHolds, PTL DEF Spec, ImplementsServedLedger, View!Spec

(* What the environment of the client is assumed to do is what a copy of   *)
(* the ledger promises: a view that was served at the slot the client asks *)
(* for or later, whenever that was, is one that a snapshot server may      *)
(* return.  So a service that implements ServedLedger will do as one.      *)
THEOREM PromisedIsFetchable ==
  ASSUME NEW v \in View!Views, View!Promise(v), ledger \in [Slot -> Tables], tip \in Slot,
         attempt \in Attempts, attempt.floor <= v.slot,
         servers # "paged" => v.until = v.slot
  PROVE  [slot |-> v.slot, tables |-> v.tables] \in Fetchable
<1>1. PICK c \in 1 .. MaxSlot, u \in 1 .. MaxSlot, t \in Tables : c = v.slot /\ u = v.until /\ t = v.tables
  BY DEF View!Views, View!Contents, Tables, Contents
<1>2. tip \in Nat /\ attempt.floor \in Nat /\ c \in Nat /\ u \in Nat /\ c <= tip
  BY <1>1, InitialValues, CountAssumption DEF Attempts, View!Promise
<1>3. View!Span(v) \subseteq PageSlots(c)
  BY <1>1, <1>2 DEF View!Span, PageSlots
<1>4. AsOf(t, PageSlots(c))
  BY <1>1, <1>3 DEF View!Promise, View!AsOf, AsOf
<1>5. [slot |-> c, tables |-> t] \in [slot: attempt.floor .. tip, tables: Tables]
  BY <1>1, <1>2
<1> QED BY <1>1, <1>4, <1>5 DEF Fetchable
=============================================================================
