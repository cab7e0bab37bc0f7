---------------------------- MODULE StateUpdater ----------------------------
(***************************************************************************)
(* One StateUpdater object and the store it publishes to, driven the way   *)
(* updater.rs drives it: built from a fetched state, fed the replayed      *)
(* events, finished, then fed the live ones; replaced by a refresh, or     *)
(* retired when the service restarts.  Updates arrive in any order, late   *)
(* and more than once.                                                     *)
(***************************************************************************)
EXTENDS AltState, FiniteSets

CONSTANT
  MaxAccepted   \* bound: writes accepted by one object

ASSUME MaxAcceptedAssumption == MaxAccepted \in Nat

VARIABLES
  updater,  \* the StateUpdater object
  store,    \* the Store, its publishing half
  inUse,    \* the service feeds this object (it has not been retired)
  fetched,  \* history: the state the object was built from
  log       \* history: the writes the object has accepted

vars == <<updater, store, inUse, fetched, log>>

-----------------------------------------------------------------------------
Init ==
  /\ updater = NewUpdater
  /\ store = NewStore
  /\ inUse = FALSE
  /\ fetched = [slot |-> 0, accounts |-> updater.accounts]
  /\ log = {}

(* Bootstrap builds the first object while none is in use; a refresh       *)
(* builds its replacement while the old one serves.                        *)
Build(source, f) ==
  /\ inUse => ~ updater.recovering
  /\ updater' = FromFetchedAltState(source, f)
  /\ inUse' = TRUE
  /\ fetched' = f
  /\ log' = {}
  /\ UNCHANGED store

QueueWrite(w) ==
  /\ inUse
  /\ Cardinality(log) < MaxAccepted
  /\ updater' = Queue(updater, w)
  /\ log' = IF Accepts(updater, w) THEN log \cup {w} ELSE log
  /\ UNCHANGED <<store, inUse, fetched>>

ConfirmSlot(s) ==
  /\ inUse
  /\ updater' = Confirm(updater, s)
  /\ store' = ConfirmStore(updater, store, s)
  /\ UNCHANGED <<inUse, fetched, log>>

Finish ==
  /\ inUse
  /\ updater.recovering
  /\ updater' = FinishRecovery(updater)
  /\ store' = FinishRecoveryStore(updater, store)
  /\ UNCHANGED <<inUse, fetched, log>>

(* The head of the service's loop, and its end.                            *)
Retire ==
  /\ inUse => ~ updater.recovering
  /\ store' = Invalidate(store)
  /\ inUse' = FALSE
  /\ UNCHANGED <<updater, fetched, log>>

Next ==
  \/ \E source \in Source, f \in FetchedAltStates : Build(source, f)
  \/ \E w \in Write : QueueWrite(w)
  \/ \E s \in Slot : ConfirmSlot(s)
  \/ Finish
  \/ Retire

Spec == Init /\ [][Next]_vars

-----------------------------------------------------------------------------
(* Properties                                                              *)

IsStaged(u, w) ==
  \E i \in DOMAIN u.pending[w.slot] : u.pending[w.slot][i] = w

Shown == { w \in log : ~ IsStaged(updater, w) }

View == INSTANCE ConfirmedView WITH
  base <- fetched, shown <- Shown, slot <- updater.confirmedSlot,
  view <- updater.accounts

(* The types of the variables.                                             *)
TypeOK ==
  /\ updater \in StateUpdaters
  /\ store \in Stores
  /\ inUse \in BOOLEAN
  /\ fetched \in FetchedAltStates
  /\ log \subseteq Write

(* apply_pending_through never lets an older write overwrite a newer one,  *)
(* however late, repeated or reordered the updates reached queue: each     *)
(* visible account is that of the newest visible write of its key, or the  *)
(* fetched one when there is none.                                         *)
NewestWins == View!IsView(updater.accounts, fetched.accounts, Shown)

(* The two loops of apply_pending_through as written: over the slots in    *)
(* ascending order, and over each one's mutations in arrival order.        *)
ApplyMutations(q, accounts) ==
  LET after[i \in 0 .. Len(q)] ==
        IF i = 0 THEN accounts ELSE [after[i - 1] EXCEPT ![q[i].key] = q[i].account]
  IN  after[Len(q)]

ApplyLoop(u, slot) ==
  LET through[s \in 0 .. slot] ==
        ApplyMutations(u.pending[s], IF s = 0 THEN u.accounts ELSE through[s - 1])
  IN  through[slot]

(* The closed form that the model and the proofs use computes what the     *)
(* loops compute, in every reachable state and for every slot.             *)
ApplyMatchesLoop ==
  \A s \in Slot : ApplyPendingThrough(updater, s).accounts = ApplyLoop(updater, s)

(* A write becomes visible only once its slot is confirmed.                *)
VisibleIsConfirmed == \A w \in Shown : w.slot <= updater.confirmedSlot

(* Whatever is published is complete for the slot it is published under:   *)
(* the fetched state with all accepted writes up to that slot, the newest  *)
(* per key, and none of a later slot.  A map that is served on under a new *)
(* slot is published just as a new map is.                                 *)
PublishesCompleteSlot ==
  [][ store'.slot # store.slot \/ store'.accounts # store.accounts =>
        View!IsView(store'.accounts, fetched.accounts,
                    { w \in log : w.slot <= store'.slot }) ]_vars

(* A replacement that is still replaying its buffered events leaves the    *)
(* served snapshot and the readiness alone, whatever the events are.       *)
ReplayIsInvisible ==
  [][ updater.recovering /\ updater'.recovering /\ inUse => store' = store ]_vars

(* The object implements the confirmed view.                               *)
ImplementsConfirmedView == View!Spec

-----------------------------------------------------------------------------
(* The inductive strengthening of NewestWins and VisibleIsConfirmed.       *)

BaseIsFetched == updater.bootstrapSlot = fetched.slot

VersionsCoverLog == \A w \in log : ~ Older(updater.versions[w.key], w)

StagedIsLogged ==
  \A s \in Slot : \A i \in DOMAIN updater.pending[s] :
    updater.pending[s][i] \in log /\ updater.pending[s][i].slot = s

StagedInOrder ==
  \A s \in Slot : \A i, j \in DOMAIN updater.pending[s] :
    i < j /\ updater.pending[s][i].key = updater.pending[s][j].key
      => Older(updater.pending[s][i], updater.pending[s][j])

ShownBeforeStaged ==
  \A v, w \in log :
    /\ v.key = w.key
    /\ ~ IsStaged(updater, v)
    /\ IsStaged(updater, w)
    => Older(v, w)

(* What queue and confirm keep between them: the version map covers the    *)
(* log, staged writes of a key stand in version order, and every visible   *)
(* write of a key is older than every staged one.                          *)
Inv ==
  /\ TypeOK
  /\ BaseIsFetched
  /\ VersionsCoverLog
  /\ StagedIsLogged
  /\ StagedInOrder
  /\ ShownBeforeStaged
  /\ VisibleIsConfirmed
  /\ NewestWins
=============================================================================
