------------------------------ MODULE AltFetch ------------------------------
(***************************************************************************)
(* fetch_full_alt_state of alt_state_fetcher.rs: one fetch, page by page,  *)
(* while the chain goes on.  The RPC is external: each page may be as of   *)
(* any confirmed slot, may list tables that have been closed, and may come *)
(* with a pagination key that leads back.  It does not skip keys, and the  *)
(* tables it sends decode.                                                 *)
(*                                                                         *)
(* Pubkeys are ordered, so keys are numbers here, and 0 is the pagination  *)
(* key that comes before them all: none.                                   *)
(***************************************************************************)
EXTENDS Chain, FiniteSets

CONSTANT PageSize  \* PAGE_SIZE

ASSUME PageAssumption == PageSize \in Nat \ {0} /\ Key \subseteq Nat \ {0} /\ IsFiniteSet(Key)

VARIABLES
  status,       \* whether a fetch is under way, and how the last one ended
  minimum,      \* minimum_context_slot; 0 for none
  contextSlot,  \* context_slot, that of the first page; 0 before it
  cursor,       \* cursor
  seen,         \* seen: the pagination keys received
  accounts      \* accounts

pages == <<contextSlot, cursor, seen, accounts>>
fetch == <<status, minimum, pages>>
fetchVars == <<ledger, tip, fetch>>

FetchInit ==
  /\ ChainInit
  /\ status = "idle"
  /\ minimum = 0
  /\ contextSlot = 0
  /\ cursor = 0
  /\ seen = {}
  /\ accounts = [k \in Key |-> NoAccount]

NoPages ==
  /\ contextSlot' = 0
  /\ cursor' = 0
  /\ seen' = {}
  /\ accounts' = [k \in Key |-> NoAccount]

(* A bootstrap fetches without a minimum, a refresh from a confirmed slot. *)
FetchStarts ==
  /\ status # "fetching"
  /\ status' = "fetching"
  /\ minimum' \in 0 .. tip
  /\ NoPages
  /\ UNCHANGED <<ledger, tip>>

FetchFails ==
  /\ status' = "failed"
  /\ minimum' = 0
  /\ NoPages

(* An error, a timeout, or an answer that does not parse.                  *)
RpcFails ==
  /\ status = "fetching"
  /\ FetchFails
  /\ UNCHANGED <<ledger, tip>>

-----------------------------------------------------------------------------
(* What the RPC lists as of slot s: a closed table has no lamports.        *)

Closed == 0

Entry(s, k) == IF ledger[s][k] = NoAccount THEN Closed ELSE ledger[s][k]

Later == { k \in Key : k > cursor }

Open(s) == { k \in Later : Entry(s, k) # Closed }

PageFrom(listed) ==
  { k \in listed : Cardinality({ j \in listed : j < k }) < PageSize }

(* The keys a page may come with: one that does not pass what has been     *)
(* listed, or none after the last table.                                   *)
NextKeys(listed) ==
  { j \in Key : j <= cursor \/ \E k \in PageFrom(listed) : j <= k }
    \cup (IF PageFrom(listed) = listed THEN {0} ELSE {})

-----------------------------------------------------------------------------
(* Mutant: a page may be from before the first one.                        *)
AcceptableAlways(s) == s >= minimum

(* The two checks of a page's context slot.                                *)
Acceptable(s) ==
  /\ s >= minimum
  /\ s >= contextSlot

(* Mutant: closed tables are kept like others.                             *)
KeptAlways(entry) == TRUE

Kept(entry) == entry # Closed

(* Mutant: pagination keys are not remembered.                             *)
Forgotten(next) == seen

Remembered(next) == seen \cup {next}

ReceivePage(s, page, next) ==
  /\ contextSlot' = IF contextSlot = 0 THEN s ELSE contextSlot
  /\ accounts' = [k \in Key |-> IF k \in page /\ Kept(Entry(s, k)) THEN Entry(s, k) ELSE accounts[k]]
  /\ \/ /\ next = 0
        /\ status' = "done"
        /\ UNCHANGED <<cursor, seen>>
     \/ /\ next # 0
        /\ seen' = Remembered(next)
        /\ cursor' = next
        /\ UNCHANGED status
  /\ UNCHANGED minimum

PageArrives(s, listed, next) ==
  /\ status = "fetching"
  /\ \/ /\ Acceptable(s)
        /\ next \notin seen
        /\ ReceivePage(s, PageFrom(listed), next)
     \/ /\ ~ Acceptable(s) \/ next \in seen
        /\ FetchFails
  /\ UNCHANGED <<ledger, tip>>

FetchStep ==
  \/ \E s \in 1 .. tip : \E closed \in SUBSET (Later \ Open(s)) :
       LET listed == Open(s) \cup closed
       IN  \E next \in NextKeys(listed) : PageArrives(s, listed, next)
  \/ RpcFails

FetchNext ==
  \/ ConfirmSlot /\ UNCHANGED fetch
  \/ FetchStarts
  \/ FetchStep

(* Each request is answered or fails, for the HTTP client has a timeout.   *)
FetchSpec == FetchInit /\ [][FetchNext]_fetchVars /\ WF_fetchVars(FetchStep)

-----------------------------------------------------------------------------
(* Properties                                                              *)

(* The types of the variables.                                             *)
FetchTypeOK ==
  /\ status \in {"idle", "fetching", "done", "failed"}
  /\ minimum \in 0 .. tip
  /\ contextSlot \in 0 .. tip
  /\ cursor \in Key \cup {0}
  /\ seen \subseteq Key
  /\ accounts \in [Key -> Contents]

(* The updater that called, as far as its fetch goes.                      *)
Updater == INSTANCE UpdaterService WITH
  rpc <- "lagging", floor <- minimum,
  Account <- 1 .. MaxSlot, Version <- {1}, Source <- {0}, NoSource <- 1,
  SourceCount <- 1, StreamCapacity <- 1, Rpc <- {"lagging"}, MaxFaults <- 0,
  delivered <- 0, link <- 0, events <- 0, phase <- "bootstrap", active <- 0, connected <- {0},
  updater <- 0, fresh <- 0, store <- 0, refreshing <- FALSE, buffered <- 0, stop <- FALSE,
  faults <- 0

(* A fetch that succeeds returns what the updater takes it to return: each *)
(* table as of the slot it states or later, that slot at least the one     *)
(* asked for; whatever was confirmed, written or closed between two pages  *)
(* and from whichever slots they came.                                     *)
FetchedIsFetchable ==
  status = "done" => [slot |-> contextSlot, accounts |-> accounts] \in Updater!Fetchable

(* A fetch ends, also with an RPC whose pagination keys lead back: none is *)
(* followed twice.                                                         *)
FetchEnds == status = "fetching" ~> status # "fetching"
=============================================================================
