--------------------------- MODULE InventorySync ---------------------------
(***************************************************************************)
(* FullStoreSyncJob, StoreSync::InventoryUpdater and StatusManager: the    *)
(* job takes a snapshot of the seller's inventory through a sync strategy, *)
(* upserts it, deletes the rows absent from a complete snapshot, and       *)
(* publishes the watermark that decides which rows are available.  Each    *)
(* action is one statement or one request.                                 *)
(*                                                                         *)
(* Worker is a set: limits_concurrency holds its semaphore for three       *)
(* minutes only, and stores:sync bypasses it, so two syncs of one store    *)
(* can overlap.                                                            *)
(***************************************************************************)
EXTENDS StoreTables

CONSTANTS
    Worker,         \* workers that may run a sync of this store
    Strategy,       \* the strategies sync_strategy may choose for it
    Recency,        \* clock units in RECENCY_THRESHOLD
    MaxSyncTime,    \* bound: the clock value from which no sync starts
    MaxSyncFaults   \* bound: failed fetches and crashes in a behaviour

ASSUME SyncAssumption ==
    /\ Strategy \subseteq {"public_api", "csv_export"}
    /\ Recency \in Nat
    /\ MaxSyncTime \in Nat
    /\ MaxSyncFaults \in Nat

VARIABLES
    market,         \* at Discogs: the seller's listings for sale
    exports,        \* at Discogs: the contents of the most recent CSV export, if any
    seenAt,         \* last_seen_at of the rows
    job,            \* the sync each worker runs
    syncFaults      \* failed fetches and crashes so far

syncVars == <<market, exports, seenAt, job, syncFaults>>
vars == <<tables, syncVars>>

JobPc == {"idle", "found", "fetch", "paging", "export", "upsert", "nullify",
          "delete", "bump", "finish", "succeed", "failing"}

\* The columns of its store object that the job assigns.
SyncColumns == {"syncStatus", "syncError", "syncProgress", "lastSyncedAt",
                "totalListings", "catalogCoverage"}
Copy(row) == [c \in SyncColumns |-> row[c]]
SyncCopy ==
    [syncStatus : {"idle", "syncing", "failed"}, syncError : BOOLEAN,
     syncProgress : BOOLEAN, lastSyncedAt : Nat, totalListings : Nat,
     catalogCoverage : Coverage]

\* The coverage a strategy may leave unsaid (CsvExport does).
Unsaid == "unsaid"

\* What a worker holds: its copy of the row, when it started, what a fetch under
\* way may still return, and the snapshot once fetched.
SyncJob ==
    [pc : JobPc, mem : SyncCopy, startedAt : Nat, window : SUBSET Listing,
     steady : BOOLEAN, result : SUBSET Listing, complete : BOOLEAN,
     coverage : Coverage \cup {Unsaid}, fetchedAt : Nat, count : Nat]

IdleJob ==
    [pc |-> "idle", mem |-> Copy(NewStoreRow), startedAt |-> 0, window |-> {},
     steady |-> TRUE, result |-> {}, complete |-> FALSE, coverage |-> Unsaid,
     fetchedAt |-> 0, count |-> 0]

SyncInit ==
    /\ market \in SUBSET Listing
    /\ exports \in {{}} \cup {{S} : S \in SUBSET Listing}
    /\ seenAt = [l \in Listing |-> 0]
    /\ job = [w \in Worker |-> IdleJob]
    /\ syncFaults = 0

\* ActiveRecord's update!: of the columns assigned, those that differ from the
\* object's copy of the row are written; reload refreshes the copy.
Saved(mem, attrs) ==
    [c \in DOMAIN store |->
        IF c \in DOMAIN attrs /\ attrs[c] # mem[c] THEN attrs[c] ELSE store[c]]
Assigned(mem, attrs) ==
    [c \in DOMAIN mem |-> IF c \in DOMAIN attrs THEN attrs[c] ELSE mem[c]]

\* Listings::AvailableQuery: what curation shows.
Recent(l) == seenAt[l] > now - Recency
Available ==
    {l \in shelf :
        IF store.catalogCoverage = "partial" \/ store.lastSyncedAt = 0
        THEN Recent(l)
        ELSE seenAt[l] >= store.lastSyncedAt}

-----------------------------------------------------------------------------
(* The seller's inventory changes; a paged fetch under way may or may not  *)
(* see the change, and may lose another listing to the shift of the pages. *)

MarketBecomes(S) ==
    /\ market' = S
    /\ job' = [w \in Worker |->
                IF job[w].pc = "paging"
                THEN [job[w] EXCEPT !.window = @ \cup S, !.steady = FALSE]
                ELSE job[w]]

MarketChange ==
    /\ \E l \in Listing :
        MarketBecomes(IF l \in market THEN market \ {l} ELSE market \cup {l})
    /\ UNCHANGED <<tables, exports, seenAt, syncFaults>>

ShopperClicks(l) == Click(l) /\ UNCHANGED syncVars

-----------------------------------------------------------------------------
(* The job.                                                                *)

Goes(w, pc) == job' = [job EXCEPT ![w].pc = pc]

\* Mutant: a store already syncing is skipped.
FindIdleStore(w) ==
    /\ job[w].pc = "idle"
    /\ now < MaxSyncTime /\ store.syncStatus # "syncing"
    /\ job' = [job EXCEPT ![w] = [IdleJob EXCEPT !.pc = "found", !.mem = Copy(store)]]
    /\ UNCHANGED <<tables, market, exports, seenAt, syncFaults>>

\* Store.find.
FindStore(w) ==
    /\ job[w].pc = "idle"
    /\ now < MaxSyncTime
    /\ job' = [job EXCEPT ![w] = [IdleJob EXCEPT !.pc = "found", !.mem = Copy(store)]]
    /\ UNCHANGED <<tables, market, exports, seenAt, syncFaults>>

\* Mutant: last_synced_at is written when the sync starts.
StampedAttrs ==
    [syncStatus |-> "syncing", syncProgress |-> TRUE, lastSyncedAt |-> now + 1]
SyncingAttrs == [syncStatus |-> "syncing", syncProgress |-> TRUE]

\* sync_started_at, then update! of the status.
MarkSyncing(w) ==
    LET attrs == SyncingAttrs
    IN /\ job[w].pc = "found"
       /\ now' = now + 1
       /\ store' = Saved(job[w].mem, attrs)
       /\ job' = [job EXCEPT ![w].pc = "fetch", ![w].startedAt = now',
                             ![w].mem = Assigned(@, attrs)]
       /\ UNCHANGED <<shelf, clicked, curationDue, unbumped, market, exports,
                      seenAt, syncFaults>>

\* PublicApi: the probe, then the pages one request at a time.
ProbePages(w) ==
    /\ job[w].pc = "fetch" /\ "public_api" \in Strategy
    /\ job' = [job EXCEPT ![w].pc = "paging", ![w].window = market]
    /\ store' = [store EXCEPT !.syncProgress = TRUE]
    /\ UNCHANGED <<now, shelf, clicked, curationDue, unbumped, market, exports,
                   seenAt, syncFaults>>

\* A fetch that reached the last page saw the whole inventory if it held still.
FetchPages(w) ==
    /\ job[w].pc = "paging"
    /\ now' = now + 1
    /\ \E S \in SUBSET job[w].window, complete \in BOOLEAN,
          coverage \in {"near_complete", "partial"} :
        /\ complete => coverage = "near_complete"
        /\ complete /\ job[w].steady => S = market
        /\ job' = [job EXCEPT ![w] =
                    [@ EXCEPT !.pc = "upsert", !.window = {}, !.steady = TRUE,
                              !.result = S, !.complete = complete,
                              !.coverage = coverage, !.fetchedAt = now']]
    /\ store' = [store EXCEPT !.syncProgress = TRUE]
    /\ UNCHANGED <<shelf, clicked, curationDue, unbumped, market, exports,
                   seenAt, syncFaults>>

\* CsvExport: a new export, or on a 409 the most recent one, however old.
TriggerExport(w) ==
    /\ job[w].pc = "fetch" /\ "csv_export" \in Strategy
    /\ \/ exports' = {market}
       \/ exports # {} /\ exports' = exports
    /\ \E S \in exports' :
        job' = [job EXCEPT ![w].pc = "export", ![w].result = S]
    /\ UNCHANGED <<tables, market, seenAt, syncFaults>>

DownloadExport(w) ==
    /\ job[w].pc = "export"
    /\ now' = now + 1
    /\ job' = [job EXCEPT ![w].pc = "upsert", ![w].complete = TRUE,
                          ![w].fetchedAt = now']
    /\ UNCHANGED <<shelf, clicked, store, curationDue, unbumped, market, exports,
                   seenAt, syncFaults>>

\* A request raises, or the export fails or times out.
FetchFails(w) ==
    /\ job[w].pc \in {"fetch", "paging", "export"}
    /\ syncFaults < MaxSyncFaults
    /\ syncFaults' = syncFaults + 1
    /\ Goes(w, "failing")
    /\ UNCHANGED <<tables, market, exports, seenAt>>

\* upsert_all of the snapshot, stamped with the time it was fetched.
Upsert(w) ==
    /\ job[w].pc = "upsert"
    /\ InsertRows(job[w].result)
    /\ seenAt' = [l \in Listing |->
                    IF l \in job[w].result THEN job[w].fetchedAt ELSE seenAt[l]]
    /\ Goes(w, IF job[w].complete THEN "nullify" ELSE "finish")
    /\ UNCHANGED <<now, clicked, store, curationDue, market, exports, syncFaults>>

Stale(w) == shelf \ job[w].result

NullifyStaleClicks(w) ==
    /\ job[w].pc = "nullify"
    /\ NullifyClicks(Stale(w))
    /\ Goes(w, "delete")
    /\ UNCHANGED <<now, shelf, store, curationDue, unbumped, market, exports,
                   seenAt, syncFaults>>

\* Mutant: the version does not move.
DeleteUnversioned(w) ==
    /\ job[w].pc = "delete"
    /\ DeleteRows(Stale(w))
    /\ Goes(w, "finish")
    /\ UNCHANGED <<now, clicked, store, curationDue, market, exports, seenAt,
                   syncFaults>>

DeleteStale(w) ==
    /\ job[w].pc = "delete"
    /\ DeleteRows(Stale(w))
    /\ Goes(w, IF Stale(w) = {} THEN "finish" ELSE "bump")
    /\ UNCHANGED <<now, clicked, store, curationDue, market, exports, seenAt,
                   syncFaults>>

\* A click arrived since the click events were nullified.
DeleteStaleRefused(w) ==
    /\ job[w].pc = "delete"
    /\ ~Deletable(Stale(w))
    /\ Goes(w, "failing")
    /\ UNCHANGED <<tables, market, exports, seenAt, syncFaults>>

BumpVersion(w) ==
    /\ job[w].pc = "bump"
    /\ store' = [store EXCEPT !.inventoryVersion = Bumped]
    /\ unbumped' = {}
    /\ job' = [job EXCEPT ![w].pc = "finish", ![w].mem = Copy(store')]
    /\ UNCHANGED <<now, shelf, clicked, curationDue, market, exports, seenAt,
                   syncFaults>>

\* update_columns of the progress, and the count of the rows.
ClearProgress(w) ==
    /\ job[w].pc = "finish"
    /\ store' = [store EXCEPT !.syncProgress = FALSE]
    /\ job' = [job EXCEPT ![w].pc = "succeed", ![w].count = Cardinality(shelf),
                          ![w].mem.syncProgress = FALSE]
    /\ UNCHANGED <<now, shelf, clicked, curationDue, unbumped, market, exports,
                   seenAt, syncFaults>>

ResultCoverage(w) ==
    IF job[w].coverage = Unsaid
    THEN job[w].mem.catalogCoverage ELSE job[w].coverage

\* Mutants: the error stays; the snapshot is counted instead of the rows; the
\* watermark is the time the sync ended.
ErrorKept(w) ==
    [syncStatus |-> "idle", lastSyncedAt |-> job[w].startedAt,
     totalListings |-> job[w].count, catalogCoverage |-> ResultCoverage(w)]
SnapshotCounted(w) ==
    [syncStatus |-> "idle", syncError |-> FALSE,
     lastSyncedAt |-> job[w].startedAt,
     totalListings |-> Cardinality(job[w].result),
     catalogCoverage |-> ResultCoverage(w)]
StampedAtEnd(w) ==
    [syncStatus |-> "idle", syncError |-> FALSE, lastSyncedAt |-> now + 1,
     totalListings |-> job[w].count, catalogCoverage |-> ResultCoverage(w)]

\* mark_succeeded!'s attributes.
FinalAttrs(w) ==
    [syncStatus |-> "idle", syncError |-> FALSE,
     lastSyncedAt |-> job[w].startedAt, totalListings |-> job[w].count,
     catalogCoverage |-> ResultCoverage(w)]

MarkSucceeded(w) ==
    /\ job[w].pc = "succeed"
    /\ store' = Saved(job[w].mem, FinalAttrs(w))
    /\ job' = [job EXCEPT ![w] = IdleJob]
    /\ UNCHANGED <<now, shelf, clicked, curationDue, unbumped, market, exports,
                   seenAt, syncFaults>>

\* The rescue finds the store afresh, so every column differs and is written.
MarkFailed(w) ==
    /\ job[w].pc = "failing"
    /\ store' = [store EXCEPT !.syncStatus = "failed", !.syncError = TRUE]
    /\ job' = [job EXCEPT ![w] = IdleJob]
    /\ UNCHANGED <<now, shelf, clicked, curationDue, unbumped, market, exports,
                   seenAt, syncFaults>>

\* The worker process dies: no rescue runs.  (Bound: not so late that the clock
\* allows no later sync.)
SyncCrash(w) ==
    /\ job[w].pc # "idle"
    /\ syncFaults < MaxSyncFaults /\ now < MaxSyncTime
    /\ syncFaults' = syncFaults + 1
    /\ job' = [job EXCEPT ![w] = IdleJob]
    /\ UNCHANGED <<tables, market, exports, seenAt>>

SyncStep(w) ==
    \/ FindStore(w) \/ MarkSyncing(w)
    \/ ProbePages(w) \/ FetchPages(w) \/ TriggerExport(w) \/ DownloadExport(w)
    \/ Upsert(w) \/ NullifyStaleClicks(w) \/ DeleteStale(w)
    \/ DeleteStaleRefused(w) \/ BumpVersion(w)
    \/ ClearProgress(w) \/ MarkSucceeded(w) \/ MarkFailed(w)

SyncFault(w) == FetchFails(w) \/ SyncCrash(w)

-----------------------------------------------------------------------------

Init == TablesInit /\ SyncInit

Next ==
    \/ \E w \in Worker : SyncStep(w) \/ SyncFault(w)
    \/ MarketChange
    \/ \E l \in Listing : ShopperClicks(l)

Spec == Init /\ [][Next]_vars

\* Workers keep going, and the nightly schedule starts syncs; nothing obliges
\* the seller, a shopper or a fault.
FairSpec == Spec /\ \A w \in Worker : WF_vars(SyncStep(w))

-----------------------------------------------------------------------------
TypeOK ==
    /\ TablesTypeOK
    /\ market \in SUBSET Listing
    /\ exports \in SUBSET SUBSET Listing
    /\ seenAt \in [Listing -> Nat]
    /\ job \in [Worker -> SyncJob]
    /\ syncFaults \in 0 .. MaxSyncFaults

\* A store that says it is idle shows no error and no progress bar left over
\* from an earlier sync, whichever way that one ended.
IdleIsClean ==
    store.syncStatus = "idle" => ~store.syncError /\ ~store.syncProgress

\* mark_succeeded! sets last_sync_error to nil together with the idle status
\* ("expect(store.last_sync_error).to be_nil"), also when syncs overlap.
IdleShowsNoError == store.syncStatus = "idle" => ~store.syncError

\* The step in which worker w's sync succeeds.
Succeeds(w) ==
    job[w].pc = "succeed" /\ job'[w].pc = "idle" /\ syncFaults' = syncFaults

\* Until a sync succeeds it hides nothing: whatever it has upserted, deleted or
\* failed at, a row that was available and still exists stays available.
ShownUntilPublished ==
    [][/\ \A w \in Worker : ~Succeeds(w)
       /\ store.catalogCoverage # "partial" /\ store.lastSyncedAt # 0
       => Available \cap shelf' \subseteq Available']_vars

\* A sync that succeeds has published its snapshot: what curation then shows is
\* what the fetch returned, however long the fetch took, and after a complete
\* one nothing else is left on the shelf.
SnapshotIsPublished ==
    [][\A w \in Worker : Succeeds(w) /\ store'.catalogCoverage # "partial"
        => /\ Available' = job[w].result
           /\ job[w].complete => shelf' = job[w].result]_vars

\* The count of an idle store that was synced is the number of its rows.
CountIsExact ==
    store.syncStatus = "idle" /\ store.lastSyncedAt # 0
        => store.totalListings = Cardinality(shelf)

\* A deletion is followed by a new inventory version unless the worker died.
DeletionsAreVersioned ==
    unbumped # {} => syncFaults > 0 \/ \E w \in Worker : job[w].pc = "bump"

\* A store does not stay "syncing": a crash leaves it so, the next nightly sync
\* settles it.
SyncSettles == store.syncStatus = "syncing" ~> store.syncStatus # "syncing"

=============================================================================
