-------------------------- MODULE StorefrontCache --------------------------
(***************************************************************************)
(* StorefrontCuration::CacheManager: storefront pages are cached under the *)
(* day and the inventory version; a request that misses builds the page    *)
(* and writes it, and the curation job writes pages ahead of the requests. *)
(* Both read the store row first and the listings later, with the writers  *)
(* of the inventory in between.                                            *)
(*                                                                         *)
(* Next adds the least that is asked of those writers: they may insert and *)
(* delete rows at any time, and move the version at any time after.        *)
(***************************************************************************)
EXTENDS StoreTables

CONSTANTS
    Builder,        \* web threads and workers that run DailyCurationJob
    MaxDay          \* bound: the last day

VARIABLES
    today,          \* Date.current
    cache,          \* entries of the page cache, at most one per key
    build           \* what each builder has read so far

cacheVars == <<today, cache, build>>
vars == <<tables, cacheVars>>

BuildPc == {"idle", "lookup", "miss", "write", "serve",
            "curate", "prewarm"}
CacheEntry == [day : Nat, version : Nat, page : SUBSET Listing]

IdleBuild == [pc |-> "idle", version |-> 0, day |-> 0, page |-> {}]

CacheInit ==
    /\ today = 1
    /\ cache = {}
    /\ build = [b \in Builder |-> IdleBuild]

\* Mutant: the version is left out of the key.
HasDay(e, day, version) == e.day = day

\* The key of cache entry e.
HasKey(e, day, version) == e.day = day /\ e.version = version

\* Mutant: the store is reloaded for the key of the write.
WriteEntryReloaded(b, day) ==
    cache' = {e \in cache : ~HasKey(e, day, store.inventoryVersion)}
                \cup {[day |-> day, version |-> store.inventoryVersion,
                       page |-> build[b].page]}

\* cache.write replaces the entry of the key.
WriteEntry(b, day) ==
    cache' = {e \in cache : ~HasKey(e, day, build[b].version)}
                \cup {[day |-> day, version |-> build[b].version,
                       page |-> build[b].page]}

-----------------------------------------------------------------------------
(* StoresController#show, in a web thread.                                 *)

\* Store.with_discogs_username(slug).first
LoadStore(r) ==
    /\ build[r].pc = "idle"
    /\ build' = [build EXCEPT ![r] =
                    [IdleBuild EXCEPT !.pc = "lookup",
                                      !.version = store.inventoryVersion]]
    /\ UNCHANGED <<tables, today, cache>>

\* cache.fetch: the key is computed once, for the lookup and for the write.
FetchHit(r) ==
    /\ build[r].pc = "lookup"
    /\ \E e \in cache :
        /\ HasKey(e, today, build[r].version)
        /\ build' = [build EXCEPT ![r].pc = "serve", ![r].page = e.page]
    /\ UNCHANGED <<tables, today, cache>>

FetchMiss(r) ==
    /\ build[r].pc = "lookup"
    /\ \A e \in cache : ~HasKey(e, today, build[r].version)
    /\ build' = [build EXCEPT ![r].pc = "miss", ![r].day = today]
    /\ UNCHANGED <<tables, today, cache>>

\* build_payload: the page of the listings that are eligible now.
BuildPage(r, eligible) ==
    /\ build[r].pc = "miss"
    /\ build' = [build EXCEPT ![r].pc = "write", ![r].page = eligible]
    /\ UNCHANGED <<tables, today, cache>>

WritePage(r) ==
    /\ build[r].pc = "write"
    /\ WriteEntry(r, build[r].day)
    /\ build' = [build EXCEPT ![r].pc = "serve"]
    /\ UNCHANGED <<tables, today>>

Serve(r) ==
    /\ build[r].pc = "serve"
    /\ build' = [build EXCEPT ![r] = IdleBuild]
    /\ UNCHANGED <<tables, today, cache>>

-----------------------------------------------------------------------------
(* DailyCurationJob, nightly or enqueued after a poll, in a job worker.    *)

\* The nightly job leaves one that is queued for the store in the queue.
CurateStart(c) ==
    /\ build[c].pc = "idle"
    /\ curationDue' \in {curationDue, FALSE}
    /\ build' = [build EXCEPT ![c] =
                    [IdleBuild EXCEPT !.pc = "curate",
                                      !.version = store.inventoryVersion]]
    /\ UNCHANGED <<now, shelf, clicked, store, unbumped, today, cache>>

\* surfaced_listings loads the eligible listings, once for the whole job.
CurateSurface(c, eligible) ==
    /\ build[c].pc = "curate"
    /\ build' = [build EXCEPT ![c].pc = "prewarm", ![c].page = eligible]
    /\ UNCHANGED <<tables, today, cache>>

\* prewarm_cache: the key has the day of the write, the version of the start.
Prewarm(c) ==
    /\ build[c].pc = "prewarm"
    /\ WriteEntry(c, today)
    /\ build' = [build EXCEPT ![c] = IdleBuild]
    /\ UNCHANGED <<tables, today>>

-----------------------------------------------------------------------------

\* An entry expires or is evicted, or the process holding b dies.
Evict ==
    /\ \E e \in cache : cache' = cache \ {e}
    /\ UNCHANGED <<tables, today, build>>

Abandon(b) ==
    /\ build[b].pc # "idle"
    /\ build' = [build EXCEPT ![b] = IdleBuild]
    /\ UNCHANGED <<tables, today, cache>>

NewDay ==
    /\ today < MaxDay
    /\ today' = today + 1
    /\ UNCHANGED <<tables, cache, build>>

\* The steps of the builders when the rows in eligible are available.
CacheStep(eligible) ==
    \/ \E b \in Builder :
        \/ LoadStore(b) \/ FetchHit(b) \/ FetchMiss(b)
        \/ BuildPage(b, eligible) \/ WritePage(b) \/ Serve(b)
        \/ CurateStart(b) \/ CurateSurface(b, eligible) \/ Prewarm(b)
        \/ Abandon(b)
    \/ Evict
    \/ NewDay

-----------------------------------------------------------------------------
(* What the page cache asks of the jobs that write the inventory: rows come  *)
(* and go, a row that goes is remembered until the version moves, and the    *)
(* version moves up.                                                         *)
InventoryWrite ==
    /\ \/ store'.inventoryVersion = store.inventoryVersion
          /\ shelf \ shelf' \subseteq unbumped'
          /\ unbumped \ shelf' \subseteq unbumped'
       \/ store'.inventoryVersion = store.inventoryVersion + 1
    /\ shelf' \subseteq Listing
    /\ UNCHANGED cacheVars

Init == TablesInit /\ CacheInit

Next == (\E S \in SUBSET shelf : CacheStep(S)) \/ InventoryWrite

Spec == Init /\ [][Next]_vars

-----------------------------------------------------------------------------
CacheTypeOK ==
    /\ today \in Nat
    /\ cache \in SUBSET CacheEntry
    /\ build \in [Builder -> [pc : BuildPc, version : Nat, day : Nat,
                              page : SUBSET Listing]]

\* A page under the current inventory version shows no deleted record, except
\* one whose deletion has not moved the version yet: whatever was read before
\* and written after, by requests or by the curation job.
FreshPage(version, page) ==
    version = store.inventoryVersion => page \ shelf \subseteq unbumped

CachedPagesAreFresh == \A e \in cache : FreshPage(e.version, e.page)

\* The same of the page a request is about to answer with.
ServedPagesAreFresh ==
    \A b \in Builder :
        build[b].pc = "serve" => FreshPage(build[b].version, build[b].page)

=============================================================================
