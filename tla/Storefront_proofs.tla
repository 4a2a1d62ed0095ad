------------------------- MODULE Storefront_proofs -------------------------
(***************************************************************************)
(* Theorems of the inventory sync, whose specification is Spec, and of the *)
(* store at work around it, StorefrontSpec.                                *)
(*                                                                         *)
(* Of the sync, for every inventory, every number of faults and any number *)
(* of workers: its types and the versions of its deletions; with one       *)
(* worker: its status, its count and what it publishes.                    *)
(*                                                                         *)
(* For every store, whatever its orders, clicks, workers, faults, builders *)
(* and days: the poller and any number of overlapping syncs together are   *)
(* an inventory writer the page cache can live with.  The composed system  *)
(* implements StorefrontCache, so what is proved here of the page cache    *)
(* under any such writer holds of the store at work.                       *)
(*                                                                         *)
(* The refinement needs little of the jobs' types: the rows inserted come  *)
(* from snapshots of listings (HeldListings), and the store row has a      *)
(* version which update! and update_columns leave alone (Versioned).       *)
(***************************************************************************)
EXTENDS Storefront, FiniteSetTheorems, TLAPS

-----------------------------------------------------------------------------
(* The row and a job's copy of it. *)

\* A shelf can be counted.
LEMMA RowCount ==
    ASSUME NEW S \in SUBSET Listing
    PROVE  Cardinality(S) \in Nat
BY ListingAssumption, FS_Subset, FS_CardinalityType

LEMMA CopyType ==
    ASSUME NEW row \in StoreRow
    PROVE  Copy(row) \in SyncCopy
BY DEF Copy, SyncColumns, StoreRow, SyncCopy

LEMMA IdleJobType == IdleJob \in SyncJob
<1>1. NewStoreRow \in StoreRow
    BY DEF NewStoreRow, StoreRow, Coverage
<1>2. QED
    BY <1>1, CopyType DEF IdleJob, SyncJob, JobPc

\* The columns a sync may assign, one by one.
Attribute(c, v) ==
    \/ c = "syncStatus" /\ v \in {"idle", "syncing", "failed"}
    \/ c \in {"syncError", "syncProgress"} /\ v \in BOOLEAN
    \/ c \in {"lastSyncedAt", "totalListings"} /\ v \in Nat
    \/ c = "catalogCoverage" /\ v \in Coverage

\* update! of well-typed attributes keeps the row a row.
LEMMA SavedType ==
    ASSUME NEW attrs, NEW mem, store \in StoreRow,
           \A c \in DOMAIN attrs : Attribute(c, attrs[c])
    PROVE  Saved(mem, attrs) \in StoreRow
<1> DEFINE row == Saved(mem, attrs)
<1>1. DOMAIN store =
        {"inventoryVersion", "totalListings", "syncStatus", "syncError",
         "syncProgress", "lastSyncedAt", "catalogCoverage", "polledAt",
         "pollError", "cursor"}
    BY DEF StoreRow
<1>2. \A c \in DOMAIN store :
        \/ row[c] = store[c]
        \/ Attribute(c, row[c])
    BY DEF Saved
<1>3. DOMAIN row = DOMAIN store /\ row = [c \in DOMAIN store |-> row[c]]
    BY DEF Saved
<1> HIDE DEF row
<1>4. /\ row.inventoryVersion \in Nat /\ row.polledAt \in Nat
      /\ row.pollError \in BOOLEAN /\ row.cursor \in Nat
    BY <1>1, <1>2 DEF StoreRow, Attribute
<1>5. /\ row.totalListings \in Nat /\ row.lastSyncedAt \in Nat
      /\ row.syncStatus \in {"idle", "syncing", "failed"}
    BY <1>1, <1>2 DEF StoreRow, Attribute
<1>6. /\ row.syncError \in BOOLEAN /\ row.syncProgress \in BOOLEAN
      /\ row.catalogCoverage \in Coverage
    BY <1>1, <1>2 DEF StoreRow, Attribute
<1>7. row \in StoreRow
    BY <1>1, <1>3, <1>4, <1>5, <1>6 DEF StoreRow
<1>8. QED
    BY <1>7 DEF row

\* And the object's copy a copy.
LEMMA AssignedType ==
    ASSUME NEW attrs, NEW mem \in SyncCopy,
           \A c \in DOMAIN attrs : Attribute(c, attrs[c])
    PROVE  Assigned(mem, attrs) \in SyncCopy
<1> DEFINE copy == Assigned(mem, attrs)
<1>1. DOMAIN mem = {"syncStatus", "syncError", "syncProgress", "lastSyncedAt",
                    "totalListings", "catalogCoverage"}
    BY DEF SyncCopy
<1>2. \A c \in DOMAIN mem : copy[c] = mem[c] \/ Attribute(c, copy[c])
    BY DEF Assigned
<1>3. DOMAIN copy = DOMAIN mem /\ copy = [c \in DOMAIN mem |-> copy[c]]
    BY DEF Assigned
<1> HIDE DEF copy
<1>4. /\ copy.totalListings \in Nat /\ copy.lastSyncedAt \in Nat
      /\ copy.syncStatus \in {"idle", "syncing", "failed"}
    BY <1>1, <1>2 DEF SyncCopy, Attribute
<1>5. /\ copy.syncError \in BOOLEAN /\ copy.syncProgress \in BOOLEAN
      /\ copy.catalogCoverage \in Coverage
    BY <1>1, <1>2 DEF SyncCopy, Attribute
<1>6. copy \in SyncCopy
    BY <1>1, <1>3, <1>4, <1>5 DEF SyncCopy
<1>7. QED
    BY <1>6 DEF copy

LEMMA SyncingAttrsType ==
    \A c \in DOMAIN SyncingAttrs : Attribute(c, SyncingAttrs[c])
<1> DEFINE attrs == [syncStatus |-> "syncing", syncProgress |-> TRUE]
<1>1. DOMAIN attrs = {"syncStatus", "syncProgress"}
    OBVIOUS
<1>2. attrs["syncStatus"] = "syncing" /\ attrs["syncProgress"]
    OBVIOUS
<1>3. Attribute("syncStatus", attrs["syncStatus"])
    BY <1>2 DEF Attribute
<1>4. attrs["syncProgress"] \in BOOLEAN
    BY Zenon
<1>5. Attribute("syncProgress", attrs["syncProgress"])
    BY <1>4, Zenon DEF Attribute
<1> HIDE DEF attrs
<1>6. \A c \in DOMAIN attrs : Attribute(c, attrs[c])
    BY <1>1, <1>3, <1>5, Zenon
<1>7. QED
    BY <1>6, Zenon DEF attrs, SyncingAttrs

LEMMA FinalAttrsType ==
    ASSUME NEW w \in Worker, job[w] \in SyncJob
    PROVE  \A c \in DOMAIN FinalAttrs(w) : Attribute(c, FinalAttrs(w)[c])
<1>1. ResultCoverage(w) \in Coverage
    BY DEF ResultCoverage, SyncJob, SyncCopy, Unsaid, Coverage
<1>2. job[w].startedAt \in Nat /\ job[w].count \in Nat
    BY DEF SyncJob
<1> DEFINE attrs == FinalAttrs(w)
<1>3. DOMAIN attrs = {"syncStatus", "syncError", "lastSyncedAt", "totalListings",
                      "catalogCoverage"}
    BY DEF FinalAttrs
<1>4. Attribute("syncStatus", attrs["syncStatus"])
    BY DEF FinalAttrs, Attribute
<1>5. attrs["syncError"] \in BOOLEAN
    BY DEF FinalAttrs
<1>6. Attribute("syncError", attrs["syncError"])
    BY <1>5, Zenon DEF Attribute
<1>7. /\ Attribute("lastSyncedAt", attrs["lastSyncedAt"])
      /\ Attribute("totalListings", attrs["totalListings"])
      /\ Attribute("catalogCoverage", attrs["catalogCoverage"])
    BY <1>1, <1>2 DEF FinalAttrs, Attribute
<1> HIDE DEF attrs
<1>8. \A c \in DOMAIN attrs : Attribute(c, attrs[c])
    BY <1>3, <1>4, <1>6, <1>7, Zenon
<1>9. QED
    BY <1>8, Zenon DEF attrs

-----------------------------------------------------------------------------
(* Types. *)

LEMMA TypeInit == Init => TypeOK
<1> SUFFICES ASSUME Init PROVE TypeOK
    OBVIOUS
<1>1. store.totalListings \in Nat
    BY RowCount DEF Init, TablesInit, NewStoreRow
<1>2. TablesTypeOK
    BY <1>1 DEF Init, TablesInit, TablesTypeOK, NewStoreRow, StoreRow, Coverage
<1>3. exports \in SUBSET SUBSET Listing
    BY DEF Init, SyncInit
<1>4. QED
    BY <1>2, <1>3, IdleJobType, SyncAssumption DEF Init, SyncInit, TypeOK

\* Worker w moves to job j, the store row to another row; the rest keeps its type.
LEMMA JobStep ==
    ASSUME TypeOK, NEW w \in Worker, NEW j \in SyncJob,
           job' = [job EXCEPT ![w] = j],
           now' \in Nat, shelf' \in SUBSET Listing, clicked' \in SUBSET shelf',
           store' \in StoreRow, curationDue' = curationDue,
           unbumped' \in SUBSET Listing, market' = market,
           exports' \in SUBSET SUBSET Listing, seenAt' \in [Listing -> Nat],
           syncFaults' \in 0 .. MaxSyncFaults
    PROVE  TypeOK'
<1>1. job' \in [Worker -> SyncJob]
    BY DEF TypeOK
<1>2. QED
    BY <1>1 DEF TypeOK, TablesTypeOK

LEMMA SyncStepType ==
    ASSUME TypeOK, NEW w \in Worker, SyncStep(w)
    PROVE  TypeOK'
<1> DEFINE j == job[w]
<1>0. /\ now \in Nat /\ shelf \in SUBSET Listing /\ clicked \in SUBSET shelf
      /\ store \in StoreRow /\ unbumped \in SUBSET Listing /\ market \in SUBSET Listing
      /\ exports \in SUBSET SUBSET Listing /\ seenAt \in [Listing -> Nat]
      /\ syncFaults \in 0 .. MaxSyncFaults
      /\ job \in [Worker -> SyncJob] /\ job[w] \in SyncJob
    BY DEF TypeOK, TablesTypeOK
<1>1. ASSUME NEW pc \in JobPc
      PROVE  /\ [job EXCEPT ![w].pc = pc] = [job EXCEPT ![w] = [@ EXCEPT !.pc = pc]]
             /\ [j EXCEPT !.pc = pc] \in SyncJob
    BY <1>0 DEF SyncJob
<1>2. CASE FindStore(w)
    <2> DEFINE k == [IdleJob EXCEPT !.pc = "found", !.mem = Copy(store)]
    <2>1. k \in SyncJob
        BY <1>0, IdleJobType, CopyType DEF SyncJob, JobPc
    <2>2. QED
        BY <1>0, <1>2, <2>1, JobStep DEF FindStore, tables
<1>3. CASE MarkSyncing(w)
    <2> DEFINE mem == Assigned(j.mem, SyncingAttrs)
               k == [j EXCEPT !.pc = "fetch", !.startedAt = now', !.mem = mem]
    <2>1. mem \in SyncCopy
        BY <1>0, SyncingAttrsType, AssignedType DEF SyncJob
    <2>2. now' \in Nat
        BY <1>0, <1>3 DEF MarkSyncing
    <2> HIDE DEF mem
    <2>3. k \in SyncJob
        BY <1>0, <2>1, <2>2 DEF SyncJob, JobPc
    <2>4. job' = [job EXCEPT ![w] = k]
        BY <1>0, <1>3 DEF MarkSyncing, mem
    <2>5. store' \in StoreRow
        BY <1>0, <1>3, SyncingAttrsType, SavedType DEF MarkSyncing
    <2>6. QED
        BY <1>0, <1>3, <2>2, <2>3, <2>4, <2>5, JobStep DEF MarkSyncing
<1>4. CASE ProbePages(w)
    <2> DEFINE k == [j EXCEPT !.pc = "paging", !.window = market]
    <2>1. k \in SyncJob
        BY <1>0 DEF SyncJob, JobPc
    <2>2. job' = [job EXCEPT ![w] = k]
        BY <1>0, <1>4 DEF ProbePages
    <2>3. store' \in StoreRow
        BY <1>0, <1>4 DEF ProbePages, StoreRow
    <2>4. QED
        BY <1>0, <1>4, <2>1, <2>2, <2>3, JobStep DEF ProbePages
<1>5. CASE FetchPages(w)
    <2>1. PICK S \in SUBSET j.window, complete \in BOOLEAN,
               coverage \in {"near_complete", "partial"} :
            job' = [job EXCEPT ![w] =
                    [@ EXCEPT !.pc = "upsert", !.window = {}, !.steady = TRUE,
                              !.result = S, !.complete = complete,
                              !.coverage = coverage, !.fetchedAt = now']]
        BY <1>5 DEF FetchPages
    <2>2. now' \in Nat
        BY <1>0, <1>5 DEF FetchPages
    <2> DEFINE k == [j EXCEPT !.pc = "upsert", !.window = {}, !.steady = TRUE,
                              !.result = S, !.complete = complete,
                              !.coverage = coverage, !.fetchedAt = now']
    <2>3. k \in SyncJob
        BY <1>0, <2>2 DEF SyncJob, JobPc, Coverage
    <2>4. job' = [job EXCEPT ![w] = k]
        BY <1>0, <2>1
    <2>5. store' \in StoreRow
        BY <1>0, <1>5 DEF FetchPages, StoreRow
    <2>6. QED
        BY <1>0, <1>5, <2>2, <2>3, <2>4, <2>5, JobStep DEF FetchPages
<1>6. CASE TriggerExport(w)
    <2>1. PICK S \in exports' : job' = [job EXCEPT ![w].pc = "export", ![w].result = S]
        BY <1>6 DEF TriggerExport
    <2>2. exports' \in SUBSET SUBSET Listing
        BY <1>0, <1>6 DEF TriggerExport
    <2> DEFINE k == [j EXCEPT !.pc = "export", !.result = S]
    <2>3. k \in SyncJob
        BY <1>0, <2>2 DEF SyncJob, JobPc
    <2>4. job' = [job EXCEPT ![w] = k]
        BY <1>0, <2>1
    <2>5. QED
        BY <1>0, <1>6, <2>2, <2>3, <2>4, JobStep DEF TriggerExport, tables
<1>7. CASE DownloadExport(w)
    <2> DEFINE k == [j EXCEPT !.pc = "upsert", !.complete = TRUE, !.fetchedAt = now']
    <2>1. now' \in Nat
        BY <1>0, <1>7 DEF DownloadExport
    <2>2. k \in SyncJob
        BY <1>0, <2>1 DEF SyncJob, JobPc
    <2>3. job' = [job EXCEPT ![w] = k]
        BY <1>0, <1>7 DEF DownloadExport
    <2>4. QED
        BY <1>0, <1>7, <2>1, <2>2, <2>3, JobStep DEF DownloadExport
<1>8. CASE Upsert(w)
    <2>1. PICK pc \in {"nullify", "finish"} : job' = [job EXCEPT ![w].pc = pc]
        BY <1>8 DEF Upsert, Goes
    <2>2. j.result \in SUBSET Listing /\ j.fetchedAt \in Nat
        BY <1>0 DEF SyncJob
    <2>3. /\ shelf' \in SUBSET Listing /\ clicked' \in SUBSET shelf'
          /\ unbumped' \in SUBSET Listing /\ seenAt' \in [Listing -> Nat]
        BY <1>0, <1>8, <2>2 DEF Upsert, InsertRows
    <2>4. QED
        BY <1>0, <1>1, <1>8, <2>1, <2>3, JobStep DEF Upsert, JobPc
<1>9. CASE NullifyStaleClicks(w)
    BY <1>0, <1>1, <1>9, JobStep DEF NullifyStaleClicks, NullifyClicks, Goes, JobPc
<1>10. CASE DeleteStale(w)
    <2>1. PICK pc \in {"bump", "finish"} : job' = [job EXCEPT ![w].pc = pc]
        BY <1>10 DEF DeleteStale, Goes
    <2>2. /\ shelf' \in SUBSET Listing /\ clicked' \in SUBSET shelf'
          /\ unbumped' \in SUBSET Listing
        BY <1>0, <1>10 DEF DeleteStale, DeleteRows, Deletable
    <2>3. QED
        BY <1>0, <1>1, <1>10, <2>1, <2>2, JobStep DEF DeleteStale, JobPc
<1>11. CASE DeleteStaleRefused(w)
    BY <1>0, <1>1, <1>11, JobStep DEF DeleteStaleRefused, Goes, JobPc, tables
<1>12. CASE BumpVersion(w)
    <2>1. store' \in StoreRow
        BY <1>0, <1>12 DEF BumpVersion, Bumped, StoreRow
    <2> DEFINE k == [j EXCEPT !.pc = "finish", !.mem = Copy(store')]
    <2>2. k \in SyncJob
        BY <1>0, <2>1, CopyType DEF SyncJob, JobPc
    <2>3. job' = [job EXCEPT ![w] = k]
        BY <1>0, <1>12 DEF BumpVersion
    <2>4. QED
        BY <1>0, <1>12, <2>1, <2>2, <2>3, JobStep DEF BumpVersion
<1>13. CASE ClearProgress(w)
    <2>1. store' \in StoreRow
        BY <1>0, <1>13 DEF ClearProgress, StoreRow
    <2>2. Cardinality(shelf) \in Nat
        BY <1>0, RowCount
    <2> DEFINE mem == [j.mem EXCEPT !.syncProgress = FALSE]
               k == [j EXCEPT !.pc = "succeed", !.count = Cardinality(shelf), !.mem = mem]
    <2>3. mem \in SyncCopy
        BY <1>0 DEF SyncJob, SyncCopy
    <2>4. job' = [job EXCEPT ![w] = k]
        BY <1>0, <1>13 DEF ClearProgress, SyncJob
    <2> HIDE DEF mem
    <2>5. k \in SyncJob
        BY <1>0, <2>2, <2>3 DEF SyncJob, JobPc
    <2>6. QED
        BY <1>0, <1>13, <2>1, <2>4, <2>5, JobStep DEF ClearProgress
<1>14. CASE MarkSucceeded(w)
    <2>1. store' \in StoreRow
        BY <1>0, <1>14, FinalAttrsType, SavedType DEF MarkSucceeded
    <2>2. QED
        BY <1>0, <1>14, <2>1, IdleJobType, JobStep DEF MarkSucceeded
<1>15. CASE MarkFailed(w)
    <2>1. store' \in StoreRow
        BY <1>0, <1>15 DEF MarkFailed, StoreRow
    <2>2. QED
        BY <1>0, <1>15, <2>1, IdleJobType, JobStep DEF MarkFailed
<1>16. QED
    BY <1>2, <1>3, <1>4, <1>5, <1>6, <1>7, <1>8, <1>9, <1>10, <1>11, <1>12,
       <1>13, <1>14, <1>15
    DEF SyncStep

LEMMA SyncFaultType ==
    ASSUME TypeOK, NEW w \in Worker, SyncFault(w)
    PROVE  TypeOK'
<1>0. job[w] \in SyncJob /\ syncFaults \in 0 .. MaxSyncFaults /\ MaxSyncFaults \in Nat
    BY SyncAssumption DEF TypeOK
<1>1. CASE FetchFails(w)
    <2> DEFINE k == [job[w] EXCEPT !.pc = "failing"]
    <2>1. k \in SyncJob
        BY <1>0 DEF SyncJob, JobPc
    <2>2. job' = [job EXCEPT ![w] = k]
        BY <1>0, <1>1 DEF FetchFails, Goes, TypeOK
    <2>3. QED
        BY <1>0, <1>1, <2>1, <2>2, JobStep DEF FetchFails, TypeOK, TablesTypeOK, tables
<1>2. CASE SyncCrash(w)
    BY <1>0, <1>2, IdleJobType, JobStep DEF SyncCrash, TypeOK, TablesTypeOK, tables
<1>3. QED
    BY <1>1, <1>2 DEF SyncFault

LEMMA MarketBecomesType ==
    ASSUME TypeOK, NEW S \in SUBSET Listing, MarketBecomes(S)
    PROVE  market' \in SUBSET Listing /\ job' \in [Worker -> SyncJob]
<1>1. ASSUME NEW w \in Worker
      PROVE  [job[w] EXCEPT !.window = @ \cup S, !.steady = FALSE] \in SyncJob
    <2>1. job[w] \in SyncJob
        BY DEF TypeOK
    <2>2. job[w].window \cup S \in SUBSET Listing
        BY <2>1 DEF SyncJob
    <2>3. ASSUME NEW W \in SUBSET Listing
          PROVE  [job[w] EXCEPT !.window = W, !.steady = FALSE] \in SyncJob
        BY <2>1 DEF SyncJob
    <2>4. QED
        BY <2>2, <2>3
<1>2. QED
    BY <1>1 DEF TypeOK, MarketBecomes

LEMMA TypeNext == TypeOK /\ [Next]_vars => TypeOK'
<1> SUFFICES ASSUME TypeOK, [Next]_vars PROVE TypeOK'
    OBVIOUS
<1>1. CASE MarketChange
    <2>1. PICK S \in SUBSET Listing : MarketBecomes(S)
        BY <1>1 DEF MarketChange, TypeOK
    <2>2. QED
        BY <1>1, <2>1, MarketBecomesType DEF MarketChange, tables, TypeOK, TablesTypeOK
<1>2. ASSUME NEW l \in Listing, ShopperClicks(l) PROVE TypeOK'
    BY <1>2 DEF ShopperClicks, Click, syncVars, TypeOK, TablesTypeOK
<1>3. CASE UNCHANGED vars
    BY <1>3 DEF vars, tables, syncVars, TypeOK, TablesTypeOK
<1>4. QED
    BY <1>1, <1>2, <1>3, SyncStepType, SyncFaultType DEF Next

\* The types of the state, with any number of overlapping syncs.
THEOREM TypeCorrect == Spec => []TypeOK
BY TypeInit, TypeNext, PTL DEF Spec

-----------------------------------------------------------------------------
(* Versions. *)

\* remove_stale: of any number of overlapping syncs one is about to move the
\* version when a deletion has none yet, unless a fetch failed or a worker died.
THEOREM DeletionsVersioned == Spec => []DeletionsAreVersioned
<1>1. Init => DeletionsAreVersioned
    BY DEF Init, TablesInit, DeletionsAreVersioned
<1>2. TypeOK /\ DeletionsAreVersioned /\ [Next]_vars => DeletionsAreVersioned'
    <2> SUFFICES ASSUME TypeOK, DeletionsAreVersioned, [Next]_vars
                 PROVE  DeletionsAreVersioned'
        OBVIOUS
    <2>0. /\ syncFaults \in Nat /\ job \in [Worker -> SyncJob]
          /\ \A w \in Worker : job[w] \in SyncJob
        BY SyncAssumption DEF TypeOK
    <2>1. ASSUME NEW w \in Worker, DeleteStale(w) PROVE DeletionsAreVersioned'
        <3>1. CASE Stale(w) = {}
            BY <2>0, <2>1, <3>1
            DEF DeleteStale, DeleteRows, Goes, DeletionsAreVersioned, SyncJob
        <3>2. CASE Stale(w) # {}
            BY <2>0, <2>1, <3>2 DEF DeleteStale, Goes, DeletionsAreVersioned, SyncJob
        <3>3. QED
            BY <3>1, <3>2
    <2>2. ASSUME NEW w \in Worker, BumpVersion(w) PROVE DeletionsAreVersioned'
        BY <2>2 DEF BumpVersion, DeletionsAreVersioned
    <2>3. ASSUME NEW w \in Worker, SyncFault(w) PROVE DeletionsAreVersioned'
        BY <2>0, <2>3 DEF SyncFault, FetchFails, SyncCrash, DeletionsAreVersioned
    <2>4. ASSUME unbumped' \subseteq unbumped, syncFaults' = syncFaults,
                 \A v \in Worker : job[v].pc = "bump" => job'[v].pc = "bump"
          PROVE  DeletionsAreVersioned'
        BY <2>4 DEF DeletionsAreVersioned
    <2>5. ASSUME NEW w \in Worker, SyncStep(w), ~DeleteStale(w), ~BumpVersion(w)
          PROVE  DeletionsAreVersioned'
        <3>1. /\ unbumped' \subseteq unbumped /\ syncFaults' = syncFaults
              /\ job[w].pc # "bump"
              /\ \A v \in Worker : v # w => job'[v] = job[v]
            BY <2>0, <2>5
            DEF SyncStep, FindStore, MarkSyncing, ProbePages, FetchPages,
                TriggerExport, DownloadExport, Upsert, InsertRows,
                NullifyStaleClicks, DeleteStaleRefused, ClearProgress,
                MarkSucceeded, MarkFailed, Goes, tables
        <3>2. QED
            BY <2>4, <3>1
    <2>6. CASE MarketChange
        <3>1. \A v \in Worker : job'[v].pc = job[v].pc
            BY <2>0, <2>6 DEF MarketChange, MarketBecomes, SyncJob
        <3>2. QED
            BY <2>4, <2>6, <3>1 DEF MarketChange, tables
    <2>7. CASE (\E l \in Listing : ShopperClicks(l)) \/ UNCHANGED vars
        BY <2>4, <2>7 DEF ShopperClicks, Click, syncVars, vars, tables
    <2>8. QED
        BY <2>1, <2>2, <2>3, <2>5, <2>6, <2>7 DEF Next
<1>3. QED
    BY <1>1, <1>2, TypeInit, TypeNext, PTL DEF Spec

-----------------------------------------------------------------------------
(* A sync on its own: what a worker knows of the row and of the stamps while *)
(* no other sync of the store runs.                                          *)

Syncing == {"fetch", "paging", "export", "upsert", "nullify", "delete", "bump", "finish"}
BeforeUpsert == {"fetch", "paging", "export", "upsert"}
AfterUpsert == {"nullify", "delete", "bump", "finish", "succeed"}

\* The worker's copy is what the row has, the row says syncing and shows the
\* progress from the first write to the last but one, and the count taken last
\* is the count of the rows.
RowInv(w) ==
    /\ job[w].pc # "idle" => \A c \in SyncColumns : job[w].mem[c] = store[c]
    /\ job[w].pc \notin {"idle", "found"} => store.syncStatus = "syncing"
    /\ job[w].pc \in Syncing => store.syncProgress
    /\ job[w].pc = "succeed" =>
        ~store.syncProgress /\ job[w].count = Cardinality(shelf)
    /\ IdleIsClean
    /\ CountIsExact

\* No stamp is ahead of the clock; every row was stamped before the sync started
\* until it upserts, and from then on the rows stamped since are the snapshot,
\* which is all there is once the stale rows of a complete one are deleted.
StampInv(w) ==
    /\ now # 0
    /\ \A l \in Listing : seenAt[l] <= now
    /\ job[w].pc \in BeforeUpsert \cup AfterUpsert => job[w].startedAt # 0
    /\ job[w].pc \in BeforeUpsert =>
        job[w].startedAt <= now /\ \A l \in Listing : seenAt[l] < job[w].startedAt
    /\ job[w].pc = "upsert" =>
        job[w].startedAt <= job[w].fetchedAt /\ job[w].fetchedAt <= now
    /\ job[w].pc \in AfterUpsert =>
        /\ job[w].result \subseteq shelf
        /\ \A l \in Listing : seenAt[l] >= job[w].startedAt <=> l \in job[w].result
    /\ job[w].pc \in {"bump", "finish", "succeed"} /\ job[w].complete =>
        shelf = job[w].result

SyncTypes(w) ==
    /\ now \in Nat /\ shelf \in SUBSET Listing /\ seenAt \in [Listing -> Nat]
    /\ store \in StoreRow /\ job[w] \in SyncJob /\ job \in [Worker -> SyncJob]
    /\ market \in SUBSET Listing

LEMMA SyncTyped == ASSUME TypeOK, NEW w \in Worker PROVE SyncTypes(w)
BY DEF TypeOK, TablesTypeOK, SyncTypes

\* What a worker holds, besides where it is.
Holds(w) ==
    <<job[w].mem, job[w].startedAt, job[w].result, job[w].complete,
      job[w].fetchedAt, job[w].count>>

LEMMA GoesHolds ==
    ASSUME NEW w \in Worker, SyncTypes(w), NEW pc, Goes(w, pc)
    PROVE  job'[w].pc = pc /\ Holds(w)' = Holds(w)
BY DEF Goes, SyncTypes, SyncJob, Holds

LEMMA ProbeHolds ==
    ASSUME NEW w \in Worker, SyncTypes(w), ProbePages(w)
    PROVE  job'[w].pc = "paging" /\ Holds(w)' = Holds(w)
BY DEF ProbePages, SyncTypes, SyncJob, Holds

LEMMA FetchHolds ==
    ASSUME NEW w \in Worker, SyncTypes(w), FetchPages(w)
    PROVE  /\ job'[w].pc = "upsert" /\ job'[w].mem = job[w].mem
           /\ job'[w].startedAt = job[w].startedAt /\ job'[w].fetchedAt = now'
<1>1. PICK S \in SUBSET job[w].window, complete \in BOOLEAN,
           coverage \in {"near_complete", "partial"} :
        job' = [job EXCEPT ![w] =
                [@ EXCEPT !.pc = "upsert", !.window = {}, !.steady = TRUE,
                          !.result = S, !.complete = complete,
                          !.coverage = coverage, !.fetchedAt = now']]
    BY DEF FetchPages
<1>2. QED
    BY <1>1 DEF SyncTypes, SyncJob

LEMMA SyncColumnsOfRow ==
    ASSUME NEW row \in StoreRow
    PROVE  /\ DOMAIN row = SyncColumns \cup
                {"inventoryVersion", "polledAt", "pollError", "cursor"}
           /\ SyncColumns = {"syncStatus", "syncError", "syncProgress", "lastSyncedAt",
                             "totalListings", "catalogCoverage"}
BY DEF StoreRow, SyncColumns

\* update! through a copy that is up to date writes every column assigned, and
\* no other.
LEMMA SavedThrough ==
    ASSUME store \in StoreRow, NEW mem \in SyncCopy, NEW attrs,
           \A c \in SyncColumns : mem[c] = store[c],
           DOMAIN attrs \subseteq SyncColumns
    PROVE  /\ \A c \in DOMAIN attrs : Saved(mem, attrs)[c] = attrs[c]
           /\ \A c \in SyncColumns : Saved(mem, attrs)[c] = Assigned(mem, attrs)[c]
           /\ \A c \in SyncColumns \ DOMAIN attrs : Saved(mem, attrs)[c] = store[c]
<1>1. SyncColumns \subseteq DOMAIN store /\ DOMAIN mem = SyncColumns
    BY SyncColumnsOfRow DEF SyncCopy, SyncColumns
<1>2. QED
    BY <1>1 DEF Saved, Assigned

LEMMA SyncingSaved ==
    ASSUME store \in StoreRow, NEW mem \in SyncCopy,
           \A c \in SyncColumns : mem[c] = store[c]
    PROVE  LET row == Saved(mem, SyncingAttrs)
           IN /\ row.syncStatus = "syncing" /\ row.syncProgress
              /\ \A c \in SyncColumns : row[c] = Assigned(mem, SyncingAttrs)[c]
              /\ row.lastSyncedAt = store.lastSyncedAt
              /\ row.catalogCoverage = store.catalogCoverage
<1>1. /\ DOMAIN SyncingAttrs = {"syncStatus", "syncProgress"}
      /\ SyncingAttrs["syncStatus"] = "syncing" /\ SyncingAttrs["syncProgress"]
    BY DEF SyncingAttrs
<1>2. /\ \A c \in DOMAIN SyncingAttrs : Saved(mem, SyncingAttrs)[c] = SyncingAttrs[c]
      /\ \A c \in SyncColumns :
            Saved(mem, SyncingAttrs)[c] = Assigned(mem, SyncingAttrs)[c]
      /\ \A c \in SyncColumns \ DOMAIN SyncingAttrs :
            Saved(mem, SyncingAttrs)[c] = store[c]
    BY <1>1, SavedThrough DEF SyncColumns
<1> DEFINE row == Saved(mem, SyncingAttrs)
           attrs == SyncingAttrs
<1> HIDE DEF row, attrs
<1>3. row["syncStatus"] = attrs["syncStatus"] /\ row["syncProgress"] = attrs["syncProgress"]
    BY <1>1, <1>2, Zenon DEF row, attrs
<1>4. row.lastSyncedAt = store.lastSyncedAt /\ row.catalogCoverage = store.catalogCoverage
    BY <1>1, <1>2 DEF row, SyncColumns
<1>5. row.syncProgress
    BY <1>1, <1>3, Zenon DEF attrs
<1>6. QED
    BY <1>1, <1>2, <1>3, <1>4, <1>5 DEF row, attrs

LEMMA FinalSaved ==
    ASSUME NEW w \in Worker, SyncTypes(w), \A c \in SyncColumns : job[w].mem[c] = store[c]
    PROVE  LET row == Saved(job[w].mem, FinalAttrs(w))
           IN /\ row.syncStatus = "idle" /\ ~row.syncError
              /\ row.syncProgress = store.syncProgress
              /\ row.lastSyncedAt = job[w].startedAt
              /\ row.totalListings = job[w].count
<1> DEFINE attrs == FinalAttrs(w)
           row == Saved(job[w].mem, attrs)
<1>1. /\ DOMAIN attrs = {"syncStatus", "syncError", "lastSyncedAt", "totalListings",
                         "catalogCoverage"}
      /\ attrs["syncStatus"] = "idle" /\ ~attrs["syncError"]
      /\ attrs["lastSyncedAt"] = job[w].startedAt
      /\ attrs["totalListings"] = job[w].count
    BY DEF FinalAttrs
<1>2. job[w].mem \in SyncCopy /\ store \in StoreRow
    BY DEF SyncTypes, SyncJob
<1> HIDE DEF attrs
<1>3. DOMAIN attrs \subseteq SyncColumns
    BY <1>1 DEF SyncColumns
<1>4. /\ \A c \in DOMAIN attrs : row[c] = attrs[c]
      /\ \A c \in SyncColumns \ DOMAIN attrs : row[c] = store[c]
    BY <1>2, <1>3, SavedThrough
<1> HIDE DEF row
<1>5. /\ row["syncStatus"] = attrs["syncStatus"] /\ row["syncError"] = attrs["syncError"]
      /\ row["lastSyncedAt"] = attrs["lastSyncedAt"]
      /\ row["totalListings"] = attrs["totalListings"]
    BY <1>1, <1>4, Zenon
<1>6. row["syncProgress"] = store["syncProgress"]
    BY <1>1, <1>4 DEF SyncColumns
<1>7. ~row["syncError"]
    BY <1>1, <1>5, Zenon
<1>8. QED
    BY <1>1, <1>5, <1>6, <1>7 DEF row, attrs

-----------------------------------------------------------------------------
\* The row of a sync on its own.

LEMMA RowInit == ASSUME Init, NEW w \in Worker PROVE RowInv(w)
<1>1. job[w].pc = "idle"
    BY DEF Init, SyncInit, IdleJob
<1>2. ~store.syncError /\ ~store.syncProgress /\ store.lastSyncedAt = 0
    BY DEF Init, TablesInit, NewStoreRow
<1>3. QED
    BY <1>1, <1>2 DEF RowInv, Syncing, IdleIsClean, CountIsExact

\* Steps that leave the row and the count of the rows alone.
LEMMA RowFrame ==
    ASSUME NEW w \in Worker, RowInv(w), store' = store,
           shelf' = shelf \/ (store.syncStatus = "syncing" /\ job'[w].pc # "succeed"),
           job'[w].pc # "idle" => job'[w].mem = job[w].mem /\ job[w].pc # "idle",
           job'[w].pc \notin {"idle", "found"} => job[w].pc \notin {"idle", "found"},
           job'[w].pc \in Syncing => job[w].pc \in Syncing,
           job'[w].pc = "succeed" => job[w].pc = "succeed" /\ job'[w].count = job[w].count
    PROVE  RowInv(w)'
BY DEF RowInv, IdleIsClean, CountIsExact

LEMMA RowStep ==
    ASSUME NEW w, Worker = {w}, TypeOK, RowInv(w), SyncStep(w)
    PROVE  RowInv(w)'
<1>0. SyncTypes(w) /\ w \in Worker
    BY SyncTyped
<1>1. CASE FindStore(w)
    <2>1. job'[w].pc = "found" /\ job'[w].mem = Copy(store) /\ store' = store /\ shelf' = shelf
        BY <1>0, <1>1 DEF FindStore, IdleJob, tables, SyncTypes
    <2>2. \A c \in SyncColumns : job'[w].mem[c] = store'[c]
        BY <2>1 DEF Copy
    <2>3. QED
        BY <2>1, <2>2 DEF RowInv, Syncing, IdleIsClean, CountIsExact
<1>2. CASE MarkSyncing(w)
    <2>1. job[w].pc = "found" /\ job[w].mem \in SyncCopy /\ store \in StoreRow
        BY <1>0, <1>2 DEF MarkSyncing, SyncTypes, SyncJob
    <2>2. \A c \in SyncColumns : job[w].mem[c] = store[c]
        BY <2>1 DEF RowInv
    <2>3. /\ store' = Saved(job[w].mem, SyncingAttrs) /\ shelf' = shelf
          /\ job'[w].pc = "fetch" /\ job'[w].mem = Assigned(job[w].mem, SyncingAttrs)
        BY <1>0, <1>2 DEF MarkSyncing, SyncTypes, SyncJob
    <2>4. /\ store'.syncStatus = "syncing" /\ store'.syncProgress
          /\ \A c \in SyncColumns : store'[c] = job'[w].mem[c]
        BY <2>1, <2>2, <2>3, SyncingSaved
    <2>5. QED
        BY <2>3, <2>4 DEF RowInv, Syncing, IdleIsClean, CountIsExact
<1>3. CASE ProbePages(w) \/ FetchPages(w)
    <2>1. job[w].pc \in {"fetch", "paging"} /\ store.syncProgress \in BOOLEAN
        BY <1>0, <1>3 DEF ProbePages, FetchPages, SyncTypes, StoreRow
    <2>2. store.syncProgress
        BY <2>1 DEF RowInv, Syncing
    <2>3. store.syncProgress = TRUE
        BY <2>1, <2>2, Zenon
    <2>4. store' = [store EXCEPT !.syncProgress = TRUE]
        BY <1>3 DEF ProbePages, FetchPages
    <2>5. store' = store
        BY <1>0, <2>3, <2>4 DEF SyncTypes, StoreRow
    <2>6. job'[w].pc \in {"paging", "upsert"} /\ job'[w].mem = job[w].mem
        BY <1>0, <1>3, ProbeHolds, FetchHolds DEF Holds
    <2>7. shelf' = shelf
        BY <1>3 DEF ProbePages, FetchPages
    <2>8. QED
        BY <2>1, <2>5, <2>6, <2>7, RowFrame DEF Syncing
<1>4. CASE TriggerExport(w) \/ DownloadExport(w)
    <2>1. /\ job[w].pc \in {"fetch", "export"} /\ job'[w].pc \in {"export", "upsert"}
          /\ job'[w].mem = job[w].mem /\ store' = store /\ shelf' = shelf
        BY <1>0, <1>4 DEF TriggerExport, DownloadExport, SyncTypes, SyncJob, tables
    <2>2. QED
        BY <2>1, RowFrame DEF Syncing
<1>5. CASE Upsert(w) \/ NullifyStaleClicks(w) \/ DeleteStale(w) \/ DeleteStaleRefused(w)
    <2>1. /\ job[w].pc \in {"upsert", "nullify", "delete"} /\ store' = store
          /\ \/ Goes(w, "nullify") \/ Goes(w, "delete") \/ Goes(w, "bump")
             \/ Goes(w, "finish") \/ Goes(w, "failing")
        BY <1>5 DEF Upsert, NullifyStaleClicks, DeleteStale, DeleteStaleRefused, tables
    <2>2. /\ job'[w].pc \in {"nullify", "delete", "bump", "finish", "failing"}
          /\ job'[w].mem = job[w].mem
        BY <1>0, <2>1, GoesHolds DEF Holds
    <2>3. store.syncStatus = "syncing"
        BY <2>1 DEF RowInv
    <2>4. QED
        BY <2>1, <2>2, <2>3, RowFrame DEF Syncing
<1>6. CASE BumpVersion(w)
    <2>1. /\ job[w].pc = "bump" /\ store' = [store EXCEPT !.inventoryVersion = Bumped]
          /\ job'[w].pc = "finish" /\ job'[w].mem = Copy(store') /\ shelf' = shelf
        BY <1>0, <1>6 DEF BumpVersion, SyncTypes, SyncJob
    <2>2. /\ store'.syncStatus = store.syncStatus
          /\ store'.syncProgress = store.syncProgress
        BY <1>0, <2>1 DEF SyncTypes, StoreRow
    <2>3. store'.syncStatus = "syncing" /\ store'.syncProgress
        BY <2>1, <2>2 DEF RowInv, Syncing
    <2>4. \A c \in SyncColumns : job'[w].mem[c] = store'[c]
        BY <2>1 DEF Copy
    <2>5. QED
        BY <2>1, <2>3, <2>4 DEF RowInv, IdleIsClean, CountIsExact
<1>7. CASE ClearProgress(w)
    <2>1. /\ job[w].pc = "finish" /\ store' = [store EXCEPT !.syncProgress = FALSE]
          /\ job'[w].pc = "succeed" /\ job'[w].count = Cardinality(shelf)
          /\ job'[w].mem = [job[w].mem EXCEPT !.syncProgress = FALSE] /\ shelf' = shelf
        BY <1>0, <1>7 DEF ClearProgress, SyncTypes, SyncJob
    <2>2. \A c \in SyncColumns : job[w].mem[c] = store[c]
        BY <2>1 DEF RowInv
    <2>3. SyncColumns \subseteq DOMAIN store /\ DOMAIN job[w].mem = SyncColumns
        BY <1>0, SyncColumnsOfRow DEF SyncTypes, SyncJob, SyncCopy, SyncColumns
    <2>4. \A c \in SyncColumns : job'[w].mem[c] = store'[c]
        BY <2>1, <2>2, <2>3
    <2>5. store'.syncStatus = "syncing"
        BY <1>0, <2>1 DEF RowInv, SyncTypes, StoreRow
    <2>6. ~store'.syncProgress
        BY <1>0, <2>1 DEF SyncTypes, StoreRow
    <2>7. QED
        BY <2>1, <2>4, <2>5, <2>6 DEF RowInv, Syncing, IdleIsClean, CountIsExact
<1>8. CASE MarkSucceeded(w)
    <2>1. /\ job[w].pc = "succeed" /\ store' = Saved(job[w].mem, FinalAttrs(w))
          /\ job'[w] = IdleJob /\ shelf' = shelf
        BY <1>0, <1>8 DEF MarkSucceeded, SyncTypes
    <2>2. /\ \A c \in SyncColumns : job[w].mem[c] = store[c]
          /\ ~store.syncProgress /\ job[w].count = Cardinality(shelf)
        BY <2>1 DEF RowInv
    <2>3. /\ store'.syncStatus = "idle" /\ ~store'.syncError
          /\ store'.syncProgress = store.syncProgress
          /\ store'.totalListings = job[w].count
        BY <1>0, <2>1, <2>2, FinalSaved
    <2>4. ~store'.syncProgress
        BY <2>2, <2>3, Zenon
    <2>5. job'[w].pc = "idle"
        BY <2>1 DEF IdleJob
    <2>6. QED
        BY <2>1, <2>2, <2>3, <2>4, <2>5 DEF RowInv, Syncing, IdleIsClean, CountIsExact
<1>9. CASE MarkFailed(w)
    <2>1. store'.syncStatus = "failed" /\ job'[w].pc = "idle"
        BY <1>0, <1>9 DEF MarkFailed, SyncTypes, StoreRow, IdleJob
    <2>2. QED
        BY <2>1 DEF RowInv, Syncing, IdleIsClean, CountIsExact
<1>10. QED
    BY <1>1, <1>2, <1>3, <1>4, <1>5, <1>6, <1>7, <1>8, <1>9 DEF SyncStep

\* What the market, a shopper or a fault does to the one worker.
LEMMA Elsewhere ==
    ASSUME NEW w, Worker = {w}, TypeOK, [Next]_vars, ~SyncStep(w)
    PROVE  /\ store' = store /\ shelf' = shelf /\ seenAt' = seenAt /\ now' = now
           /\ \/ job'[w].pc = job[w].pc /\ Holds(w)' = Holds(w)
              \/ job'[w].pc = "failing" /\ Holds(w)' = Holds(w)
                    /\ job[w].pc \in {"fetch", "paging", "export"}
              \/ job'[w] = IdleJob /\ syncFaults' # syncFaults
<1>0. SyncTypes(w) /\ w \in Worker
    BY SyncTyped
<1>1. CASE FetchFails(w)
    BY <1>0, <1>1, GoesHolds DEF FetchFails, tables
<1>2. CASE SyncCrash(w)
    <2>1. syncFaults' # syncFaults
        BY <1>2, SyncAssumption DEF SyncCrash, TypeOK
    <2>2. QED
        BY <1>0, <1>2, <2>1 DEF SyncCrash, tables, SyncTypes
<1>3. CASE MarketChange
    <2>1. \/ job'[w] = job[w]
          \/ \E S : job'[w] = [job[w] EXCEPT !.window = @ \cup S, !.steady = FALSE]
        BY <1>0, <1>3 DEF MarketChange, MarketBecomes
    <2>2. job'[w].pc = job[w].pc /\ Holds(w)' = Holds(w)
        BY <1>0, <2>1 DEF SyncTypes, SyncJob, Holds
    <2>3. QED
        BY <1>3, <2>2 DEF MarketChange, tables
<1>4. CASE (\E l \in Listing : ShopperClicks(l)) \/ UNCHANGED vars
    BY <1>4 DEF ShopperClicks, Click, syncVars, vars, tables, Holds
<1>5. QED
    BY <1>1, <1>2, <1>3, <1>4 DEF Next, SyncFault

LEMMA RowNext ==
    ASSUME NEW w, Worker = {w}
    PROVE  TypeOK /\ RowInv(w) /\ [Next]_vars => RowInv(w)'
<1> SUFFICES ASSUME TypeOK, RowInv(w), [Next]_vars PROVE RowInv(w)'
    OBVIOUS
<1>1. CASE SyncStep(w)
    BY <1>1, RowStep
<1>2. CASE ~SyncStep(w)
    <2>1. /\ store' = store /\ shelf' = shelf
          /\ \/ job'[w].pc = job[w].pc /\ Holds(w)' = Holds(w)
             \/ job'[w].pc = "failing" /\ Holds(w)' = Holds(w)
                    /\ job[w].pc \in {"fetch", "paging", "export"}
             \/ job'[w].pc = "idle"
        BY <1>2, Elsewhere DEF IdleJob
    <2>2. QED
        BY <2>1, RowFrame DEF Syncing, Holds
<1>3. QED
    BY <1>1, <1>2

\* A store with one sync at a time that says it is idle shows no error and no
\* progress left over from an earlier sync, whichever way that one ended.
THEOREM IdleStoresAreClean ==
    ASSUME NEW w, Worker = {w}
    PROVE  Spec => []IdleIsClean
<1>1. Init => RowInv(w)
    BY RowInit
<1>2. RowInv(w) => IdleIsClean
    BY DEF RowInv
<1>3. TypeOK /\ RowInv(w) /\ [Next]_vars => RowInv(w)'
    BY RowNext
<1>4. QED
    BY <1>1, <1>2, <1>3, TypeCorrect, PTL DEF Spec

\* And its count is the number of its rows.
THEOREM IdleStoresAreCounted ==
    ASSUME NEW w, Worker = {w}
    PROVE  Spec => []CountIsExact
<1>1. Init => RowInv(w)
    BY RowInit
<1>2. RowInv(w) => CountIsExact
    BY DEF RowInv
<1>3. TypeOK /\ RowInv(w) /\ [Next]_vars => RowInv(w)'
    BY RowNext
<1>4. QED
    BY <1>1, <1>2, <1>3, TypeCorrect, PTL DEF Spec

-----------------------------------------------------------------------------
\* The stamps of a sync on its own.

LEMMA StampInit == ASSUME Init, NEW w \in Worker PROVE StampInv(w)
<1>1. job[w].pc = "idle" /\ now = 1 /\ seenAt = [l \in Listing |-> 0]
    BY DEF Init, TablesInit, SyncInit, IdleJob
<1>2. QED
    BY <1>1 DEF StampInv, BeforeUpsert, AfterUpsert

\* Steps that stamp no row and move no further than the part they are in.
LEMMA StampFrame ==
    ASSUME NEW w \in Worker, SyncTypes(w), StampInv(w), now' \in Nat,
           seenAt' = seenAt, shelf' = shelf, now <= now',
           job'[w].pc \in BeforeUpsert \cup AfterUpsert => Holds(w)' = Holds(w),
           job'[w].pc \in BeforeUpsert => job[w].pc \in BeforeUpsert,
           job'[w].pc = "upsert" => job[w].pc = "upsert",
           job'[w].pc \in AfterUpsert => job[w].pc \in AfterUpsert,
           job'[w].pc \in {"bump", "finish", "succeed"}
               => job[w].pc \in {"bump", "finish", "succeed"}
    PROVE  StampInv(w)'
<1>1. /\ job[w].startedAt \in Nat /\ job[w].fetchedAt \in Nat /\ now \in Nat
      /\ \A l \in Listing : seenAt[l] \in Nat
    BY DEF SyncTypes, SyncJob
<1>2. /\ now' # 0 /\ \A l \in Listing : seenAt'[l] <= now'
    BY <1>1 DEF StampInv
<1>3. ASSUME job'[w].pc \in BeforeUpsert
      PROVE  /\ job'[w].startedAt # 0 /\ job'[w].startedAt <= now'
             /\ \A l \in Listing : seenAt'[l] < job'[w].startedAt
    BY <1>1, <1>3 DEF StampInv, Holds
<1>4. ASSUME job'[w].pc = "upsert"
      PROVE  job'[w].startedAt <= job'[w].fetchedAt /\ job'[w].fetchedAt <= now'
    BY <1>1, <1>4 DEF StampInv, Holds, BeforeUpsert
<1>5. ASSUME job'[w].pc \in AfterUpsert
      PROVE  /\ job'[w].startedAt # 0 /\ job'[w].result \subseteq shelf'
             /\ \A l \in Listing : seenAt'[l] >= job'[w].startedAt <=> l \in job'[w].result
    BY <1>5 DEF StampInv, Holds
<1>6. ASSUME job'[w].pc \in {"bump", "finish", "succeed"}, job'[w].complete
      PROVE  shelf' = job'[w].result
    BY <1>6 DEF StampInv, Holds, AfterUpsert
<1>7. QED
    BY <1>2, <1>3, <1>4, <1>5, <1>6 DEF StampInv

\* A worker that holds nothing.
LEMMA StampIdle ==
    ASSUME NEW w \in Worker, StampInv(w), seenAt' = seenAt, now' = now,
           job'[w].pc \notin BeforeUpsert \cup AfterUpsert
    PROVE  StampInv(w)'
BY DEF StampInv, BeforeUpsert, AfterUpsert

LEMMA StampStep ==
    ASSUME NEW w, Worker = {w}, TypeOK, StampInv(w), SyncStep(w)
    PROVE  StampInv(w)'
<1>0. /\ SyncTypes(w) /\ w \in Worker /\ now \in Nat
      /\ \A l \in Listing : seenAt[l] \in Nat /\ seenAt[l] <= now
      /\ job[w].startedAt \in Nat /\ job[w].fetchedAt \in Nat
      /\ job[w].result \subseteq Listing /\ shelf \subseteq Listing
    BY SyncTyped DEF SyncTypes, SyncJob, StampInv
<1> USE DEF BeforeUpsert, AfterUpsert
<1>1. CASE FindStore(w) \/ MarkSucceeded(w) \/ MarkFailed(w)
    <2>1. seenAt' = seenAt /\ now' = now
        BY <1>1 DEF FindStore, MarkSucceeded, MarkFailed, tables
    <2>2. CASE FindStore(w)
        <3>1. job'[w].pc = "found"
            BY <1>0, <2>2 DEF FindStore, IdleJob, SyncTypes
        <3>2. QED
            BY <1>0, <2>1, <3>1, StampIdle
    <2>3. CASE MarkSucceeded(w) \/ MarkFailed(w)
        <3>1. job'[w] = IdleJob
            BY <1>0, <2>3 DEF MarkSucceeded, MarkFailed, SyncTypes
        <3>2. QED
            BY <1>0, <2>1, <3>1, StampIdle DEF IdleJob
    <2>4. QED
        BY <1>1, <2>2, <2>3
<1>2. CASE MarkSyncing(w)
    <2>1. /\ now' = now + 1 /\ seenAt' = seenAt
          /\ job'[w].pc = "fetch" /\ job'[w].startedAt = now'
        BY <1>0, <1>2 DEF MarkSyncing, SyncTypes, SyncJob
    <2>2. QED
        BY <1>0, <2>1 DEF StampInv
<1>3. CASE ProbePages(w) \/ TriggerExport(w)
    <2>1. /\ job[w].pc = "fetch" /\ job'[w].pc \in {"paging", "export"}
          /\ job'[w].startedAt = job[w].startedAt
        BY <1>0, <1>3 DEF ProbePages, TriggerExport, SyncTypes, SyncJob
    <2>2. seenAt' = seenAt /\ now' = now
        BY <1>3 DEF ProbePages, TriggerExport, tables
    <2>3. QED
        BY <1>0, <2>1, <2>2 DEF StampInv
<1>4. CASE FetchPages(w) \/ DownloadExport(w)
    <2>1. /\ job[w].pc \in BeforeUpsert /\ job'[w].pc = "upsert"
          /\ job'[w].startedAt = job[w].startedAt /\ job'[w].fetchedAt = now'
        <3>1. CASE FetchPages(w)
            BY <1>0, <3>1, FetchHolds DEF FetchPages
        <3>2. CASE DownloadExport(w)
            BY <1>0, <3>2 DEF DownloadExport, SyncTypes, SyncJob
        <3>3. QED
            BY <1>4, <3>1, <3>2
    <2>2. seenAt' = seenAt /\ now' = now + 1
        BY <1>4 DEF FetchPages, DownloadExport
    <2>3. QED
        BY <1>0, <2>1, <2>2 DEF StampInv
<1>5. CASE Upsert(w)
    <2>1. job[w].pc = "upsert" /\ now' = now /\ shelf' = shelf \cup job[w].result
        BY <1>5 DEF Upsert, InsertRows
    <2>2. /\ job'[w].pc = IF job[w].complete THEN "nullify" ELSE "finish"
          /\ Holds(w)' = Holds(w)
        BY <1>0, <1>5, GoesHolds DEF Upsert
    <2>3. /\ job[w].startedAt # 0 /\ job[w].startedAt <= job[w].fetchedAt
          /\ job[w].fetchedAt <= now
          /\ \A l \in Listing : seenAt[l] < job[w].startedAt
        BY <2>1 DEF StampInv
    <2>4. \A l \in Listing :
            seenAt'[l] = IF l \in job[w].result THEN job[w].fetchedAt ELSE seenAt[l]
        BY <1>5 DEF Upsert
    <2>5. \A l \in Listing : seenAt'[l] <= now
        BY <1>0, <2>3, <2>4
    <2>6. \A l \in Listing : seenAt'[l] >= job[w].startedAt <=> l \in job[w].result
        BY <1>0, <2>3, <2>4
    <2>7. QED
        BY <2>1, <2>2, <2>3, <2>5, <2>6 DEF StampInv, Holds
<1>6. CASE NullifyStaleClicks(w) \/ DeleteStaleRefused(w)
    <2>1. /\ job[w].pc \in {"nullify", "delete"} /\ job'[w].pc \in {"delete", "failing"}
          /\ Holds(w)' = Holds(w)
        BY <1>0, <1>6, GoesHolds DEF NullifyStaleClicks, DeleteStaleRefused
    <2>2. seenAt' = seenAt /\ now' = now /\ shelf' = shelf
        BY <1>6 DEF NullifyStaleClicks, DeleteStaleRefused, tables
    <2>3. QED
        BY <1>0, <2>1, <2>2, StampFrame
<1>7. CASE DeleteStale(w)
    <2>1. job[w].pc = "delete" /\ now' = now /\ seenAt' = seenAt
        BY <1>7 DEF DeleteStale
    <2>2. /\ job'[w].pc \in {"bump", "finish"} /\ Holds(w)' = Holds(w)
        BY <1>0, <1>7, GoesHolds DEF DeleteStale
    <2>3. job[w].result \subseteq shelf
        BY <2>1 DEF StampInv
    <2>4. shelf' = job[w].result
        BY <1>7, <2>3 DEF DeleteStale, DeleteRows, Stale
    <2>5. QED
        BY <2>1, <2>2, <2>4 DEF StampInv, Holds
<1>8. CASE BumpVersion(w) \/ ClearProgress(w)
    <2>1. /\ job[w].pc \in {"bump", "finish"} /\ job'[w].pc \in {"finish", "succeed"}
          /\ job'[w].startedAt = job[w].startedAt /\ job'[w].result = job[w].result
          /\ job'[w].complete = job[w].complete
        BY <1>0, <1>8 DEF BumpVersion, ClearProgress, SyncTypes, SyncJob
    <2>2. seenAt' = seenAt /\ now' = now /\ shelf' = shelf
        BY <1>8 DEF BumpVersion, ClearProgress
    <2>3. QED
        BY <2>1, <2>2 DEF StampInv
<1>9. QED
    BY <1>1, <1>2, <1>3, <1>4, <1>5, <1>6, <1>7, <1>8 DEF SyncStep

LEMMA StampNext ==
    ASSUME NEW w, Worker = {w}
    PROVE  TypeOK /\ StampInv(w) /\ [Next]_vars => StampInv(w)'
<1> SUFFICES ASSUME TypeOK, StampInv(w), [Next]_vars PROVE StampInv(w)'
    OBVIOUS
<1>0. SyncTypes(w) /\ w \in Worker /\ now \in Nat
    BY SyncTyped DEF SyncTypes
<1>1. CASE SyncStep(w)
    BY <1>1, StampStep
<1>2. CASE ~SyncStep(w)
    <2>1. /\ seenAt' = seenAt /\ shelf' = shelf /\ now' = now
          /\ \/ job'[w].pc = job[w].pc /\ Holds(w)' = Holds(w)
             \/ job'[w].pc \in {"failing", "idle"}
        BY <1>2, Elsewhere DEF IdleJob
    <2>2. CASE job'[w].pc = job[w].pc /\ Holds(w)' = Holds(w)
        BY <1>0, <2>1, <2>2, StampFrame
    <2>3. CASE job'[w].pc \in {"failing", "idle"}
        BY <1>0, <2>1, <2>3, StampIdle DEF BeforeUpsert, AfterUpsert
    <2>4. QED
        BY <2>1, <2>2, <2>3
<1>3. QED
    BY <1>1, <1>2

-----------------------------------------------------------------------------
\* What the storefront shows while a sync runs, and when it has succeeded.

\* Only mark_succeeded! ends a sync without a fault.
LEMMA SuccessIsMarked ==
    ASSUME NEW w, Worker = {w}, TypeOK, [Next]_vars, Succeeds(w)
    PROVE  MarkSucceeded(w)
<1>0. SyncTypes(w) /\ w \in Worker
    BY SyncTyped
<1>1. job[w].pc = "succeed" /\ job'[w].pc = "idle" /\ syncFaults' = syncFaults
    BY DEF Succeeds
<1>2. SyncStep(w)
    BY <1>1, Elsewhere
<1>3. QED
    BY <1>1, <1>2
    DEF SyncStep, FindStore, MarkSyncing, ProbePages, FetchPages, TriggerExport,
        DownloadExport, Upsert, NullifyStaleClicks, DeleteStale, DeleteStaleRefused,
        BumpVersion, ClearProgress, MarkFailed

\* A sync that succeeds has published its snapshot: the rows available are the
\* listings the fetch returned, however long it took, and after a complete fetch
\* no other row is left.
THEOREM SnapshotsArePublished ==
    ASSUME NEW sole, Worker = {sole}
    PROVE  Spec => SnapshotIsPublished
<1>1. TypeOK /\ RowInv(sole) /\ StampInv(sole) /\ [Next]_vars =>
        [\A w \in Worker : Succeeds(w) /\ store'.catalogCoverage # "partial"
            => /\ Available' = job[w].result
               /\ job[w].complete => shelf' = job[w].result]_vars
    <2> SUFFICES ASSUME TypeOK, RowInv(sole), StampInv(sole), [Next]_vars,
                        NEW w \in Worker, Succeeds(w),
                        store'.catalogCoverage # "partial"
                 PROVE  /\ Available' = job[w].result
                        /\ job[w].complete => shelf' = job[w].result
        OBVIOUS
    <2>0. SyncTypes(w) /\ w = sole
        BY SyncTyped
    <2>1. MarkSucceeded(w)
        BY SuccessIsMarked
    <2>2. /\ job[w].pc = "succeed" /\ shelf' = shelf /\ seenAt' = seenAt
          /\ store' = Saved(job[w].mem, FinalAttrs(w))
        BY <2>1 DEF MarkSucceeded
    <2>3. \A c \in SyncColumns : job[w].mem[c] = store[c]
        BY <2>2 DEF RowInv
    <2>4. store'.lastSyncedAt = job[w].startedAt
        BY <2>0, <2>2, <2>3, FinalSaved
    <2>5. /\ job[w].startedAt # 0 /\ job[w].result \subseteq shelf /\ shelf \subseteq Listing
          /\ \A l \in Listing : seenAt[l] >= job[w].startedAt <=> l \in job[w].result
          /\ job[w].complete => shelf = job[w].result
        BY <2>0, <2>2 DEF StampInv, AfterUpsert, SyncTypes
    <2>6. Available' = {l \in shelf : seenAt[l] >= job[w].startedAt}
        BY <2>2, <2>4, <2>5 DEF Available
    <2>7. QED
        BY <2>2, <2>5, <2>6
<1>2. Init => RowInv(sole) /\ StampInv(sole)
    BY RowInit, StampInit
<1>3. /\ TypeOK /\ RowInv(sole) /\ [Next]_vars => RowInv(sole)'
      /\ TypeOK /\ StampInv(sole) /\ [Next]_vars => StampInv(sole)'
    BY RowNext, StampNext
<1>4. QED
    BY <1>1, <1>2, <1>3, TypeCorrect, PTL DEF Spec, SnapshotIsPublished

\* Every step but the success of a sync leaves the watermark where it is, and
\* takes no stamp back.
LEMMA WatermarkStays ==
    ASSUME NEW w, Worker = {w}, TypeOK, RowInv(w), StampInv(w), [Next]_vars, ~Succeeds(w)
    PROVE  /\ store'.lastSyncedAt = store.lastSyncedAt
           /\ store'.catalogCoverage = store.catalogCoverage
           /\ \A l \in Listing : seenAt[l] <= seenAt'[l]
<1>0. /\ SyncTypes(w) /\ w \in Worker /\ store \in StoreRow
      /\ \A l \in Listing : seenAt[l] \in Nat
    BY SyncTyped DEF SyncTypes
<1>1. CASE ~SyncStep(w)
    BY <1>0, <1>1, Elsewhere
<1>2. CASE MarkSyncing(w)
    <2>1. /\ job[w].mem \in SyncCopy /\ store' = Saved(job[w].mem, SyncingAttrs)
          /\ seenAt' = seenAt /\ job[w].pc = "found"
        BY <1>0, <1>2 DEF MarkSyncing, SyncTypes, SyncJob
    <2>2. \A c \in SyncColumns : job[w].mem[c] = store[c]
        BY <2>1 DEF RowInv
    <2>3. QED
        BY <1>0, <2>1, <2>2, SyncingSaved
<1>3. CASE Upsert(w)
    <2>1. store' = store /\ job[w].pc = "upsert" /\ job[w].fetchedAt \in Nat
        BY <1>0, <1>3 DEF Upsert, SyncTypes, SyncJob
    <2>2. /\ \A l \in Listing : seenAt[l] < job[w].startedAt
          /\ job[w].startedAt <= job[w].fetchedAt /\ job[w].startedAt \in Nat
        BY <1>0, <2>1 DEF StampInv, BeforeUpsert, SyncTypes, SyncJob
    <2>3. \A l \in Listing :
            seenAt'[l] = IF l \in job[w].result THEN job[w].fetchedAt ELSE seenAt[l]
        BY <1>3 DEF Upsert
    <2>4. QED
        BY <1>0, <2>1, <2>2, <2>3
<1>4. CASE ProbePages(w) \/ FetchPages(w) \/ BumpVersion(w) \/ ClearProgress(w) \/ MarkFailed(w)
    <2>1. seenAt' = seenAt
        BY <1>4 DEF ProbePages, FetchPages, BumpVersion, ClearProgress, MarkFailed
    <2>2. \/ \E p \in BOOLEAN : store' = [store EXCEPT !.syncProgress = p]
          \/ store' = [store EXCEPT !.inventoryVersion = Bumped]
          \/ store' = [store EXCEPT !.syncStatus = "failed", !.syncError = TRUE]
        BY <1>4 DEF ProbePages, FetchPages, BumpVersion, ClearProgress, MarkFailed
    <2>3. /\ store'.lastSyncedAt = store.lastSyncedAt
          /\ store'.catalogCoverage = store.catalogCoverage
        BY <1>0, <2>2 DEF StoreRow
    <2>4. QED
        BY <1>0, <2>1, <2>3
<1>5. CASE \/ FindStore(w) \/ TriggerExport(w) \/ DownloadExport(w) \/ NullifyStaleClicks(w)
           \/ DeleteStale(w) \/ DeleteStaleRefused(w)
    BY <1>0, <1>5
    DEF FindStore, TriggerExport, DownloadExport, NullifyStaleClicks, DeleteStale,
        DeleteStaleRefused, tables
<1>6. CASE MarkSucceeded(w)
    BY <1>0, <1>6 DEF MarkSucceeded, Succeeds, SyncTypes, IdleJob
<1>7. QED
    BY <1>1, <1>2, <1>3, <1>4, <1>5, <1>6 DEF SyncStep

\* Until a sync succeeds it hides nothing: whatever it has upserted, deleted or
\* failed at, a row that was available and still exists stays available.
THEOREM RowsStayAvailable ==
    ASSUME NEW sole, Worker = {sole}
    PROVE  Spec => ShownUntilPublished
<1>1. TypeOK /\ TypeOK' /\ RowInv(sole) /\ StampInv(sole) /\ [Next]_vars =>
        [/\ \A w \in Worker : ~Succeeds(w)
         /\ store.catalogCoverage # "partial" /\ store.lastSyncedAt # 0
         => Available \cap shelf' \subseteq Available']_vars
    <2> SUFFICES ASSUME TypeOK, TypeOK', RowInv(sole), StampInv(sole), [Next]_vars,
                        ~Succeeds(sole), store.catalogCoverage # "partial",
                        store.lastSyncedAt # 0,
                        NEW l \in Available \cap shelf'
                 PROVE  l \in Available'
        OBVIOUS
    <2>1. /\ store'.lastSyncedAt = store.lastSyncedAt
          /\ store'.catalogCoverage = store.catalogCoverage
          /\ seenAt[l] <= seenAt'[l] /\ l \in Listing
        BY WatermarkStays DEF Available, TypeOK, TablesTypeOK
    <2>2. seenAt[l] >= store.lastSyncedAt /\ l \in shelf'
        BY DEF Available
    <2>3. seenAt[l] \in Nat /\ seenAt'[l] \in Nat /\ store.lastSyncedAt \in Nat
        BY <2>1 DEF TypeOK, TablesTypeOK, StoreRow
    <2>4. QED
        BY <2>1, <2>2, <2>3 DEF Available
<1>2. Init => RowInv(sole) /\ StampInv(sole)
    BY RowInit, StampInit
<1>3. /\ TypeOK /\ RowInv(sole) /\ [Next]_vars => RowInv(sole)'
      /\ TypeOK /\ StampInv(sole) /\ [Next]_vars => StampInv(sole)'
    BY RowNext, StampNext
<1>4. QED
    BY <1>1, <1>2, <1>3, TypeCorrect, PTL DEF Spec, ShownUntilPublished

-----------------------------------------------------------------------------
(* The composed system: the jobs write as the page cache asks.             *)

\* What a job holds, or may still fetch, are listings.
HeldListings ==
    /\ job = [w \in Worker |-> job[w]]
    /\ \A w \in Worker :
        /\ {"window", "result"} \subseteq DOMAIN job[w]
        /\ job[w].window \subseteq Listing /\ job[w].result \subseteq Listing

Versioned == "inventoryVersion" \in DOMAIN store

WriterInv ==
    /\ shelf \subseteq Listing /\ market \subseteq Listing
    /\ exports \subseteq SUBSET Listing
    /\ Versioned
    /\ HeldListings

-----------------------------------------------------------------------------
(* Steps of the jobs, one kind of effect on the inventory at a time.       *)

\* The step moves neither rows nor the version.
Quiet ==
    /\ shelf' = shelf /\ unbumped' = unbumped
    /\ store'.inventoryVersion = store.inventoryVersion
    /\ Versioned'

LEMMA QuietWrite ==
    ASSUME WriterInv, Quiet, UNCHANGED cacheVars
    PROVE  Pages!InventoryWrite
BY DEF WriterInv, Quiet, cacheVars, Pages!InventoryWrite, Pages!cacheVars

\* Worker w moves to job j.
LEMMA HeldStep ==
    ASSUME HeldListings, NEW w \in Worker, NEW j,
           job' = [job EXCEPT ![w] = j],
           {"window", "result"} \subseteq DOMAIN j,
           j.window \subseteq Listing, j.result \subseteq Listing
    PROVE  HeldListings'
BY DEF HeldListings

\* update! of the status columns does not touch the version.
LEMMA SavedVersion ==
    ASSUME Versioned, NEW mem, NEW attrs, "inventoryVersion" \notin DOMAIN attrs,
           store' = Saved(mem, attrs)
    PROVE  Versioned' /\ store'.inventoryVersion = store.inventoryVersion
BY DEF Versioned, Saved

LEMMA SyncStepHeld ==
    ASSUME WriterInv, NEW w \in Worker, SyncStep(w) \/ SyncFault(w)
    PROVE  HeldListings' /\ market' \subseteq Listing /\ exports' \subseteq SUBSET Listing
<1>0. /\ HeldListings /\ job = [v \in Worker |-> job[v]]
      /\ {"window", "result"} \subseteq DOMAIN job[w]
      /\ job[w].window \subseteq Listing /\ job[w].result \subseteq Listing
      /\ market \subseteq Listing /\ exports \subseteq SUBSET Listing
    BY DEF WriterInv, HeldListings
<1>1. /\ {"window", "result"} \subseteq DOMAIN IdleJob
      /\ IdleJob.window = {} /\ IdleJob.result = {}
    BY DEF IdleJob
<1>2. ASSUME NEW pc, Goes(w, pc) PROVE HeldListings'
    <2> DEFINE j == [job[w] EXCEPT !.pc = pc]
    <2>1. /\ {"window", "result"} \subseteq DOMAIN j
          /\ j.window = job[w].window /\ j.result = job[w].result
        BY <1>0
    <2>2. job' = [job EXCEPT ![w] = j]
        BY <1>2 DEF Goes
    <2> HIDE DEF j
    <2>3. QED
        BY <1>0, <2>1, <2>2, HeldStep
<1>3. ASSUME job' = [job EXCEPT ![w] = IdleJob] PROVE HeldListings'
    BY <1>0, <1>1, <1>3, HeldStep
<1>4. CASE FindStore(w)
    <2> DEFINE j == [IdleJob EXCEPT !.pc = "found", !.mem = Copy(store)]
    <2>1. /\ {"window", "result"} \subseteq DOMAIN j
          /\ j.window = {} /\ j.result = {}
        BY <1>1
    <2>2. job' = [job EXCEPT ![w] = j]
        BY <1>4 DEF FindStore
    <2> HIDE DEF j
    <2>3. QED
        BY <1>0, <1>4, <2>1, <2>2, HeldStep DEF FindStore
<1>5. CASE MarkSyncing(w)
    <2> DEFINE j == [job[w] EXCEPT
                        !.pc = "fetch", !.startedAt = now',
                        !.mem = Assigned(@, SyncingAttrs)]
    <2>1. /\ {"window", "result"} \subseteq DOMAIN j
          /\ j.window = job[w].window /\ j.result = job[w].result
        BY <1>0
    <2>2. job' = [job EXCEPT ![w] = j]
        BY <1>0, <1>5 DEF MarkSyncing
    <2> HIDE DEF j
    <2>3. QED
        BY <1>0, <1>5, <2>1, <2>2, HeldStep DEF MarkSyncing
<1>6. CASE ProbePages(w)
    <2> DEFINE j == [job[w] EXCEPT !.pc = "paging", !.window = market]
    <2>1. /\ {"window", "result"} \subseteq DOMAIN j
          /\ j.window = market /\ j.result = job[w].result
        BY <1>0
    <2>2. job' = [job EXCEPT ![w] = j]
        BY <1>0, <1>6 DEF ProbePages
    <2> HIDE DEF j
    <2>3. QED
        BY <1>0, <1>6, <2>1, <2>2, HeldStep DEF ProbePages
<1>7. CASE FetchPages(w)
    <2>1. PICK S \in SUBSET job[w].window, complete \in BOOLEAN,
               coverage \in {"near_complete", "partial"} :
            job' = [job EXCEPT ![w] =
                        [@ EXCEPT !.pc = "upsert", !.window = {}, !.steady = TRUE,
                                  !.result = S, !.complete = complete,
                                  !.coverage = coverage, !.fetchedAt = now']]
        BY <1>7 DEF FetchPages
    <2> DEFINE j == [job[w] EXCEPT !.pc = "upsert", !.window = {}, !.steady = TRUE,
                                   !.result = S, !.complete = complete,
                                   !.coverage = coverage, !.fetchedAt = now']
    <2>2. /\ {"window", "result"} \subseteq DOMAIN j
          /\ j.window = {} /\ j.result = S
        BY <1>0
    <2>3. job' = [job EXCEPT ![w] = j]
        BY <1>0, <2>1
    <2> HIDE DEF j
    <2>4. QED
        BY <1>0, <1>7, <2>2, <2>3, HeldStep DEF FetchPages
<1>8. CASE TriggerExport(w)
    <2>1. exports' \subseteq SUBSET Listing
        BY <1>0, <1>8 DEF TriggerExport
    <2>2. PICK S \in exports' :
            job' = [job EXCEPT ![w] = [job[w] EXCEPT !.pc = "export", !.result = S]]
        BY <1>0, <1>8 DEF TriggerExport
    <2> DEFINE j == [job[w] EXCEPT !.pc = "export", !.result = S]
    <2>3. /\ {"window", "result"} \subseteq DOMAIN j
          /\ j.window = job[w].window /\ j.result = S /\ S \subseteq Listing
        BY <1>0, <2>1
    <2>4. job' = [job EXCEPT ![w] = j]
        BY <2>2
    <2> HIDE DEF j
    <2>5. HeldListings'
        BY <1>0, <2>3, <2>4, HeldStep
    <2>6. QED
        BY <1>0, <1>8, <2>1, <2>5 DEF TriggerExport
<1>9. CASE DownloadExport(w)
    <2> DEFINE j == [job[w] EXCEPT !.pc = "upsert", !.complete = TRUE, !.fetchedAt = now']
    <2>1. /\ {"window", "result"} \subseteq DOMAIN j
          /\ j.window = job[w].window /\ j.result = job[w].result
        BY <1>0
    <2>2. job' = [job EXCEPT ![w] = j]
        BY <1>0, <1>9 DEF DownloadExport
    <2> HIDE DEF j
    <2>3. QED
        BY <1>0, <1>9, <2>1, <2>2, HeldStep DEF DownloadExport
<1>10. CASE \/ Upsert(w) \/ NullifyStaleClicks(w) \/ DeleteStale(w)
            \/ DeleteStaleRefused(w) \/ FetchFails(w)
    BY <1>0, <1>2, <1>10
    DEF Upsert, NullifyStaleClicks, DeleteStale,
        DeleteStaleRefused, FetchFails
<1>11. CASE BumpVersion(w)
    <2> DEFINE j == [job[w] EXCEPT !.pc = "finish", !.mem = Copy(store')]
    <2>1. /\ {"window", "result"} \subseteq DOMAIN j
          /\ j.window = job[w].window /\ j.result = job[w].result
        BY <1>0
    <2>2. job' = [job EXCEPT ![w] = j]
        BY <1>0, <1>11 DEF BumpVersion
    <2> HIDE DEF j
    <2>3. QED
        BY <1>0, <1>11, <2>1, <2>2, HeldStep DEF BumpVersion
<1>12. CASE ClearProgress(w)
    <2> DEFINE j == [job[w] EXCEPT !.pc = "succeed", !.count = job'[w].count,
                                   !.mem.syncProgress = FALSE]
    <2>1. /\ {"window", "result"} \subseteq DOMAIN j
          /\ j.window = job[w].window /\ j.result = job[w].result
        BY <1>0
    <2>2. job' = [job EXCEPT ![w] = j]
        BY <1>0, <1>12 DEF ClearProgress
    <2> HIDE DEF j
    <2>3. QED
        BY <1>0, <1>12, <2>1, <2>2, HeldStep DEF ClearProgress
<1>13. CASE MarkSucceeded(w) \/ MarkFailed(w) \/ SyncCrash(w)
    BY <1>0, <1>3, <1>13 DEF MarkSucceeded, MarkFailed, SyncCrash
<1>14. QED
    BY <1>4, <1>5, <1>6, <1>7, <1>8, <1>9, <1>10, <1>11, <1>12, <1>13
    DEF SyncStep, SyncFault

\* Every step of a sync is a write the page cache allows.
LEMMA SyncStepWrites ==
    ASSUME WriterInv, NEW w \in Worker, SyncStep(w) \/ SyncFault(w),
           UNCHANGED cacheVars
    PROVE  Pages!InventoryWrite /\ Versioned' /\ shelf' \subseteq Listing
<1>0. /\ shelf \subseteq Listing /\ Versioned /\ job[w].result \subseteq Listing
      /\ UNCHANGED Pages!cacheVars
    BY DEF WriterInv, HeldListings, cacheVars, Pages!cacheVars
<1>1. ASSUME Quiet PROVE Pages!InventoryWrite /\ Versioned' /\ shelf' \subseteq Listing
    BY <1>0, <1>1, QuietWrite DEF Quiet
<1>2. CASE Upsert(w)
    BY <1>0, <1>2 DEF Upsert, InsertRows, Versioned, Pages!InventoryWrite
<1>3. CASE DeleteStale(w)
    BY <1>0, <1>3
    DEF DeleteStale, DeleteRows, Stale, Versioned, Pages!InventoryWrite
<1>4. CASE BumpVersion(w)
    <2>1. /\ store' = [store EXCEPT !.inventoryVersion = store.inventoryVersion + 1]
          /\ shelf' = shelf
        BY <1>4 DEF BumpVersion, Bumped
    <2>2. store'.inventoryVersion = store.inventoryVersion + 1 /\ Versioned'
        BY <1>0, <2>1 DEF Versioned
    <2>3. QED
        BY <1>0, <2>1, <2>2 DEF Pages!InventoryWrite
<1>5. CASE MarkSyncing(w)
    <2>1. "inventoryVersion" \notin DOMAIN SyncingAttrs
        BY DEF SyncingAttrs
    <2>2. Versioned' /\ store'.inventoryVersion = store.inventoryVersion
        BY <1>0, <1>5, <2>1, SavedVersion DEF MarkSyncing
    <2>3. QED
        BY <1>1, <1>5, <2>2 DEF MarkSyncing, Quiet
<1>6. CASE MarkSucceeded(w)
    <2>1. "inventoryVersion" \notin DOMAIN FinalAttrs(w)
        BY DEF FinalAttrs
    <2>2. Versioned' /\ store'.inventoryVersion = store.inventoryVersion
        BY <1>0, <1>6, <2>1, SavedVersion DEF MarkSucceeded
    <2>3. QED
        BY <1>1, <1>6, <2>2 DEF MarkSucceeded, Quiet
<1>7. CASE ProbePages(w) \/ FetchPages(w) \/ ClearProgress(w)
           \/ MarkFailed(w)
    <2>1. Versioned' /\ store'.inventoryVersion = store.inventoryVersion
        BY <1>0, <1>7
        DEF ProbePages, FetchPages, ClearProgress, MarkFailed,
            Versioned
    <2>2. QED
        BY <1>1, <1>7, <2>1
        DEF ProbePages, FetchPages, ClearProgress, MarkFailed, Quiet
<1>8. CASE \/ FindStore(w) \/ TriggerExport(w) \/ DownloadExport(w)
           \/ NullifyStaleClicks(w) \/ DeleteStaleRefused(w)
           \/ FetchFails(w) \/ SyncCrash(w)
    BY <1>0, <1>1, <1>8
    DEF FindStore, TriggerExport, DownloadExport,
        NullifyStaleClicks, DeleteStaleRefused, FetchFails,
        SyncCrash, tables, Quiet, Versioned
<1>9. QED
    BY <1>2, <1>3, <1>4, <1>5, <1>6, <1>7, <1>8 DEF SyncStep, SyncFault

\* And so is every step of the poller.
LEMMA PollStepWrites ==
    ASSUME WriterInv, Sales!PollStep \/ Sales!PollFault, UNCHANGED cacheVars
    PROVE  Pages!InventoryWrite /\ Versioned' /\ shelf' \subseteq Listing
<1>0. shelf \subseteq Listing /\ Versioned /\ UNCHANGED Pages!cacheVars
    BY DEF WriterInv, cacheVars, Pages!cacheVars
<1>1. ASSUME Quiet PROVE Pages!InventoryWrite /\ Versioned' /\ shelf' \subseteq Listing
    BY <1>0, <1>1, QuietWrite DEF Quiet
<1>2. CASE Sales!DeleteListings
    BY <1>0, <1>2 DEF Sales!DeleteListings, Sales!DeleteRows, Versioned,
                      Pages!InventoryWrite
<1>3. CASE Sales!UpdateStoreState
    <2>1. PICK n :
            store' = [store EXCEPT !.inventoryVersion = store.inventoryVersion + 1,
                                   !.totalListings = n]
        BY <1>3 DEF Sales!UpdateStoreState, Sales!Bumped
    <2>2. store'.inventoryVersion = store.inventoryVersion + 1 /\ Versioned'
        BY <1>0, <2>1 DEF Versioned
    <2>3. QED
        BY <1>0, <1>3, <2>2 DEF Sales!UpdateStoreState, Pages!InventoryWrite
<1>4. CASE \/ Sales!FetchFails \/ Sales!DeleteRefused \/ Sales!AdvanceCursor
           \/ Sales!MarkSuccess
    <2>1. Versioned' /\ store'.inventoryVersion = store.inventoryVersion
        BY <1>0, <1>4
        DEF Sales!FetchFails, Sales!DeleteRefused, Sales!PollFails,
            Sales!AdvanceCursor, Sales!MarkSuccess, Versioned
    <2>2. QED
        BY <1>1, <1>4, <2>1
        DEF Sales!FetchFails, Sales!DeleteRefused, Sales!AdvanceCursor,
            Sales!MarkSuccess, Quiet
<1>5. CASE \/ Sales!PollStart \/ Sales!FetchOrders \/ Sales!Deduplicate
           \/ Sales!FindListings \/ Sales!Record \/ Sales!EnqueueCuration
           \/ Sales!PollCrash
    BY <1>0, <1>1, <1>5
    DEF Sales!PollStart, Sales!FetchOrders, Sales!Deduplicate, Sales!FindListings,
        Sales!Record, Sales!EnqueueCuration, Sales!PollCrash, Sales!tables, Quiet,
        Versioned
<1>6. QED
    BY <1>2, <1>3, <1>4, <1>5 DEF Sales!PollStep, Sales!PollFault

-----------------------------------------------------------------------------
(* The composition.                                                        *)

LEMMA WriterInit == StorefrontInit => Pages!Init /\ WriterInv
<1> SUFFICES ASSUME StorefrontInit PROVE Pages!Init /\ WriterInv
    OBVIOUS
<1>1. Pages!TablesInit
    BY DEF StorefrontInit, TablesInit, NewStoreRow, Pages!TablesInit, Pages!NewStoreRow,
           Cardinality, Pages!Cardinality
<1>2. Versioned
    BY DEF StorefrontInit, TablesInit, NewStoreRow, Versioned
<1>3. HeldListings
    BY DEF StorefrontInit, SyncInit, IdleJob, HeldListings
<1>4. QED
    BY <1>1, <1>2, <1>3 DEF StorefrontInit, Pages!Init, WriterInv

LEMMA WriterStep ==
    WriterInv /\ [StorefrontNext]_storefrontVars => WriterInv' /\ [Pages!Next]_(Pages!vars)
<1> SUFFICES ASSUME WriterInv, [StorefrontNext]_storefrontVars
             PROVE  WriterInv' /\ [Pages!Next]_(Pages!vars)
    OBVIOUS
<1>1. ASSUME NEW o \in Order, Sale(o)
      PROVE  WriterInv' /\ [Pages!Next]_(Pages!vars)
    <2>1. HeldListings' /\ market' \subseteq Listing
        <3>1. MarketBecomes(market \ Items[o]) /\ market \subseteq Listing /\ HeldListings
            BY <1>1 DEF Sale, WriterInv
        <3>2. QED
            BY <3>1 DEF MarketBecomes, HeldListings
    <2>2. UNCHANGED tables /\ UNCHANGED Pages!vars /\ exports' = exports
        BY <1>1
        DEF Sale, Sales!PlaceOrder, Sales!tables, tables, cacheVars, Pages!vars,
            Pages!tables, Pages!cacheVars
    <2>3. QED
        BY <2>1, <2>2 DEF WriterInv, Versioned, tables
<1>2. ASSUME NEW l \in Clickable, Shopper(l)
      PROVE  WriterInv' /\ [Pages!Next]_(Pages!vars)
    <2>1. /\ Quiet /\ UNCHANGED cacheVars
          /\ UNCHANGED <<market, exports, job>>
        BY <1>2 DEF Shopper, ShopperClicks, Click, Quiet, WriterInv, Versioned, syncVars
    <2>2. WriterInv'
        BY <2>1 DEF Quiet, WriterInv, HeldListings
    <2>3. QED
        BY <2>1, <2>2, QuietWrite DEF Pages!Next
<1>3. CASE Poller
    <2>1. /\ UNCHANGED cacheVars /\ UNCHANGED <<market, exports, job>>
          /\ Sales!PollStep \/ Sales!PollFault
        BY <1>3 DEF Poller, syncVars
    <2>2. Pages!InventoryWrite /\ Versioned' /\ shelf' \subseteq Listing
        BY <2>1, PollStepWrites
    <2>3. WriterInv'
        BY <2>1, <2>2 DEF WriterInv, HeldListings
    <2>4. QED
        BY <2>2, <2>3 DEF Pages!Next
<1>4. ASSUME NEW w \in Worker, Syncer(w)
      PROVE  WriterInv' /\ [Pages!Next]_(Pages!vars)
    <2>1. UNCHANGED cacheVars /\ (SyncStep(w) \/ SyncFault(w))
        BY <1>4 DEF Syncer
    <2>2. Pages!InventoryWrite /\ Versioned' /\ shelf' \subseteq Listing
        BY <2>1, SyncStepWrites
    <2>3. WriterInv'
        BY <2>1, <2>2, SyncStepHeld DEF WriterInv
    <2>4. QED
        BY <2>2, <2>3 DEF Pages!Next
<1>5. CASE PageServer
    <2>1. Available \in SUBSET shelf
        BY DEF Available
    <2>2. Pages!CacheStep(Available) /\ UNCHANGED <<market, exports, job>>
        BY <1>5 DEF PageServer, syncVars
    <2>3. shelf' = shelf /\ store' = store
        BY <2>2
        DEF Pages!CacheStep, Pages!LoadStore, Pages!FetchHit, Pages!FetchMiss,
            Pages!BuildPage, Pages!WritePage, Pages!Serve, Pages!CurateStart,
            Pages!CurateSurface, Pages!Prewarm, Pages!Abandon, Pages!Evict,
            Pages!NewDay, Pages!tables
    <2>4. WriterInv'
        BY <2>2, <2>3 DEF WriterInv, Versioned, HeldListings
    <2>5. QED
        BY <2>1, <2>2, <2>4 DEF Pages!Next
<1>6. CASE UNCHANGED storefrontVars
    BY <1>6
    DEF storefrontVars, tables, cacheVars, syncVars, WriterInv, Versioned, HeldListings,
        Pages!vars, Pages!tables, Pages!cacheVars
<1>7. QED
    BY <1>1, <1>2, <1>3, <1>4, <1>5, <1>6 DEF StorefrontNext

\* SoldListingRemover and InventoryUpdater, in any interleaving and with any
\* faults, give the page cache the inventory writer it asks for.
THEOREM JobsImplementPageCache == StorefrontSpec => ImplementsPageCache
BY WriterInit, WriterStep, PTL DEF StorefrontSpec, ImplementsPageCache, Pages!Spec

-----------------------------------------------------------------------------
(* The page cache on its own, under any writer it can live with: for every  *)
(* number of builders, days and listings, if writers move the inventory    *)
(* version after they delete, no page of the current version shows a       *)
(* record whose deletion is complete.                                      *)
(*                                                                         *)
(* CachedPagesAreFresh is not inductive: a builder carries the version it  *)
(* read at first and a page it read later to a write in between which the  *)
(* inventory moves.  CacheInv says that neither a builder nor an entry is  *)
(* ever ahead of the store row, and that what a builder carries is fresh.  *)

CacheType ==
    /\ shelf \in SUBSET Listing
    /\ store.inventoryVersion \in Nat
    /\ Pages!CacheTypeOK

\* The builders that hold a page.
Holding(b) == build[b].pc \in {"write", "serve", "prewarm"}

Kept(version, page) ==
    version <= store.inventoryVersion /\ Pages!FreshPage(version, page)

CacheInv ==
    /\ CacheType
    /\ \A e \in cache : Kept(e.version, e.page)
    /\ \A b \in Builder :
        /\ build[b].version <= store.inventoryVersion
        /\ Holding(b) => Pages!FreshPage(build[b].version, build[b].page)

-----------------------------------------------------------------------------
(* What stays fresh.                                                       *)

\* What is fresh stays fresh whatever an inventory writer does: a version that
\* moves leaves it behind, one that stands still remembers what is deleted.
LEMMA WriterKeepsFresh ==
    ASSUME Pages!InventoryWrite, store.inventoryVersion \in Nat,
           NEW version \in Nat, NEW page, Kept(version, page)
    PROVE  Kept(version, page)'
<1>1. CASE /\ store'.inventoryVersion = store.inventoryVersion
           /\ shelf \ shelf' \subseteq unbumped'
           /\ unbumped \ shelf' \subseteq unbumped'
    BY <1>1 DEF Kept, Pages!FreshPage
<1>2. CASE store'.inventoryVersion = store.inventoryVersion + 1
    BY <1>2 DEF Kept, Pages!FreshPage
<1>3. QED
    BY <1>1, <1>2 DEF Pages!InventoryWrite

\* A page of rows that exist is fresh under every version.
LEMMA RowsAreFresh ==
    ASSUME NEW S \in SUBSET shelf, NEW version
    PROVE  Pages!FreshPage(version, S)
BY DEF Pages!FreshPage

\* The cache operation keeps the types.
LEMMA WriteEntryType ==
    ASSUME CacheType, NEW b \in Builder, NEW day \in Nat, Pages!WriteEntry(b, day)
    PROVE  cache' \in SUBSET Pages!CacheEntry
BY DEF CacheType, Pages!CacheTypeOK, Pages!WriteEntry, Pages!CacheEntry

\* Writing what a builder holds keeps every entry fresh.
LEMMA WriteEntryFresh ==
    ASSUME CacheInv, NEW b \in Builder, NEW day \in Nat, Holding(b),
           Pages!WriteEntry(b, day), UNCHANGED Pages!tables
    PROVE  \A e \in cache' : Kept(e.version, e.page)'
<1> SUFFICES ASSUME NEW e \in cache' PROVE Kept(e.version, e.page)'
    OBVIOUS
<1>1. Kept(e.version, e.page)
    <2>1. CASE e \in cache
        BY <2>1 DEF CacheInv
    <2>2. CASE e = [day |-> day, version |-> build[b].version, page |-> build[b].page]
        BY <2>2 DEF CacheInv, Kept
    <2>3. QED
        BY <2>1, <2>2 DEF Pages!WriteEntry
<1>2. QED
    BY <1>1 DEF Kept, Pages!FreshPage, Pages!tables

-----------------------------------------------------------------------------
(* The builders.                                                           *)

LEMMA CacheInvInit == Pages!Init => CacheInv
<1> SUFFICES ASSUME Pages!Init PROVE CacheInv
    OBVIOUS
<1>1. CacheType
    BY DEF Pages!Init, Pages!TablesInit, Pages!NewStoreRow, Pages!CacheInit, CacheType,
           Pages!CacheTypeOK,
           Pages!IdleBuild, Pages!BuildPc
<1>2. cache = {} /\ \A b \in Builder : build[b] = Pages!IdleBuild
    BY DEF Pages!Init, Pages!CacheInit
<1>3. store.inventoryVersion = 0
    BY DEF Pages!Init, Pages!TablesInit, Pages!NewStoreRow
<1>4. QED
    BY <1>1, <1>2, <1>3 DEF CacheInv, Holding, Pages!IdleBuild

\* A step of the page server that only moves builder b: the builder does not
\* get ahead of the store row, and what it holds after the step is fresh.
LEMMA BuilderStep ==
    ASSUME CacheInv, NEW b \in Builder,
           NEW r \in [pc : Pages!BuildPc, version : Nat, day : Nat, page : SUBSET Listing],
           build' = [build EXCEPT ![b] = r],
           r.version <= store.inventoryVersion,
           r.pc \in {"write", "serve", "prewarm"} => Pages!FreshPage(r.version, r.page),
           shelf' = shelf, store' = store, unbumped' = unbumped, today' = today,
           cache' \in SUBSET Pages!CacheEntry,
           \A e \in cache' : Kept(e.version, e.page)'
    PROVE  CacheInv'
<1>1. CacheType'
    BY DEF CacheInv, CacheType, Pages!CacheTypeOK
<1>2. ASSUME NEW c \in Builder
      PROVE  /\ (build[c].version <= store.inventoryVersion)'
             /\ Holding(c)' => Pages!FreshPage(build[c].version, build[c].page)'
    <2>1. CASE c = b
        BY <2>1 DEF CacheInv, CacheType, Pages!CacheTypeOK, Holding, Pages!FreshPage
    <2>2. CASE c # b
        BY <2>2 DEF CacheInv, CacheType, Pages!CacheTypeOK, Holding, Pages!FreshPage
    <2>3. QED
        BY <2>1, <2>2
<1>3. QED
    BY <1>1, <1>2 DEF CacheInv

\* The entries of an untouched cache stay fresh while the tables do not move.
LEMMA CacheUntouched ==
    ASSUME CacheInv, cache' \subseteq cache,
           shelf' = shelf, store' = store, unbumped' = unbumped
    PROVE  /\ cache' \in SUBSET Pages!CacheEntry
           /\ \A e \in cache' : Kept(e.version, e.page)'
BY DEF CacheInv, CacheType, Pages!CacheTypeOK, Kept, Pages!FreshPage

LEMMA CacheStepInv ==
    ASSUME CacheInv, NEW S \in SUBSET shelf, Pages!CacheStep(S)
    PROVE  CacheInv'
<1> DEFINE Rows == [pc : Pages!BuildPc, version : Nat, day : Nat, page : SUBSET Listing]
<1> USE DEF Pages!BuildPc
<1>0. /\ CacheType
      /\ \A b \in Builder : /\ build[b] \in Rows
                            /\ build[b].version <= store.inventoryVersion
                            /\ Holding(b) => Pages!FreshPage(build[b].version, build[b].page)
    BY DEF CacheInv, CacheType, Pages!CacheTypeOK
<1>1. ASSUME NEW b \in Builder, Pages!LoadStore(b) PROVE CacheInv'
    <2> DEFINE r == [Pages!IdleBuild EXCEPT !.pc = "lookup",
                                       !.version = store.inventoryVersion]
    <2>1. r \in Rows /\ r.version = store.inventoryVersion /\ r.pc = "lookup"
        BY <1>0 DEF Pages!IdleBuild, CacheType
    <2>2. /\ build' = [build EXCEPT ![b] = r] /\ cache' \subseteq cache
          /\ shelf' = shelf /\ store' = store /\ unbumped' = unbumped
          /\ today' = today
        BY <1>1 DEF Pages!LoadStore, Pages!tables
    <2>3. /\ r.version <= store.inventoryVersion
          /\ r.pc \notin {"write", "serve", "prewarm"}
        BY <1>0, <2>1 DEF CacheType
    <2>4. /\ cache' \in SUBSET Pages!CacheEntry
          /\ \A e \in cache' : Kept(e.version, e.page)'
        BY <2>2, CacheUntouched
    <2> HIDE DEF r
    <2>5. QED
        BY <2>1, <2>2, <2>3, <2>4, BuilderStep
<1>2. ASSUME NEW b \in Builder, Pages!FetchHit(b) PROVE CacheInv'
    <2>1. PICK e \in cache :
            /\ Pages!HasKey(e, today, build[b].version)
            /\ build' = [build EXCEPT ![b].pc = "serve", ![b].page = e.page]
        BY <1>2 DEF Pages!FetchHit
    <2> DEFINE r == [build[b] EXCEPT !.pc = "serve", !.page = e.page]
    <2>2. r \in Rows /\ r.version = build[b].version /\ r.page = e.page
        BY <1>0, <2>1 DEF CacheType, Pages!CacheTypeOK, Pages!CacheEntry
    <2>3. Pages!FreshPage(r.version, r.page)
        BY <2>1, <2>2 DEF CacheInv, Kept, Pages!HasKey
    <2>4. build' = [build EXCEPT ![b] = r]
        BY <1>0, <2>1 DEF CacheType, Pages!CacheTypeOK
    <2>5. QED
        BY <1>0, <1>2, <2>2, <2>3, <2>4, CacheUntouched, BuilderStep
        DEF Pages!FetchHit, Pages!tables
<1>3. ASSUME NEW b \in Builder, Pages!FetchMiss(b) PROVE CacheInv'
    <2> DEFINE r == [build[b] EXCEPT !.pc = "miss", !.day = today]
    <2>1. r \in Rows /\ r.version = build[b].version /\ r.pc = "miss"
        BY <1>0 DEF CacheType, Pages!CacheTypeOK
    <2>2. build' = [build EXCEPT ![b] = r]
        BY <1>0, <1>3 DEF Pages!FetchMiss, CacheType, Pages!CacheTypeOK
    <2>3. QED
        BY <1>0, <1>3, <2>1, <2>2, CacheUntouched, BuilderStep
        DEF Pages!FetchMiss, Pages!tables
<1>4. ASSUME NEW b \in Builder, Pages!BuildPage(b, S) PROVE CacheInv'
    <2> DEFINE r == [build[b] EXCEPT !.pc = "write", !.page = S]
    <2>1. r \in Rows /\ r.version = build[b].version /\ r.page = S
        BY <1>0 DEF CacheType, Pages!CacheTypeOK
    <2>2. build' = [build EXCEPT ![b] = r]
        BY <1>0, <1>4 DEF Pages!BuildPage, CacheType, Pages!CacheTypeOK
    <2>3. Pages!FreshPage(r.version, r.page)
        BY <2>1, RowsAreFresh
    <2>4. QED
        BY <1>0, <1>4, <2>1, <2>2, <2>3, CacheUntouched, BuilderStep
        DEF Pages!BuildPage, Pages!tables
<1>5. ASSUME NEW b \in Builder, Pages!WritePage(b) PROVE CacheInv'
    <2> DEFINE r == [build[b] EXCEPT !.pc = "serve"]
    <2>1. /\ r \in Rows /\ r.version = build[b].version /\ r.page = build[b].page
          /\ build[b].day \in Nat
        BY <1>0
    <2>2. build' = [build EXCEPT ![b] = r]
        BY <1>0, <1>5 DEF Pages!WritePage, CacheType, Pages!CacheTypeOK
    <2>3. /\ Holding(b) /\ Pages!WriteEntry(b, build[b].day)
          /\ UNCHANGED Pages!tables /\ today' = today
        BY <1>5 DEF Pages!WritePage, Holding
    <2>4. Pages!FreshPage(r.version, r.page)
        BY <1>0, <2>1, <2>3
    <2>5. /\ cache' \in SUBSET Pages!CacheEntry
          /\ \A e \in cache' : Kept(e.version, e.page)'
        BY <1>0, <2>1, <2>3, WriteEntryType, WriteEntryFresh
    <2>6. QED
        BY <1>0, <2>1, <2>2, <2>3, <2>4, <2>5, BuilderStep DEF Pages!tables
<1>6. ASSUME NEW b \in Builder, Pages!Serve(b) \/ Pages!Abandon(b) PROVE CacheInv'
    <2>1. /\ Pages!IdleBuild \in Rows
          /\ Pages!IdleBuild.version = 0 /\ Pages!IdleBuild.pc = "idle"
        BY DEF Pages!IdleBuild
    <2>2. QED
        BY <1>0, <1>6, <2>1, CacheUntouched, BuilderStep
        DEF Pages!Serve, Pages!Abandon, Pages!tables, CacheType
<1>7. ASSUME NEW b \in Builder, Pages!CurateStart(b) PROVE CacheInv'
    <2> DEFINE r == [Pages!IdleBuild EXCEPT !.pc = "curate",
                                       !.version = store.inventoryVersion]
    <2>1. r \in Rows /\ r.version = store.inventoryVersion /\ r.pc = "curate"
        BY <1>0 DEF Pages!IdleBuild, CacheType
    <2>2. /\ build' = [build EXCEPT ![b] = r] /\ cache' \subseteq cache
          /\ shelf' = shelf /\ store' = store /\ unbumped' = unbumped
          /\ today' = today
        BY <1>7 DEF Pages!CurateStart, Pages!tables
    <2>3. /\ r.version <= store.inventoryVersion
          /\ r.pc \notin {"write", "serve", "prewarm"}
        BY <1>0, <2>1 DEF CacheType
    <2>4. /\ cache' \in SUBSET Pages!CacheEntry
          /\ \A e \in cache' : Kept(e.version, e.page)'
        BY <2>2, CacheUntouched
    <2> HIDE DEF r
    <2>5. QED
        BY <2>1, <2>2, <2>3, <2>4, BuilderStep
<1>8. ASSUME NEW b \in Builder, Pages!CurateSurface(b, S) PROVE CacheInv'
    <2> DEFINE r == [build[b] EXCEPT !.pc = "prewarm", !.page = S]
    <2>1. r \in Rows /\ r.version = build[b].version /\ r.page = S
        BY <1>0 DEF CacheType, Pages!CacheTypeOK
    <2>2. build' = [build EXCEPT ![b] = r]
        BY <1>0, <1>8 DEF Pages!CurateSurface, CacheType, Pages!CacheTypeOK
    <2>3. Pages!FreshPage(r.version, r.page)
        BY <2>1, RowsAreFresh
    <2>4. QED
        BY <1>0, <1>8, <2>1, <2>2, <2>3, CacheUntouched, BuilderStep
        DEF Pages!CurateSurface, Pages!tables
<1>9. ASSUME NEW b \in Builder, Pages!Prewarm(b) PROVE CacheInv'
    <2>1. /\ Pages!IdleBuild \in Rows
          /\ Pages!IdleBuild.version = 0 /\ Pages!IdleBuild.pc = "idle"
        BY DEF Pages!IdleBuild
    <2>2. Holding(b) /\ Pages!WriteEntry(b, today) /\ UNCHANGED Pages!tables /\ today' = today
        BY <1>9 DEF Pages!Prewarm, Holding
    <2>3. /\ cache' \in SUBSET Pages!CacheEntry
          /\ \A e \in cache' : Kept(e.version, e.page)'
        BY <1>0, <2>2, WriteEntryType, WriteEntryFresh DEF CacheType, Pages!CacheTypeOK
    <2>4. /\ build' = [build EXCEPT ![b] = Pages!IdleBuild]
          /\ shelf' = shelf /\ store' = store /\ unbumped' = unbumped
          /\ today' = today
        BY <1>9 DEF Pages!Prewarm, Pages!tables
    <2>5. /\ Pages!IdleBuild.version <= store.inventoryVersion
          /\ Pages!IdleBuild.pc \notin {"write", "serve", "prewarm"}
        BY <1>0, <2>1 DEF CacheType
    <2>6. QED
        BY <2>1, <2>3, <2>4, <2>5, BuilderStep
<1>10. CASE Pages!Evict
    <2>1. cache' \subseteq cache
        BY <1>10 DEF Pages!Evict
    <2>2. QED
        BY <1>10, <2>1, CacheUntouched
        DEF Pages!Evict, Pages!tables, CacheInv, CacheType, Pages!CacheTypeOK, Holding,
            Pages!FreshPage
<1>11. CASE Pages!NewDay
    <2>1. today' \in Nat
        BY <1>0, <1>11 DEF Pages!NewDay, CacheType, Pages!CacheTypeOK
    <2>2. QED
        BY <1>11, <2>1, CacheUntouched
        DEF Pages!NewDay, Pages!tables, CacheInv, CacheType, Pages!CacheTypeOK, Holding,
            Pages!FreshPage
<1>12. QED
    BY <1>1, <1>2, <1>3, <1>4, <1>5, <1>6, <1>7, <1>8, <1>9, <1>10, <1>11
    DEF Pages!CacheStep

LEMMA InventoryWriteInv ==
    ASSUME CacheInv, Pages!InventoryWrite
    PROVE  CacheInv'
<1>1. CacheType' /\ store.inventoryVersion \in Nat
    BY DEF CacheInv, CacheType, Pages!CacheTypeOK, Pages!InventoryWrite, Pages!cacheVars
<1>2. \A e \in cache' : Kept(e.version, e.page)'
    BY WriterKeepsFresh
    DEF CacheInv, CacheType, Pages!CacheTypeOK, Pages!CacheEntry, Pages!InventoryWrite,
        Pages!cacheVars
<1>3. ASSUME NEW b \in Builder
      PROVE  /\ (build[b].version <= store.inventoryVersion)'
             /\ Holding(b)' => Pages!FreshPage(build[b].version, build[b].page)'
    <2>1. /\ build' = build
          /\ build[b].version \in Nat
          /\ build[b].version <= store.inventoryVersion
        BY DEF CacheInv, CacheType, Pages!CacheTypeOK, Pages!InventoryWrite, Pages!cacheVars
    <2>2. (build[b].version <= store.inventoryVersion)'
        BY <1>1, <2>1 DEF Pages!InventoryWrite
    <2>3. CASE Holding(b)
        BY <2>1, <2>2, <2>3, WriterKeepsFresh DEF CacheInv, Kept, CacheType
    <2>4. QED
        BY <2>1, <2>2, <2>3 DEF Holding
<1>4. QED
    BY <1>1, <1>2, <1>3 DEF CacheInv

LEMMA CacheStutterInv ==
    ASSUME CacheInv, UNCHANGED Pages!vars
    PROVE  CacheInv'
BY DEF CacheInv, CacheType, Pages!CacheTypeOK, Kept, Pages!FreshPage, Holding,
       Pages!vars, Pages!tables, Pages!cacheVars

THEOREM CacheInvariant == Pages!Spec => []CacheInv
<1>1. CacheInv /\ [Pages!Next]_(Pages!vars) => CacheInv'
    BY CacheStepInv, InventoryWriteInv, CacheStutterInv DEF Pages!Next
<1>2. QED
    BY CacheInvInit, <1>1, PTL DEF Pages!Spec

-----------------------------------------------------------------------------
(* The theorems about the page cache.                                      *)

\* However requests and curation interleave with the jobs, a cached page of
\* the current version shows no record whose deletion is complete.
THEOREM CacheStaysFresh == Pages!Spec => []Pages!CachedPagesAreFresh
<1>1. CacheInv => Pages!CachedPagesAreFresh
    BY DEF CacheInv, Kept, Pages!CachedPagesAreFresh
<1>2. QED
    BY CacheInvariant, <1>1, PTL

\* Nor does the page a request answers with, found or just built.
THEOREM AnswersAreFresh == Pages!Spec => []Pages!ServedPagesAreFresh
<1>1. CacheInv => Pages!ServedPagesAreFresh
    BY DEF CacheInv, Holding, Pages!ServedPagesAreFresh
<1>2. QED
    BY CacheInvariant, <1>1, PTL

-----------------------------------------------------------------------------
(* What the page cache promises of its own holds in the composition.       *)

\* StoresController#show and CacheManager beside the jobs: no page of the
\* current version shows a record whose deletion is complete.
THEOREM CachedPagesStayFresh == StorefrontSpec => []CachedPagesAreFresh
BY CacheStaysFresh, JobsImplementPageCache, PTL DEF CachedPagesAreFresh, ImplementsPageCache

\* And no request answers with one.
THEOREM AnswersStayFresh == StorefrontSpec => []ServedPagesAreFresh
BY AnswersAreFresh, JobsImplementPageCache, PTL DEF ServedPagesAreFresh, ImplementsPageCache

-----------------------------------------------------------------------------
(* Versions.                                                               *)

\* The counters of faults count, and the jobs have a program counter.
CountersInv ==
    /\ faults \in Nat /\ syncFaults \in Nat
    /\ "pc" \in DOMAIN poll
    /\ job = [w \in Worker |-> job[w]] /\ \A w \in Worker : "pc" \in DOMAIN job[w]

LEMMA CountersInit == StorefrontInit => CountersInv /\ EveryDeletionIsVersioned
BY DEF StorefrontInit, TablesInit, Sales!SalesInit, Sales!IdlePoll, SyncInit, IdleJob,
       CountersInv, EveryDeletionIsVersioned

LEMMA CountersStep == CountersInv /\ [StorefrontNext]_storefrontVars => CountersInv'
<1> SUFFICES ASSUME CountersInv, [StorefrontNext]_storefrontVars PROVE CountersInv'
    OBVIOUS
<1>1. ASSUME NEW o \in Order, Sale(o) PROVE CountersInv'
    BY <1>1 DEF Sale, Sales!PlaceOrder, MarketBecomes, CountersInv
<1>2. CASE (\E l \in Clickable : Shopper(l)) \/ PageServer \/ UNCHANGED storefrontVars
    BY <1>2
    DEF Shopper, ShopperClicks, PageServer, storefrontVars, salesVars, syncVars, CountersInv
<1>3. CASE Poller
    <2>1. "pc" \in DOMAIN Sales!IdlePoll
        BY DEF Sales!IdlePoll
    <2>2. CASE \/ Sales!PollStart \/ Sales!DeleteRefused \/ Sales!EnqueueCuration
               \/ Sales!PollFault
        <3>1. "pc" \in DOMAIN poll'
            BY <2>1, <2>2
            DEF Sales!PollStart, Sales!DeleteRefused, Sales!EnqueueCuration,
                Sales!PollFault, Sales!FetchFails, Sales!PollCrash, Sales!PollFails
        <3>2. faults' \in Nat
            BY <2>2
            DEF Sales!PollStart, Sales!DeleteRefused, Sales!EnqueueCuration,
                Sales!PollFault, Sales!FetchFails, Sales!PollCrash, CountersInv
        <3>3. QED
            BY <1>3, <3>1, <3>2 DEF Poller, syncVars, CountersInv
    <2>3. CASE \/ Sales!FetchOrders \/ Sales!Deduplicate \/ Sales!FindListings
               \/ Sales!DeleteListings \/ Sales!UpdateStoreState
               \/ Sales!AdvanceCursor \/ Sales!MarkSuccess
        <3>1. "pc" \in DOMAIN poll' /\ faults' = faults
            BY <2>1, <2>3
            DEF Sales!FetchOrders, Sales!Deduplicate, Sales!FindListings,
                Sales!DeleteListings, Sales!UpdateStoreState, Sales!AdvanceCursor,
                Sales!MarkSuccess, CountersInv
        <3>2. QED
            BY <1>3, <3>1 DEF Poller, syncVars, CountersInv
    <2>4. CASE Sales!Record
        <3>1. DOMAIN poll' = DOMAIN poll /\ faults' = faults
            BY <2>4 DEF Sales!Record
        <3>2. QED
            BY <1>3, <3>1 DEF Poller, syncVars, CountersInv
    <2>5. QED
        BY <1>3, <2>2, <2>3, <2>4 DEF Poller, Sales!PollStep
<1>4. ASSUME NEW w \in Worker, Syncer(w) PROVE CountersInv'
    <2>0. "pc" \in DOMAIN job[w] /\ "pc" \in DOMAIN IdleJob
        BY DEF CountersInv, IdleJob
    <2>1. ASSUME NEW j, "pc" \in DOMAIN j, job' = [job EXCEPT ![w] = j],
                 syncFaults' \in Nat
          PROVE  CountersInv'
        BY <1>4, <2>1 DEF Syncer, salesVars, CountersInv
    <2>2. CASE SyncFault(w)
        <3>1. syncFaults' \in Nat
            BY <2>2 DEF SyncFault, FetchFails, SyncCrash, CountersInv
        <3>2. CASE FetchFails(w)
            <4>1. job' = [job EXCEPT ![w] = [job[w] EXCEPT !.pc = "failing"]]
                BY <3>2 DEF FetchFails, Goes
            <4>2. "pc" \in DOMAIN [job[w] EXCEPT !.pc = "failing"]
                BY <2>0
            <4>3. QED
                BY <2>1, <3>1, <4>1, <4>2
        <3>3. CASE SyncCrash(w)
            BY <2>0, <2>1, <3>1, <3>3 DEF SyncCrash
        <3>4. QED
            BY <2>2, <3>2, <3>3 DEF SyncFault
    <2>3. CASE MarkSucceeded(w) \/ MarkFailed(w)
        BY <2>0, <2>1, <2>3 DEF MarkSucceeded, MarkFailed, CountersInv
    <2>4. CASE SyncStep(w) /\ ~MarkSucceeded(w) /\ ~MarkFailed(w)
        <3> USE DEF SyncStep, FindStore, MarkSyncing, ProbePages,
                FetchPages, TriggerExport, DownloadExport, Upsert,
                NullifyStaleClicks, DeleteStale, DeleteStaleRefused,
                BumpVersion, ClearProgress, Goes, CountersInv
        <3>1. "pc" \in DOMAIN job'[w]
            BY <2>0, <2>4
        <3>2. job' = [job EXCEPT ![w] = job'[w]] /\ syncFaults' = syncFaults
            BY <2>4
        <3>3. QED
            BY <2>1, <3>1, <3>2
    <2>5. QED
        BY <1>4, <2>2, <2>3, <2>4 DEF Syncer
<1>5. QED
    BY <1>1, <1>2, <1>3, <1>4 DEF StorefrontNext

\* Nobody else moves a job away from between its two statements.
LEMMA VersionedStep ==
    CountersInv /\ EveryDeletionIsVersioned /\ [StorefrontNext]_storefrontVars => EveryDeletionIsVersioned'
<1> SUFFICES ASSUME CountersInv, EveryDeletionIsVersioned, [StorefrontNext]_storefrontVars
             PROVE  EveryDeletionIsVersioned'
    OBVIOUS
<1>0. CountersInv'
    BY CountersStep
<1>1. ASSUME unbumped' \subseteq unbumped,
             poll.pc = "bump" => poll'.pc = "bump",
             \A w \in Worker : job[w].pc = "bump" => job'[w].pc = "bump",
             faults' = faults /\ syncFaults' = syncFaults
      PROVE  EveryDeletionIsVersioned'
    BY <1>1 DEF EveryDeletionIsVersioned
<1>2. ASSUME NEW o \in Order, Sale(o) PROVE EveryDeletionIsVersioned'
    <2>1. \A w \in Worker : job[w].pc = "bump" => job'[w].pc = "bump"
        BY <1>2 DEF Sale, MarketBecomes, CountersInv
    <2>2. QED
        BY <1>1, <1>2, <2>1 DEF Sale, Sales!PlaceOrder, Sales!tables
<1>3. CASE (\E l \in Clickable : Shopper(l)) \/ UNCHANGED storefrontVars
    BY <1>1, <1>3 DEF Shopper, ShopperClicks, Click, storefrontVars, tables, salesVars, syncVars
<1>4. CASE PageServer
    <2>1. unbumped' = unbumped
        BY <1>4
        DEF PageServer, Pages!CacheStep, Pages!LoadStore, Pages!FetchHit,
            Pages!FetchMiss, Pages!BuildPage, Pages!WritePage, Pages!Serve,
            Pages!CurateStart, Pages!CurateSurface, Pages!Prewarm, Pages!Abandon,
            Pages!Evict, Pages!NewDay, Pages!tables
    <2>2. QED
        BY <1>1, <1>4, <2>1 DEF PageServer, salesVars, syncVars
<1>5. CASE Poller
    <2>0. UNCHANGED <<job, syncFaults>>
        BY <1>5 DEF Poller, syncVars
    <2>1. CASE Sales!DeleteListings
        BY <2>1 DEF Sales!DeleteListings, CountersInv, EveryDeletionIsVersioned
    <2>2. CASE Sales!UpdateStoreState
        BY <2>2 DEF Sales!UpdateStoreState, EveryDeletionIsVersioned
    <2>3. CASE Sales!PollFault
        BY <1>0, <2>0, <2>3
        DEF Sales!PollFault, Sales!FetchFails, Sales!PollCrash, CountersInv,
            EveryDeletionIsVersioned
    <2>4. CASE Sales!PollStep /\ ~Sales!DeleteListings /\ ~Sales!UpdateStoreState
        BY <1>1, <2>0, <2>4
        DEF Sales!PollStep, Sales!PollStart, Sales!FetchOrders, Sales!Deduplicate,
            Sales!FindListings, Sales!DeleteRefused, Sales!Record,
            Sales!AdvanceCursor, Sales!MarkSuccess, Sales!EnqueueCuration, Sales!tables
    <2>5. QED
        BY <1>5, <2>1, <2>2, <2>3, <2>4 DEF Poller
<1>6. ASSUME NEW w \in Worker, Syncer(w) PROVE EveryDeletionIsVersioned'
    <2>0. UNCHANGED <<poll, faults>>
        BY <1>6 DEF Syncer, salesVars
    <2>1. CASE DeleteStale(w)
        <3>1. CASE Stale(w) = {}
            <4>1. unbumped' = unbumped /\ syncFaults' = syncFaults
                BY <2>1, <3>1 DEF DeleteStale, DeleteRows
            <4>2. \A v \in Worker : job[v].pc = "bump" => job'[v].pc = "bump"
                BY <2>1 DEF DeleteStale, Goes, CountersInv
            <4>3. QED
                BY <1>1, <2>0, <4>1, <4>2
        <3>2. CASE Stale(w) # {}
            <4>1. job'[w].pc = "bump"
                BY <2>1, <3>2 DEF DeleteStale, Goes, CountersInv
            <4>2. QED
                BY <4>1 DEF EveryDeletionIsVersioned
        <3>3. QED
            BY <3>1, <3>2
    <2>2. CASE BumpVersion(w)
        BY <2>2 DEF BumpVersion, EveryDeletionIsVersioned
    <2>3. CASE SyncFault(w)
        BY <1>0, <2>0, <2>3
        DEF SyncFault, FetchFails, SyncCrash, CountersInv,
            EveryDeletionIsVersioned
    <2>4. CASE SyncStep(w) /\ ~DeleteStale(w) /\ ~BumpVersion(w)
        <3>1. /\ unbumped' \subseteq unbumped /\ syncFaults' = syncFaults
              /\ job[w].pc # "bump"
              /\ \A v \in Worker : v # w => job'[v] = job[v]
            BY <2>4
            DEF SyncStep, FindStore, MarkSyncing, ProbePages,
                FetchPages, TriggerExport, DownloadExport, Upsert,
                InsertRows, NullifyStaleClicks, DeleteStaleRefused,
                ClearProgress, MarkSucceeded, MarkFailed, Goes,
                tables, CountersInv
        <3>2. QED
            BY <1>1, <2>0, <3>1
    <2>5. QED
        BY <1>6, <2>1, <2>2, <2>3, <2>4 DEF Syncer
<1>7. QED
    BY <1>2, <1>3, <1>4, <1>5, <1>6 DEF StorefrontNext

\* With the poller and any number of syncs deleting beside each other, one of
\* them is about to move the version when a deletion has none yet, unless a
\* request failed or a worker died.
THEOREM AllDeletionsVersioned == StorefrontSpec => []EveryDeletionIsVersioned
BY CountersInit, CountersStep, VersionedStep, PTL DEF StorefrontSpec
=============================================================================
