---------------------------- MODULE StoreTables ----------------------------
(***************************************************************************)
(* The database rows of one store that its background jobs and its public  *)
(* storefront share: the listings, the click events that reference them    *)
(* through a foreign key, the columns of the store row, and the queued     *)
(* curation job.  One operator per database statement the components       *)
(* issue; a component's action is made of these.                           *)
(***************************************************************************)
EXTENDS Integers, FiniteSets

CONSTANT Listing        \* discogs_listing_id values of the store

ASSUME ListingAssumption == IsFiniteSet(Listing)

VARIABLES
    now,                \* the clock; 0 stands for NULL in a datetime column
    shelf,              \* listings that have a row
    clicked,            \* listings some click_events row references
    store,              \* the columns of the store row
    curationDue,        \* a DailyCurationJob for the store is enqueued
    unbumped            \* history: rows deleted since inventory_version moved

tables == <<now, shelf, clicked, store, curationDue, unbumped>>

Coverage == {"unknown", "near_complete", "partial"}

StoreRow ==
    [inventoryVersion : Nat, totalListings : Nat,
     syncStatus : {"idle", "syncing", "failed"}, syncError : BOOLEAN,
     syncProgress : BOOLEAN, lastSyncedAt : Nat, catalogCoverage : Coverage,
     polledAt : Nat, pollError : BOOLEAN, cursor : Nat]

TablesTypeOK ==
    /\ now \in Nat
    /\ shelf \in SUBSET Listing
    /\ clicked \in SUBSET shelf        \* the foreign key
    /\ store \in StoreRow
    /\ curationDue \in BOOLEAN
    /\ unbumped \in SUBSET Listing

\* The column defaults of a new store.
NewStoreRow ==
    [inventoryVersion |-> 0, totalListings |-> 0,
     syncStatus |-> "idle", syncError |-> FALSE,
     syncProgress |-> FALSE, lastSyncedAt |-> 0, catalogCoverage |-> "unknown",
     polledAt |-> 0, pollError |-> FALSE, cursor |-> 0]

\* Some rows on the shelf, all counted, none deleted yet.
TablesInit ==
    /\ now = 1
    /\ shelf \in SUBSET Listing
    /\ clicked = {}
    /\ store = [NewStoreRow EXCEPT !.totalListings = Cardinality(shelf)]
    /\ curationDue = FALSE
    /\ unbumped = {}

-----------------------------------------------------------------------------
(* Statements on the listings table.                                       *)

\* INSERT ... ON CONFLICT UPDATE of the rows S.
InsertRows(S) ==
    /\ shelf' = shelf \cup S
    /\ unbumped' = unbumped \ S

\* DELETE of the rows S, which the foreign key refuses when a click event
\* still references one of them: the statement then deletes nothing.
Deletable(S) == (S \cap shelf) \cap clicked = {}

DeleteRows(S) ==
    /\ Deletable(S)
    /\ shelf' = shelf \ S
    /\ unbumped' = unbumped \cup (S \cap shelf)

\* UPDATE click_events SET listing_id = NULL for the rows S.
NullifyClicks(S) == clicked' = clicked \ S

\* Mutant: the increment is lost.
NotBumped == store.inventoryVersion

\* inventory_version + 1; the history restarts.
Bumped == store.inventoryVersion + 1

-----------------------------------------------------------------------------
(* Steps of actors outside the jobs.                                       *)

\* A shopper follows the link to Discogs: a click event is inserted.  A click
\* on a page that shows a deleted row fails on the foreign key and is dropped.
Click(l) ==
    /\ l \in shelf
    /\ clicked' = clicked \cup {l}
    /\ UNCHANGED <<now, shelf, store, curationDue, unbumped>>

=============================================================================
