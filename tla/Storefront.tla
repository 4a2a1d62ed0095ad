----------------------------- MODULE Storefront -----------------------------
(***************************************************************************)
(* One store at work: the sales poller, the inventory sync, the curation   *)
(* job and the public pages share its tables, while shoppers click and     *)
(* listings are sold at Discogs.                                           *)
(***************************************************************************)
EXTENDS InventorySync

CONSTANTS
    Order, Items, PageSize, Slack, Clickable, MaxTime, MaxFaults,
    Builder, MaxDay

VARIABLES
    orders, events, poll, faults,
    today, cache, build

Sales == INSTANCE SalesPolling
Pages == INSTANCE StorefrontCache

ASSUME StorefrontAssumption == Sales!SalesAssumption

salesVars == <<orders, events, poll, faults>>
cacheVars == <<today, cache, build>>
storefrontVars == <<tables, salesVars, syncVars, cacheVars>>

\* The store right after its first import, the export of that import kept.
StorefrontInit ==
    /\ TablesInit
    /\ Sales!SalesInit
    /\ SyncInit
    /\ Pages!CacheInit
    /\ shelf = Listing
    /\ market = Listing
    /\ exports = {Listing}

\* A sale takes the order's listings off the market.
Sale(o) ==
    /\ Items[o] \subseteq market
    /\ Sales!PlaceOrder(o)
    /\ MarketBecomes(market \ Items[o])
    /\ UNCHANGED <<exports, seenAt, syncFaults, cacheVars>>

Shopper(l) == ShopperClicks(l) /\ UNCHANGED <<salesVars, cacheVars>>

Poller ==
    (Sales!PollStep \/ Sales!PollFault) /\ UNCHANGED <<syncVars, cacheVars>>

Syncer(w) ==
    (SyncStep(w) \/ SyncFault(w)) /\ UNCHANGED <<salesVars, cacheVars>>

\* Requests and curation show what Listing.available returns.
PageServer == Pages!CacheStep(Available) /\ UNCHANGED <<salesVars, syncVars>>

StorefrontNext ==
    \/ \E o \in Order : Sale(o)
    \/ \E l \in Clickable : Shopper(l)
    \/ Poller
    \/ \E w \in Worker : Syncer(w)
    \/ PageServer

StorefrontSpec == StorefrontInit /\ [][StorefrontNext]_storefrontVars

-----------------------------------------------------------------------------
\* Together the jobs give the page cache what it asks of an inventory writer.
ImplementsPageCache == Pages!Spec

\* No visitor is shown a record whose deletion is complete: pages built before
\* a deletion are not found under the version that follows it.
CachedPagesAreFresh == Pages!CachedPagesAreFresh
ServedPagesAreFresh == Pages!ServedPagesAreFresh

\* A deletion waits for its new version only while the job that made it is
\* between the two statements, or when that job died there.
EveryDeletionIsVersioned ==
    unbumped # {} =>
        \/ poll.pc = "bump" \/ \E w \in Worker : job[w].pc = "bump"
        \/ faults + syncFaults > 0

\* "Removes sold listings from a store and updates inventory version.
\* Idempotent: calling multiple times with the same IDs has no additional
\* effect."  Once every job is at rest and every sale is recorded, no page of
\* the current version shows a sold record that left the shelf.
AtRest ==
    /\ poll.pc = "idle" /\ \A w \in Worker : job[w].pc = "idle"
    /\ Sales!Recorded = Sales!Placed
SoldRecordsLeavePages ==
    AtRest => \A e \in cache :
        e.version = store.inventoryVersion
            => e.page \cap Sales!Sold \subseteq shelf

=============================================================================
