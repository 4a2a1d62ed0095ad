---------------------------- MODULE SalesPolling ----------------------------
(***************************************************************************)
(* SalesPollStoreJob and StoreSales::*: the poller of one store reads the  *)
(* first page of its Discogs orders, skips those it has already processed, *)
(* deletes the sold listings, moves the inventory version, records each    *)
(* order, then advances the cursor and marks the poll a success.  Each     *)
(* action is one statement or one request: shoppers, the seller and a      *)
(* crash of the worker can come between any two of them.                   *)
(*                                                                         *)
(* One poller per store: limits_concurrency keys the job by the store, and *)
(* a poll ends well within the three minutes its semaphore is held.        *)
(***************************************************************************)
EXTENDS StoreTables

CONSTANTS
    Order,          \* Discogs orders
    Items,          \* Items[o]: the listings order o is for
    PageSize,       \* orders on the first page of list_orders
    Slack,          \* clock units in the deduplication's 1.minute
    Clickable,      \* listings whose link shoppers follow
    MaxTime,        \* bound: the clock stops here
    MaxFaults       \* bound: failed requests and crashes in a behaviour

ASSUME SalesAssumption ==
    /\ Items \in [Order -> SUBSET Listing]
    /\ PageSize \in Nat \ {0}
    /\ Slack \in Nat
    /\ Clickable \subseteq Listing
    /\ MaxTime \in Nat
    /\ MaxFaults \in Nat

VARIABLES
    orders,         \* at Discogs: last_activity of each order, 0 if not placed
    events,         \* discogs_order_events: [lastActivity, processedAt], 0 = none
    poll,           \* the running poll
    faults          \* failed requests and crashes so far

salesVars == <<orders, events, poll, faults>>
vars == <<tables, salesVars>>

PollPc == {"idle", "fetch", "order", "find", "delete", "bump", "record",
           "success", "enqueue"}

\* An entry of the fetched page: the order and its activity as fetched.
Entry == [id : Order, at : Nat]
NoEntry == [at |-> 0]

IdlePoll ==
    [pc |-> "idle", page |-> {}, entry |-> NoEntry, found |-> {},
     high |-> 0, removed |-> FALSE]

SalesInit ==
    /\ orders = [o \in Order |-> 0]
    /\ events = [o \in Order |-> [lastActivity |-> 0, processedAt |-> 0]]
    /\ poll = IdlePoll
    /\ faults = 0

Placed == {o \in Order : orders[o] # 0}
Sold == UNION {Items[o] : o \in Placed}
Recorded == {o \in Order : events[o].processedAt # 0}

-----------------------------------------------------------------------------
(* The seller, the marketplace and the clock.                              *)

\* A buyer places order o.
PlaceOrder(o) ==
    /\ orders[o] = 0
    /\ orders' = [orders EXCEPT ![o] = now]
    /\ UNCHANGED <<tables, events, poll, faults>>

\* A message, a payment or a shipment moves the order's last_activity.
TouchOrder(o) ==
    /\ orders[o] # 0 /\ orders[o] < now
    /\ orders' = [orders EXCEPT ![o] = now]
    /\ UNCHANGED <<tables, events, poll, faults>>

\* A record never sold before arrives in the store.
Stock(l) ==
    /\ l \notin shelf \cup Sold
    /\ InsertRows({l})
    /\ UNCHANGED <<now, clicked, store, curationDue, salesVars>>

ShopperClicks(l) == Click(l) /\ UNCHANGED salesVars

Tick ==
    /\ now < MaxTime
    /\ now' = now + 1
    /\ UNCHANGED <<shelf, clicked, store, curationDue, unbumped, salesVars>>

-----------------------------------------------------------------------------
(* The poll.                                                               *)

PollStart ==
    /\ poll.pc = "idle"
    /\ poll' = [IdlePoll EXCEPT !.pc = "fetch"]
    /\ UNCHANGED <<tables, orders, events, faults>>

\* The first page, sorted by last_activity descending: no order left out is
\* more recent than one on it.
FirstPage ==
    {S \in SUBSET Placed :
        /\ \A o \in S, q \in Placed \ S : orders[q] <= orders[o]
        /\ Cardinality(S) <= PageSize
        /\ Cardinality(S) < PageSize => S = Placed}

FetchOrders ==
    /\ poll.pc = "fetch"
    /\ \E S \in FirstPage :
        poll' = [poll EXCEPT !.pc = "order",
                             !.page = {[id |-> o, at |-> orders[o]] : o \in S}]
    /\ UNCHANGED <<tables, orders, events, faults>>

\* The error is kept on the store row and re-raised; nothing is retried.
PollFails ==
    /\ store' = [store EXCEPT !.pollError = TRUE]
    /\ poll' = IdlePoll

\* The token is gone, Discogs is down, the rate limit is hit.
FetchFails ==
    /\ poll.pc = "fetch"
    /\ faults < MaxFaults
    /\ faults' = faults + 1
    /\ PollFails
    /\ UNCHANGED <<now, shelf, clicked, curationDue, unbumped, orders, events>>

\* The entry the loop reaches next.
NextEntry(e) == e \in poll.page /\ \A f \in poll.page : f.at <= e.at

\* Mutant: any event counts as processed.
ProcessedOnce(e) == events[e.id].processedAt # 0

\* Processed since its last activity, give or take the slack.
AlreadyProcessed(e) ==
    LET processed == events[e.id].processedAt
    IN processed # 0 /\ processed >= e.at - Slack

Deduplicate ==
    /\ poll.pc = "order"
    /\ \E e \in poll.page :
        /\ NextEntry(e)
        /\ poll' = IF AlreadyProcessed(e)
                   THEN [poll EXCEPT !.page = @ \ {e}]
                   ELSE [poll EXCEPT !.pc = "find", !.entry = e]
    /\ UNCHANGED <<tables, orders, events, faults>>

\* Mutant: find_by instead of where, one row only.
FindOneListing ==
    /\ poll.pc = "find"
    /\ LET rows == Items[poll.entry.id] \cap shelf
           found == IF rows = {} THEN {} ELSE {CHOOSE l \in rows : TRUE}
       IN poll' = [poll EXCEPT !.found = found,
                               !.pc = IF found = {} THEN "record" ELSE "delete"]
    /\ UNCHANGED <<tables, orders, events, faults>>

\* pluck: which of the order's listings still have a row.
FindListings ==
    /\ poll.pc = "find"
    /\ LET found == Items[poll.entry.id] \cap shelf
       IN poll' = [poll EXCEPT !.found = found,
                               !.pc = IF found = {} THEN "record" ELSE "delete"]
    /\ UNCHANGED <<tables, orders, events, faults>>

\* Mutant: update_store_state is not called.
DeleteUnversioned ==
    /\ poll.pc = "delete"
    /\ DeleteRows(poll.found)
    /\ poll' = [poll EXCEPT !.pc = "record"]
    /\ UNCHANGED <<now, clicked, store, curationDue, orders, events, faults>>

DeleteListings ==
    /\ poll.pc = "delete"
    /\ DeleteRows(poll.found)
    /\ poll' = [poll EXCEPT !.pc = "bump"]
    /\ UNCHANGED <<now, clicked, store, curationDue, orders, events, faults>>

\* Mutant: the error is rescued per order and the order recorded.
DeleteRefusedSilently ==
    /\ poll.pc = "delete"
    /\ ~Deletable(poll.found)
    /\ poll' = [poll EXCEPT !.pc = "record"]
    /\ UNCHANGED <<tables, orders, events, faults>>

\* A click event references one of the rows: the statement raises.
DeleteRefused ==
    /\ poll.pc = "delete"
    /\ ~Deletable(poll.found)
    /\ PollFails
    /\ UNCHANGED <<now, shelf, clicked, curationDue, unbumped, orders, events, faults>>

\* One transaction: the version, then the count.
UpdateStoreState ==
    /\ poll.pc = "bump"
    /\ store' = [store EXCEPT !.inventoryVersion = Bumped,
                              !.totalListings = Cardinality(shelf)]
    /\ unbumped' = {}
    /\ poll' = [poll EXCEPT !.pc = "record"]
    /\ UNCHANGED <<now, shelf, clicked, curationDue, orders, events, faults>>

\* Upsert of the order's event, with the activity as fetched.
Record ==
    /\ poll.pc = "record"
    /\ LET e == poll.entry
       IN /\ events' = [events EXCEPT ![e.id] =
                            [lastActivity |-> e.at, processedAt |-> now]]
          /\ poll' = [poll EXCEPT
                        !.pc = "order", !.page = @ \ {e}, !.entry = NoEntry,
                        !.found = {},
                        !.removed = @ \/ poll.found # {},
                        !.high = IF e.at > @ THEN e.at ELSE @]
    /\ UNCHANGED <<tables, orders, faults>>

\* Mutant: the cursor moves after each order.
AdvanceCursorEarly ==
    /\ poll.pc = "order" /\ poll.high # store.cursor
    /\ store' = [store EXCEPT !.cursor = IF poll.high # 0 THEN poll.high ELSE @]
    /\ poll' = IF poll.page = {} THEN [poll EXCEPT !.pc = "success"] ELSE poll
    /\ UNCHANGED <<now, shelf, clicked, curationDue, unbumped, orders, events, faults>>

\* Past the last order: the cursor moves to the newest activity processed.
AdvanceCursor ==
    /\ poll.pc = "order" /\ poll.page = {}
    /\ store' = [store EXCEPT !.cursor = IF poll.high # 0 THEN poll.high ELSE @]
    /\ poll' = [poll EXCEPT !.pc = "success"]
    /\ UNCHANGED <<now, shelf, clicked, curationDue, unbumped, orders, events, faults>>

MarkSuccess ==
    /\ poll.pc = "success"
    /\ store' = [store EXCEPT !.polledAt = now, !.pollError = FALSE]
    /\ poll' = IF poll.removed THEN [poll EXCEPT !.pc = "enqueue"] ELSE IdlePoll
    /\ UNCHANGED <<now, shelf, clicked, curationDue, unbumped, orders, events, faults>>

EnqueueCuration ==
    /\ poll.pc = "enqueue"
    /\ curationDue' = TRUE
    /\ poll' = IdlePoll
    /\ UNCHANGED <<now, shelf, clicked, store, unbumped, orders, events, faults>>

\* The worker process dies: no rescue runs and the statements done stay done.
PollCrash ==
    /\ poll.pc # "idle"
    /\ faults < MaxFaults
    /\ faults' = faults + 1
    /\ poll' = IdlePoll
    /\ UNCHANGED <<tables, orders, events>>

PollStep ==
    \/ PollStart \/ FetchOrders \/ Deduplicate \/ FindListings
    \/ DeleteListings \/ DeleteRefused \/ UpdateStoreState \/ Record
    \/ AdvanceCursor \/ MarkSuccess \/ EnqueueCuration

PollFault == FetchFails \/ PollCrash

Market == \E o \in Order : PlaceOrder(o) \/ TouchOrder(o)

-----------------------------------------------------------------------------

Init == TablesInit /\ SalesInit

Next ==
    \/ PollStep
    \/ PollFault
    \/ Market
    \/ \E l \in Listing : Stock(l)
    \/ \E l \in Clickable : ShopperClicks(l)
    \/ Tick

Spec == Init /\ [][Next]_vars

\* The dispatcher keeps polling the store and a started poll keeps going;
\* nothing obliges a sale, a click, a fault or the clock.
FairSpec == Spec /\ WF_vars(PollStep)

-----------------------------------------------------------------------------
TypeOK ==
    /\ TablesTypeOK
    /\ orders \in [Order -> Nat]
    /\ events \in [Order -> [lastActivity : Nat, processedAt : Nat]]
    /\ poll \in [pc : PollPc, page : SUBSET Entry, entry : Entry \cup {NoEntry},
                 found : SUBSET Listing, high : Nat, removed : BOOLEAN]
    /\ faults \in 0 .. MaxFaults

\* The rows the poller deletes are sold ones, an order is recorded as
\* processed only when none of its listings is left on the shelf, and it stays
\* recorded: StoreSales implements the ledger, whatever fails in between.
Ledger == INSTANCE OrderLedger WITH placed <- Placed, settled <- Recorded
ImplementsLedger == Ledger!Spec

\* update_store_state: a deletion is followed by a new inventory version unless
\* the worker died between the two statements.
DeletionsAreVersioned ==
    unbumped # {} => poll.pc = "bump" \/ faults > 0

\* "advancing the high-water cursor timestamp": an order active before the
\* cursor has been processed, in every poll including those that failed
\* half way (as long as all orders fit the page that is fetched).
CursorIsHighWater ==
    \A o \in Placed : orders[o] < store.cursor => o \in Recorded

\* The retry of the next poll makes up for every failure: a sold listing leaves
\* the shelf for good, unless a click event on a sold row blocks the deletion.
Blocked == Sold \cap clicked # {}
SoldLeavesShelf ==
    \A o \in Order : o \in Placed ~> [](Items[o] \cap shelf = {}) \/ Blocked

\* Activity after an order was processed is processed too, beyond the slack.
Outdated(o) ==
    /\ o \in Placed
    /\ o \notin Recorded \/ orders[o] - Slack > events[o].processedAt
ActivityCatchesUp == \A o \in Order : Outdated(o) ~> ~Outdated(o) \/ Blocked

\* "Removes sold listings from a store": whatever shoppers click.
SoldListingsAreRemoved ==
    \A o \in Order : o \in Placed ~> (Items[o] \cap shelf = {})

=============================================================================
