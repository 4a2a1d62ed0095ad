------------------------ MODULE SalesPolling_proofs ------------------------
(***************************************************************************)
(* For every set of orders and listings, every page size and every number  *)
(* of faults: sales polling keeps its types, deletes rows only with a new  *)
(* inventory version to follow, and implements OrderLedger.                *)
(***************************************************************************)
EXTENDS SalesPolling, FiniteSetTheorems, TLAPS

-----------------------------------------------------------------------------
(* Types. *)

\* A shelf can be counted.
LEMMA ShelfCount ==
    ASSUME NEW S \in SUBSET Listing
    PROVE  Cardinality(S) \in Nat
BY ListingAssumption, FS_Subset, FS_CardinalityType

PollType ==
    poll \in [pc : PollPc, page : SUBSET Entry, entry : Entry \cup {NoEntry},
              found : SUBSET Listing, high : Nat, removed : BOOLEAN]

EventsType == events \in [Order -> [lastActivity : Nat, processedAt : Nat]]

LEMMA IdlePollType ==
    IdlePoll \in [pc : PollPc, page : SUBSET Entry, entry : Entry \cup {NoEntry},
                  found : SUBSET Listing, high : Nat, removed : BOOLEAN]
BY DEF IdlePoll, PollPc

\* The entry at work is a fetched one, whose activity is a time.
LEMMA EntryAt ==
    ASSUME PollType
    PROVE  poll.entry.at \in Nat
BY DEF PollType, Entry, NoEntry

LEMMA TypeInit == Init => TypeOK
<1> SUFFICES ASSUME Init PROVE TypeOK
    OBVIOUS
<1>1. store.totalListings \in Nat
    BY ShelfCount DEF Init, TablesInit, NewStoreRow
<1>2. TablesTypeOK
    BY <1>1 DEF Init, TablesInit, TablesTypeOK, NewStoreRow, StoreRow, Coverage
<1>3. QED
    BY <1>2, IdlePollType, SalesAssumption DEF Init, SalesInit, TypeOK

LEMMA TypeNext == TypeOK /\ [Next]_vars => TypeOK'
<1> SUFFICES ASSUME TypeOK, [Next]_vars PROVE TypeOK'
    OBVIOUS
<1>0. PollType /\ EventsType /\ TablesTypeOK /\ store \in StoreRow /\ faults \in 0 .. MaxFaults
    BY DEF TypeOK, PollType, EventsType, TablesTypeOK
<1>1. ASSUME NEW o \in Order, PlaceOrder(o) \/ TouchOrder(o) PROVE TypeOK'
    BY <1>1 DEF PlaceOrder, TouchOrder, TypeOK, TablesTypeOK, tables
<1>2. ASSUME NEW l \in Listing, Stock(l) PROVE TypeOK'
    BY <1>2 DEF Stock, InsertRows, salesVars, TypeOK, TablesTypeOK
<1>3. ASSUME NEW l \in Clickable, ShopperClicks(l) PROVE TypeOK'
    BY <1>3 DEF ShopperClicks, Click, salesVars, TypeOK, TablesTypeOK
<1>4. CASE Tick
    BY <1>4 DEF Tick, salesVars, TypeOK, TablesTypeOK
<1>5. CASE PollStart
    BY <1>5 DEF PollStart, IdlePoll, PollPc, TypeOK, TablesTypeOK, tables
<1>6. CASE FetchOrders
    <2>1. PICK S \in FirstPage :
            poll' = [poll EXCEPT !.pc = "order",
                                 !.page = {[id |-> o, at |-> orders[o]] : o \in S}]
        BY <1>6 DEF FetchOrders
    <2>2. S \subseteq Order /\ orders \in [Order -> Nat]
        BY DEF FirstPage, Placed, TypeOK
    <2>3. {[id |-> o, at |-> orders[o]] : o \in S} \in SUBSET Entry
        BY <2>2 DEF Entry
    <2>4. PollType'
        BY <1>0, <2>1, <2>3 DEF PollType, PollPc
    <2>5. QED
        BY <1>6, <2>4 DEF FetchOrders, PollType, TypeOK, TablesTypeOK, tables
<1>7. ASSUME PollFails,
             UNCHANGED <<now, shelf, clicked, curationDue, unbumped, orders, events>>,
             faults' \in 0 .. MaxFaults
      PROVE  TypeOK'
    <2>1. store' \in StoreRow
        BY <1>0, <1>7 DEF PollFails, StoreRow
    <2>2. PollType'
        BY <1>7, IdlePollType DEF PollFails, PollType
    <2>3. QED
        BY <1>7, <2>1, <2>2 DEF PollType, TypeOK, TablesTypeOK
<1>8. CASE FetchFails
    <2>1. faults' \in 0 .. MaxFaults
        BY <1>0, <1>8, SalesAssumption DEF FetchFails
    <2>2. QED
        BY <1>7, <1>8, <2>1 DEF FetchFails
<1>9. CASE Deduplicate
    <2>1. PICK e \in poll.page :
            poll' = IF AlreadyProcessed(e)
                    THEN [poll EXCEPT !.page = @ \ {e}]
                    ELSE [poll EXCEPT !.pc = "find", !.entry = e]
        BY <1>9 DEF Deduplicate
    <2>2. PollType'
        BY <1>0, <2>1 DEF PollType, PollPc
    <2>3. QED
        BY <1>9, <2>2 DEF Deduplicate, PollType, TypeOK, TablesTypeOK, tables
<1>10. CASE FindListings
    <2>1. PICK pc \in {"record", "delete"} :
            poll' = [poll EXCEPT !.found = Items[poll.entry.id] \cap shelf, !.pc = pc]
        BY <1>10 DEF FindListings
    <2>2. Items[poll.entry.id] \cap shelf \in SUBSET Listing
        BY DEF TypeOK, TablesTypeOK
    <2>3. PollType'
        BY <1>0, <2>1, <2>2 DEF PollType, PollPc
    <2>4. QED
        BY <1>10, <2>3 DEF FindListings, PollType, TypeOK, TablesTypeOK, tables
<1>11. CASE DeleteListings
    <2>1. PollType'
        BY <1>0, <1>11 DEF DeleteListings, PollType, PollPc
    <2>2. QED
        BY <1>11, <2>1
        DEF DeleteListings, DeleteRows, Deletable, PollType, TypeOK, TablesTypeOK
<1>12. CASE DeleteRefused
    BY <1>0, <1>7, <1>12 DEF DeleteRefused
<1>13. CASE UpdateStoreState
    <2>1. Cardinality(shelf) \in Nat
        BY ShelfCount DEF TypeOK, TablesTypeOK
    <2>2. store' \in StoreRow
        <3>1. PICK version \in Nat, count \in Nat :
                store' = [store EXCEPT !.inventoryVersion = version,
                                       !.totalListings = count]
            <4>1. Bumped \in Nat
                BY <1>0 DEF Bumped, StoreRow
            <4>2. QED
                BY <1>13, <2>1, <4>1 DEF UpdateStoreState
        <3>2. QED
            BY <1>0, <3>1 DEF StoreRow
    <2>3. PollType'
        BY <1>0, <1>13 DEF UpdateStoreState, PollType, PollPc
    <2>4. QED
        BY <1>13, <2>2, <2>3 DEF UpdateStoreState, PollType, TypeOK, TablesTypeOK
<1>14. CASE Record
    <2>1. poll.entry.at \in Nat /\ poll.high \in Nat
        BY <1>0, EntryAt DEF PollType
    <2>2. EventsType'
        BY <1>0, <1>14, <2>1 DEF Record, EventsType, TypeOK, TablesTypeOK
    <2>3. PollType'
        <3>1. PICK high \in Nat, removed \in BOOLEAN :
                poll' = [poll EXCEPT
                            !.pc = "order", !.page = @ \ {poll.entry},
                            !.entry = NoEntry, !.found = {},
                            !.removed = removed, !.high = high]
            BY <1>0, <1>14, <2>1 DEF Record, PollType
        <3>2. QED
            BY <1>0, <3>1 DEF PollType, PollPc
    <2>4. QED
        BY <1>14, <2>2, <2>3 DEF Record, PollType, EventsType, TypeOK, TablesTypeOK, tables
<1>15. CASE AdvanceCursor
    <2>1. store' \in StoreRow
        <3>1. PICK c \in Nat : store' = [store EXCEPT !.cursor = c]
            BY <1>0, <1>15 DEF AdvanceCursor, StoreRow, PollType
        <3>2. QED
            BY <1>0, <3>1 DEF StoreRow
    <2>2. PollType'
        BY <1>0, <1>15 DEF AdvanceCursor, PollType, PollPc
    <2>3. QED
        BY <1>15, <2>1, <2>2 DEF AdvanceCursor, PollType, TypeOK, TablesTypeOK
<1>16. CASE MarkSuccess
    <2>1. store' \in StoreRow
        BY <1>0, <1>16 DEF MarkSuccess, StoreRow, TypeOK, TablesTypeOK
    <2>2. PollType'
        BY <1>0, <1>16, IdlePollType DEF MarkSuccess, PollType, PollPc
    <2>3. QED
        BY <1>16, <2>1, <2>2 DEF MarkSuccess, PollType, TypeOK, TablesTypeOK
<1>17. CASE EnqueueCuration
    BY <1>17, IdlePollType DEF EnqueueCuration, TypeOK, TablesTypeOK
<1>18. CASE PollCrash
    <2>1. faults' \in 0 .. MaxFaults
        BY <1>0, <1>18, SalesAssumption DEF PollCrash
    <2>2. QED
        BY <1>18, <2>1, IdlePollType DEF PollCrash, TypeOK, TablesTypeOK, tables
<1>19. CASE UNCHANGED vars
    BY <1>19 DEF vars, tables, salesVars, TypeOK, TablesTypeOK
<1>20. QED
    BY <1>1, <1>2, <1>3, <1>4, <1>5, <1>6, <1>8, <1>9, <1>10, <1>11, <1>12,
       <1>13, <1>14, <1>15, <1>16, <1>17, <1>18, <1>19
    DEF Next, PollStep, PollFault, Market

\* The types of the state; of them, that no click event references a row that
\* is gone is what the foreign key guards.
THEOREM TypeCorrect == Spec => []TypeOK
BY TypeInit, TypeNext, PTL DEF Spec

-----------------------------------------------------------------------------
(* Versions. *)

\* Nobody but the poller between its two statements, or a crash there, leaves a
\* deletion without its version.
LEMMA VersionedInit == Init => DeletionsAreVersioned
BY DEF Init, TablesInit, DeletionsAreVersioned

LEMMA VersionedNext ==
    TypeOK /\ DeletionsAreVersioned /\ [Next]_vars => DeletionsAreVersioned'
<1> SUFFICES ASSUME TypeOK, DeletionsAreVersioned, [Next]_vars
             PROVE  DeletionsAreVersioned'
    OBVIOUS
<1>0. faults \in Nat /\ PollType
    BY SalesAssumption DEF TypeOK, PollType
<1>1. CASE DeleteListings
    BY <1>0, <1>1 DEF DeleteListings, DeletionsAreVersioned, PollType
<1>2. CASE UpdateStoreState
    BY <1>2 DEF UpdateStoreState, DeletionsAreVersioned
<1>3. CASE PollFault
    BY <1>0, <1>3 DEF PollFault, FetchFails, PollCrash, DeletionsAreVersioned
<1>4. ASSUME unbumped' \subseteq unbumped, faults' = faults,
             poll' = poll \/ poll.pc # "bump"
      PROVE  DeletionsAreVersioned'
    BY <1>4 DEF DeletionsAreVersioned
<1>5. ASSUME NEW l \in Listing, Stock(l) PROVE DeletionsAreVersioned'
    BY <1>4, <1>5 DEF Stock, InsertRows, salesVars
<1>6. CASE PollStep /\ ~DeleteListings /\ ~UpdateStoreState
    BY <1>4, <1>6
    DEF PollStep, PollStart, FetchOrders, Deduplicate, FindListings,
        DeleteRefused, Record, AdvanceCursor, MarkSuccess, EnqueueCuration, tables
<1>7. CASE Market \/ Tick \/ (\E l \in Clickable : ShopperClicks(l)) \/ UNCHANGED vars
    BY <1>4, <1>7
    DEF Market, PlaceOrder, TouchOrder, Tick, ShopperClicks, Click, vars,
        salesVars, tables
<1>8. QED
    BY <1>1, <1>2, <1>3, <1>5, <1>6, <1>7 DEF Next

\* update_store_state follows every deletion unless the worker dies.
THEOREM DeletionsVersioned == Spec => []DeletionsAreVersioned
BY TypeInit, TypeNext, VersionedInit, VersionedNext, PTL DEF Spec

-----------------------------------------------------------------------------
(* The ledger. *)

\* What the poller knows of the order at work, as the orders and the shelf keep
\* changing around it: the order was placed, from the pluck to the deletion the
\* rows found are all the rows its listings have (no sold listing is stocked
\* again), and from the deletion to the record it has none.
LedgerInv ==
    /\ now # 0
    /\ \A e \in poll.page : e.id \in Placed
    /\ poll.pc \in {"find", "delete", "bump", "record"} =>
        poll.entry \in Entry /\ poll.entry.id \in Placed
    /\ poll.pc = "delete" => poll.found = Items[poll.entry.id] \cap shelf
    /\ poll.pc \in {"bump", "record"} => Items[poll.entry.id] \cap shelf = {}

LEMMA LedgerInit == Init => Ledger!Init /\ LedgerInv
<1> SUFFICES ASSUME Init PROVE Ledger!Init /\ LedgerInv
    OBVIOUS
<1>1. Placed = {} /\ Recorded = {}
    BY DEF Init, SalesInit, Placed, Recorded
<1>2. Ledger!Init
    BY <1>1 DEF Init, TablesInit, Ledger!Init
<1>3. LedgerInv
    BY DEF Init, TablesInit, SalesInit, IdlePoll, LedgerInv
<1>4. QED
    BY <1>2, <1>3

\* A poll that ends, whatever its end, knows nothing.
LEMMA LedgerInvIdle ==
    ASSUME now # 0, now' = now, poll' = IdlePoll
    PROVE  LedgerInv'
BY DEF LedgerInv, IdlePoll

\* A step that leaves the order at work and the shelf alone, and loses no order.
LEMMA LedgerInvFrame ==
    ASSUME TypeOK, LedgerInv, now' # 0, shelf' = shelf, Placed \subseteq Placed',
           poll'.page \subseteq poll.page, poll'.entry = poll.entry,
           poll'.found = poll.found, poll'.pc = poll.pc
    PROVE  LedgerInv'
BY DEF LedgerInv

\* Steps that touch neither the shelf nor an order are invisible to the ledger.
LEMMA LedgerStutter ==
    ASSUME shelf' = shelf, orders' = orders, events' = events
    PROVE  UNCHANGED Ledger!ledger
BY DEF Ledger!ledger, Placed, Recorded

LEMMA LedgerStep ==
    TypeOK /\ LedgerInv /\ [Next]_vars
        => LedgerInv' /\ [Ledger!Next]_(Ledger!ledger)
<1> SUFFICES ASSUME TypeOK, LedgerInv, [Next]_vars
             PROVE  LedgerInv' /\ [Ledger!Next]_(Ledger!ledger)
    OBVIOUS
<1>0. /\ PollType /\ EventsType /\ now \in Nat /\ now # 0
      /\ orders \in [Order -> Nat] /\ shelf \in SUBSET Listing
      /\ Placed \subseteq Order
    BY DEF TypeOK, TablesTypeOK, PollType, EventsType, LedgerInv, Placed
<1>1. ASSUME NEW o \in Order, PlaceOrder(o)
      PROVE  LedgerInv' /\ [Ledger!Next]_(Ledger!ledger)
    <2>1. Placed' = Placed \cup {o} /\ o \notin Placed /\ Recorded' = Recorded
        BY <1>0, <1>1 DEF PlaceOrder, Placed, Recorded
    <2>2. Ledger!Sell(o)
        BY <1>1, <2>1 DEF PlaceOrder, tables, Ledger!Sell
    <2>3. LedgerInv'
        BY <1>0, <1>1, <2>1, LedgerInvFrame DEF PlaceOrder, tables
    <2>4. QED
        BY <2>2, <2>3 DEF Ledger!Next
<1>2. ASSUME NEW o \in Order, TouchOrder(o)
      PROVE  LedgerInv' /\ [Ledger!Next]_(Ledger!ledger)
    <2>1. Placed' = Placed /\ Recorded' = Recorded
        BY <1>0, <1>2 DEF TouchOrder, Placed, Recorded
    <2>2. UNCHANGED Ledger!ledger
        BY <1>2, <2>1 DEF TouchOrder, tables, Ledger!ledger
    <2>3. LedgerInv'
        BY <1>0, <1>2, <2>1, LedgerInvFrame DEF TouchOrder, tables
    <2>4. QED
        BY <2>2, <2>3
<1>3. ASSUME NEW l \in Listing, Stock(l)
      PROVE  LedgerInv' /\ [Ledger!Next]_(Ledger!ledger)
    <2>1. /\ shelf' = shelf \cup {l} /\ l \notin Sold
          /\ poll' = poll /\ now' = now
          /\ Placed' = Placed /\ Recorded' = Recorded
        BY <1>3 DEF Stock, InsertRows, salesVars, Placed, Recorded
    <2>2. Ledger!Stock(l)
        BY <2>1 DEF Ledger!Stock, Sold, Ledger!Sold
    <2>3. poll.pc \in {"delete", "bump", "record"} => l \notin Items[poll.entry.id]
        BY <2>1 DEF LedgerInv, Sold
    <2>4. LedgerInv'
        BY <2>1, <2>3 DEF LedgerInv
    <2>5. QED
        BY <2>2, <2>4 DEF Ledger!Next
<1>4. CASE Tick \/ (\E l \in Clickable : ShopperClicks(l)) \/ UNCHANGED vars
    <2>1. /\ shelf' = shelf /\ orders' = orders /\ events' = events
          /\ poll' = poll /\ now' # 0
        BY <1>0, <1>4 DEF Tick, ShopperClicks, Click, vars, salesVars, tables
    <2>2. Placed' = Placed
        BY <2>1 DEF Placed
    <2>3. QED
        BY <2>1, <2>2, LedgerInvFrame, LedgerStutter
<1>5. CASE PollStart
    BY <1>5, LedgerStutter DEF PollStart, IdlePoll, LedgerInv, tables
<1>6. CASE FetchOrders
    <2>1. PICK S \in FirstPage :
            poll' = [poll EXCEPT !.pc = "order",
                                 !.page = {[id |-> o, at |-> orders[o]] : o \in S}]
        BY <1>6 DEF FetchOrders
    <2>2. /\ poll'.pc = "order"
          /\ poll'.page = {[id |-> o, at |-> orders[o]] : o \in S}
        BY <1>0, <2>1 DEF PollType
    <2>3. S \subseteq Placed /\ Placed' = Placed /\ now' = now
        BY <1>6 DEF FirstPage, FetchOrders, Placed, tables
    <2>4. LedgerInv'
        BY <1>0, <2>2, <2>3 DEF LedgerInv
    <2>5. QED
        BY <1>6, <2>4, LedgerStutter DEF FetchOrders, tables
<1>7. CASE FetchFails \/ DeleteRefused \/ PollCrash \/ EnqueueCuration
    <2>1. /\ now' = now /\ poll' = IdlePoll
          /\ shelf' = shelf /\ orders' = orders /\ events' = events
        BY <1>7
        DEF FetchFails, DeleteRefused, PollFails, PollCrash, EnqueueCuration, tables
    <2>2. QED
        BY <1>0, <2>1, LedgerInvIdle, LedgerStutter
<1>8. CASE Deduplicate
    <2>1. PICK e \in poll.page :
            poll' = IF AlreadyProcessed(e)
                    THEN [poll EXCEPT !.page = @ \ {e}]
                    ELSE [poll EXCEPT !.pc = "find", !.entry = e]
        BY <1>8 DEF Deduplicate
    <2>2. e \in Entry /\ e.id \in Placed
        BY <1>0, <2>1 DEF PollType, LedgerInv
    <2>3. /\ poll.pc = "order" /\ shelf' = shelf /\ orders' = orders
          /\ events' = events /\ now' = now
        BY <1>8 DEF Deduplicate, tables
    <2>4. Placed' = Placed
        BY <2>3 DEF Placed
    <2>5. LedgerInv'
        BY <1>0, <2>1, <2>2, <2>3, <2>4 DEF LedgerInv, PollType
    <2>6. QED
        BY <2>3, <2>5, LedgerStutter
<1>9. CASE FindListings
    <2>1. /\ poll.pc = "find" /\ shelf' = shelf /\ orders' = orders
          /\ events' = events /\ now' = now
        BY <1>9 DEF FindListings, tables
    <2>2. /\ poll'.found = Items[poll.entry.id] \cap shelf
          /\ poll'.entry = poll.entry /\ poll'.page = poll.page
          /\ \/ poll'.pc = "delete"
             \/ poll'.pc = "record" /\ Items[poll.entry.id] \cap shelf = {}
        BY <1>0, <1>9 DEF FindListings, PollType
    <2>3. Placed' = Placed
        BY <2>1 DEF Placed
    <2>4. LedgerInv'
        BY <1>0, <2>1, <2>2, <2>3 DEF LedgerInv
    <2>5. QED
        BY <2>1, <2>4, LedgerStutter
<1>10. CASE DeleteListings
    <2>1. /\ poll.pc = "delete" /\ poll.found = Items[poll.entry.id] \cap shelf
          /\ poll.entry.id \in Placed
        BY <1>10 DEF DeleteListings, LedgerInv
    <2>2. /\ shelf' = shelf \ poll.found /\ now' = now
          /\ Placed' = Placed /\ Recorded' = Recorded
        BY <1>10 DEF DeleteListings, DeleteRows, Placed, Recorded
    <2>3. poll'.pc = "bump" /\ poll'.entry = poll.entry /\ poll'.page = poll.page
        BY <1>0, <1>10 DEF DeleteListings, PollType
    <2>4. poll.found \subseteq Ledger!Sold /\ poll.found \in SUBSET Listing
        BY <1>0, <2>1 DEF Ledger!Sold
    <2>5. Ledger!Remove(poll.found)
        BY <2>2, <2>4 DEF Ledger!Remove
    <2>6. LedgerInv'
        BY <2>1, <2>2, <2>3, <1>0 DEF LedgerInv
    <2>7. QED
        BY <2>4, <2>5, <2>6 DEF Ledger!Next
<1>11. CASE UpdateStoreState
    <2>1. /\ poll.pc = "bump" /\ shelf' = shelf /\ orders' = orders
          /\ events' = events /\ now' = now
        BY <1>11 DEF UpdateStoreState
    <2>2. poll'.pc = "record" /\ poll'.entry = poll.entry /\ poll'.page = poll.page
        BY <1>0, <1>11 DEF UpdateStoreState, PollType
    <2>3. Placed' = Placed
        BY <2>1 DEF Placed
    <2>4. LedgerInv'
        BY <1>0, <2>1, <2>2, <2>3 DEF LedgerInv
    <2>5. QED
        BY <2>1, <2>4, LedgerStutter
<1>12. CASE Record
    <2> DEFINE o == poll.entry.id
    <2>1. /\ poll.pc = "record" /\ poll.entry \in Entry /\ o \in Placed /\ o \in Order
          /\ Items[o] \cap shelf = {}
        BY <1>0, <1>12 DEF Record, LedgerInv
    <2>2. /\ events' = [events EXCEPT ![o] =
                            [lastActivity |-> poll.entry.at, processedAt |-> now]]
          /\ shelf' = shelf /\ now' = now /\ Placed' = Placed
        BY <1>12 DEF Record, tables, Placed
    <2>3. Recorded' = Recorded \cup {o}
        BY <1>0, <2>1, <2>2 DEF Recorded, EventsType
    <2>4. Ledger!Settle(o)
        BY <2>1, <2>2, <2>3 DEF Ledger!Settle
    <2>5. poll'.pc = "order" /\ poll'.page \subseteq poll.page
        BY <1>0, <1>12 DEF Record, PollType
    <2>6. LedgerInv'
        BY <1>0, <2>2, <2>5 DEF LedgerInv
    <2>7. QED
        BY <2>1, <2>4, <2>6 DEF Ledger!Next
<1>13. CASE AdvanceCursor \/ MarkSuccess
    <2>1. /\ shelf' = shelf /\ orders' = orders /\ events' = events /\ now' = now
          /\ poll'.page \subseteq poll.page
          /\ poll'.pc \in {"success", "enqueue", "idle"}
        BY <1>0, <1>13 DEF AdvanceCursor, MarkSuccess, PollType, IdlePoll
    <2>2. Placed' = Placed
        BY <2>1 DEF Placed
    <2>3. LedgerInv'
        BY <1>0, <2>1, <2>2 DEF LedgerInv
    <2>4. QED
        BY <2>1, <2>3, LedgerStutter
<1>14. QED
    BY <1>1, <1>2, <1>3, <1>4, <1>5, <1>6, <1>7, <1>8, <1>9, <1>10, <1>11, <1>12, <1>13
    DEF Next, PollStep, PollFault, Market

\* Rows leave the shelf only because they were sold, an order is recorded as
\* processed only when none of its listings is left there, and no failure of a
\* request, of a deletion or of the worker takes a record back.
THEOREM PollingImplementsLedger == Spec => ImplementsLedger
<1>1. Spec => [](TypeOK /\ LedgerInv)
    BY TypeInit, TypeNext, LedgerInit, LedgerStep, PTL DEF Spec
<1>2. TypeOK /\ LedgerInv /\ [Next]_vars => [Ledger!Next]_(Ledger!ledger)
    BY LedgerStep
<1>3. Spec => Ledger!Spec
    BY LedgerInit, <1>1, <1>2, PTL DEF Spec, Ledger!Spec
<1>4. QED
    BY <1>3 DEF ImplementsLedger

-----------------------------------------------------------------------------
(* The cursor. *)

\* Every order fits the page that is fetched: what CursorIsHighWater asks.
OnePage == IsFiniteSet(Order) /\ Cardinality(Order) <= PageSize

AtWork == {"find", "delete", "bump", "record"}
Looping == {"order"} \cup AtWork

\* The poll comes to order o yet, or has not passed it and will not.
NotPassed(o) ==
    \/ \E e \in poll.page : e.id = o
    \/ poll.high <= orders[o] /\ \A e \in poll.page : e.at <= orders[o]

\* No time is ahead of the clock, the entry at work stays on the page until it
\* is recorded, and a poll in its loop passes no order it does not record.
CursorInv ==
    /\ now # 0 /\ store.cursor <= now /\ poll.high <= now
    /\ \A o \in Order : orders[o] <= now
    /\ \A e \in poll.page : e.at <= now
    /\ poll.pc \in AtWork => poll.entry \in poll.page
    /\ poll.pc \in Looping => \A o \in Placed \ Recorded : NotPassed(o)
    /\ CursorIsHighWater

LEMMA CursorInit == Init => CursorInv
<1> SUFFICES ASSUME Init PROVE CursorInv
    OBVIOUS
<1>1. Placed = {} /\ now = 1 /\ store.cursor = 0 /\ poll = IdlePoll
      /\ orders = [o \in Order |-> 0]
    BY DEF Init, TablesInit, SalesInit, NewStoreRow, Placed
<1>2. QED
    BY <1>1 DEF CursorInv, CursorIsHighWater, IdlePoll, AtWork, Looping

\* A page that takes every order leaves none out.
LEMMA FirstPageIsAll ==
    ASSUME OnePage, NEW S \in FirstPage
    PROVE  S = Placed
<1>1. IsFiniteSet(Placed) /\ Cardinality(Placed) <= Cardinality(Order)
    BY FS_Subset DEF OnePage, Placed
<1>2. /\ S \subseteq Placed /\ Cardinality(S) <= PageSize
      /\ Cardinality(S) < PageSize => S = Placed
    BY DEF FirstPage
<1>3. Cardinality(S) <= Cardinality(Placed) /\ (Cardinality(Placed) = Cardinality(S) => S = Placed)
    BY <1>1, <1>2, FS_Subset
<1>4. /\ Cardinality(S) \in Nat /\ Cardinality(Placed) \in Nat
      /\ Cardinality(Order) \in Nat /\ PageSize \in Nat
    BY <1>1, <1>2, FS_Subset, FS_CardinalityType, SalesAssumption DEF OnePage
<1>5. QED
    BY <1>1, <1>2, <1>3, <1>4 DEF OnePage

CursorTypes ==
    /\ now \in Nat /\ store.cursor \in Nat /\ poll.high \in Nat
    /\ poll.page \subseteq Entry
    /\ orders \in [Order -> Nat]
    /\ EventsType /\ PollType

LEMMA CursorTyped == TypeOK => CursorTypes
BY DEF TypeOK, TablesTypeOK, StoreRow, CursorTypes, EventsType, PollType

\* A step of the shoppers, the clock or the poll that reads or writes rows only.
LEMMA CursorFrame ==
    ASSUME TypeOK, TypeOK', CursorInv, now <= now',
           orders' = orders, events' = events, store'.cursor = store.cursor,
           poll'.page = poll.page, poll'.high = poll.high,
           poll'.entry = poll.entry,
           poll'.pc \in AtWork => poll.pc \in AtWork,
           poll'.pc \in Looping => poll.pc \in Looping
    PROVE  CursorInv'
<1>1. CursorTypes /\ now' \in Nat
    BY CursorTyped DEF TypeOK, TablesTypeOK
<1>2. Placed' = Placed /\ Recorded' = Recorded
    BY DEF Placed, Recorded
<1>3. \A o : NotPassed(o) => NotPassed(o)'
    BY DEF NotPassed
<1>4. CursorIsHighWater'
    BY <1>2 DEF CursorInv, CursorIsHighWater
<1>5. \A e \in poll.page : e.at \in Nat
    BY <1>1 DEF CursorTypes, Entry
<1>6. QED
    BY <1>1, <1>2, <1>3, <1>4, <1>5 DEF CursorInv, CursorTypes

\* A step that leaves the loop, or has not entered it.
LEMMA CursorOutside ==
    ASSUME CursorInv, now' = now, orders' = orders, events' = events,
           store'.cursor = store.cursor,
           poll'.page = {}, poll'.high <= now, poll'.pc \notin Looping
    PROVE  CursorInv'
BY DEF CursorInv, CursorIsHighWater, Placed, Recorded, AtWork, Looping

\* Activity now is activity after all the poll has seen.
LEMMA CursorMarket ==
    ASSUME TypeOK, CursorInv, NEW o \in Order, PlaceOrder(o) \/ TouchOrder(o)
    PROVE  CursorInv'
<1>1. CursorTypes
    BY CursorTyped
<1>2. /\ orders' = [orders EXCEPT ![o] = now]
      /\ now' = now /\ store' = store /\ poll' = poll /\ events' = events
    BY DEF PlaceOrder, TouchOrder, tables
<1>3. orders[o] <= now /\ now # 0 /\ orders'[o] = now
      /\ \A q \in Order \ {o} : orders'[q] = orders[q]
    BY <1>1, <1>2 DEF CursorInv, CursorTypes
<1>4. Recorded' = Recorded /\ Placed' = Placed \cup {o}
    BY <1>1, <1>2, <1>3 DEF CursorTypes, Placed, Recorded
<1>5. \A e \in poll.page : e.at \in Nat /\ e.at <= now
    BY <1>1 DEF CursorTypes, Entry, CursorInv
<1>6. ASSUME poll.pc \in Looping, NEW q \in Placed' \ Recorded'
      PROVE  NotPassed(q)'
    <2>1. CASE q = o
        BY <1>2, <1>3, <1>5, <2>1 DEF NotPassed, CursorInv
    <2>2. CASE q # o
        <3>1. NotPassed(q) /\ q \in Order
            BY <1>4, <1>6, <2>2 DEF CursorInv, Placed
        <3>2. QED
            BY <1>2, <1>3, <2>2, <3>1 DEF NotPassed
    <2>3. QED
        BY <2>1, <2>2
<1>7. CursorIsHighWater'
    <2> SUFFICES ASSUME NEW q \in Placed', orders'[q] < store'.cursor
                 PROVE  q \in Recorded'
        BY DEF CursorIsHighWater
    <2>1. q # o
        BY <1>1, <1>2, <1>3 DEF CursorInv, CursorTypes
    <2>2. QED
        BY <1>2, <1>3, <1>4, <2>1 DEF CursorInv, CursorIsHighWater, Placed
<1>8. \A q \in Order : orders'[q] <= now
    BY <1>1, <1>3 DEF CursorInv, CursorTypes
<1>9. QED
    BY <1>2, <1>6, <1>7, <1>8 DEF CursorInv

LEMMA CursorFetch ==
    ASSUME OnePage, TypeOK, CursorInv, FetchOrders
    PROVE  CursorInv'
<1>1. PICK S \in FirstPage :
        poll' = [poll EXCEPT !.pc = "order",
                             !.page = {[id |-> o, at |-> orders[o]] : o \in S}]
    BY DEF FetchOrders
<1>2. S = Placed
    BY FirstPageIsAll
<1>3. CursorTypes
    BY CursorTyped
<1>4. /\ poll'.pc = "order" /\ poll'.high = poll.high
      /\ poll'.page = {[id |-> o, at |-> orders[o]] : o \in Placed}
    BY <1>1, <1>2, <1>3 DEF CursorTypes, PollType
<1>5. /\ now' = now /\ store' = store /\ orders' = orders /\ events' = events
      /\ Placed' = Placed /\ Recorded' = Recorded
    BY DEF FetchOrders, tables, Placed, Recorded
<1>6. ASSUME NEW o \in Placed PROVE NotPassed(o)'
    <2>1. [id |-> o, at |-> orders[o]] \in poll'.page
        BY <1>4
    <2>2. QED
        BY <2>1 DEF NotPassed
<1>7. \A e \in poll'.page : e.at <= now
    BY <1>4 DEF CursorInv, Placed
<1>8. CursorIsHighWater'
    BY <1>5 DEF CursorInv, CursorIsHighWater
<1>9. QED
    BY <1>4, <1>5, <1>6, <1>7, <1>8 DEF CursorInv, AtWork

\* An order is skipped only when it is recorded.
LEMMA CursorDeduplicate ==
    ASSUME TypeOK, CursorInv, Deduplicate
    PROVE  CursorInv'
<1>1. PICK e \in poll.page :
        poll' = IF AlreadyProcessed(e)
                THEN [poll EXCEPT !.page = @ \ {e}]
                ELSE [poll EXCEPT !.pc = "find", !.entry = e]
    BY DEF Deduplicate
<1>2. CursorTypes /\ e \in Entry
    BY CursorTyped DEF CursorTypes
<1>3. /\ poll.pc = "order" /\ now' = now /\ store' = store
      /\ orders' = orders /\ events' = events
      /\ Placed' = Placed /\ Recorded' = Recorded
    BY DEF Deduplicate, tables, Placed, Recorded
<1>4. CursorIsHighWater'
    BY <1>3 DEF CursorInv, CursorIsHighWater
<1>5. CASE AlreadyProcessed(e)
    <2>1. poll'.pc = "order" /\ poll'.high = poll.high /\ poll'.page = poll.page \ {e}
        BY <1>1, <1>2, <1>3, <1>5 DEF CursorTypes, PollType
    <2>2. e.id \in Recorded
        BY <1>2, <1>5 DEF AlreadyProcessed, Recorded, Entry
    <2>3. ASSUME NEW o \in Placed \ Recorded PROVE NotPassed(o)'
        <3>1. NotPassed(o)
            BY <1>3 DEF CursorInv, Looping
        <3>2. QED
            BY <1>3, <2>1, <2>2, <3>1 DEF NotPassed
    <2>4. QED
        BY <1>3, <1>4, <2>1, <2>3 DEF CursorInv, AtWork
<1>6. CASE ~AlreadyProcessed(e)
    <2>1. /\ poll'.pc = "find" /\ poll'.high = poll.high
          /\ poll'.page = poll.page /\ poll'.entry = e
        BY <1>1, <1>2, <1>6 DEF CursorTypes, PollType
    <2>2. ASSUME NEW o \in Placed \ Recorded PROVE NotPassed(o)'
        <3>1. NotPassed(o)
            BY <1>3 DEF CursorInv, Looping
        <3>2. QED
            BY <1>3, <2>1, <3>1 DEF NotPassed
    <2>3. QED
        BY <1>3, <1>4, <2>1, <2>2 DEF CursorInv, AtWork
<1>7. QED
    BY <1>5, <1>6

\* The order recorded is one the poll may pass, and every other order that is
\* not recorded is on the page or no older than the page.
LEMMA CursorRecord ==
    ASSUME TypeOK, CursorInv, Record
    PROVE  CursorInv'
<1> DEFINE e == poll.entry
<1>1. CursorTypes /\ poll.pc = "record" /\ e \in poll.page
    BY CursorTyped DEF Record, CursorInv, AtWork
<1>2. e \in Entry /\ e.id \in Order /\ e.at \in Nat /\ e.at <= now
    BY <1>1 DEF CursorTypes, Entry, CursorInv
<1>3. /\ now' = now /\ store' = store /\ orders' = orders /\ Placed' = Placed
      /\ events' = [events EXCEPT ![e.id] = [lastActivity |-> e.at, processedAt |-> now]]
    BY DEF Record, tables, Placed
<1>4. Recorded' = Recorded \cup {e.id}
    BY <1>1, <1>2, <1>3 DEF Recorded, EventsType, CursorTypes, CursorInv
<1>5. /\ poll'.pc = "order" /\ poll'.page = poll.page \ {e}
      /\ poll'.high = IF e.at > poll.high THEN e.at ELSE poll.high
    BY <1>1 DEF Record, CursorTypes, PollType
<1>6. ASSUME NEW o \in Placed \ Recorded' PROVE NotPassed(o)'
    <2>1. NotPassed(o) /\ o # e.id
        BY <1>1, <1>4 DEF CursorInv, AtWork, Looping
    <2>2. CASE \E f \in poll.page : f.id = o
        BY <1>5, <2>1, <2>2 DEF NotPassed
    <2>3. CASE poll.high <= orders[o] /\ \A f \in poll.page : f.at <= orders[o]
        BY <1>1, <1>3, <1>5, <2>3 DEF NotPassed
    <2>4. QED
        BY <2>1, <2>2, <2>3 DEF NotPassed
<1>7. CursorIsHighWater'
    BY <1>3, <1>4 DEF CursorInv, CursorIsHighWater
<1>8. poll'.high <= now
    BY <1>2, <1>5 DEF CursorInv
<1>9. QED
    BY <1>3, <1>5, <1>6, <1>7, <1>8 DEF CursorInv, AtWork

\* With the page empty, an order not recorded is one the poll has not passed.
LEMMA CursorAdvances ==
    ASSUME TypeOK, CursorInv, AdvanceCursor
    PROVE  CursorInv'
<1>1. CursorTypes /\ poll.pc = "order" /\ poll.page = {}
    BY CursorTyped DEF AdvanceCursor
<1>2. /\ store'.cursor \in {poll.high, store.cursor}
    BY DEF AdvanceCursor, TypeOK, TablesTypeOK, StoreRow
<1>3. /\ now' = now /\ orders' = orders /\ events' = events
      /\ Placed' = Placed /\ Recorded' = Recorded
      /\ poll' = [poll EXCEPT !.pc = "success"]
    BY DEF AdvanceCursor, Placed, Recorded
<1>4. poll'.pc = "success" /\ poll'.page = {} /\ poll'.high = poll.high
    BY <1>1, <1>3 DEF CursorTypes, PollType
<1>5. ASSUME NEW o \in Placed, orders[o] < store'.cursor PROVE o \in Recorded
    <2>1. CASE store'.cursor = store.cursor
        BY <1>5, <2>1 DEF CursorInv, CursorIsHighWater
    <2>2. CASE store'.cursor = poll.high
        <3>1. o \in Recorded \/ NotPassed(o)
            BY <1>1 DEF CursorInv, Looping
        <3>2. orders[o] \in Nat /\ poll.high \in Nat
            BY <1>1 DEF CursorTypes, Placed
        <3>3. QED
            BY <1>1, <1>5, <2>2, <3>1, <3>2 DEF NotPassed
    <2>3. QED
        BY <1>2, <2>1, <2>2
<1>6. QED
    BY <1>2, <1>3, <1>4, <1>5 DEF CursorInv, CursorIsHighWater, AtWork, Looping

LEMMA CursorNext ==
    ASSUME OnePage
    PROVE  TypeOK /\ TypeOK' /\ CursorInv /\ [Next]_vars => CursorInv'
<1> SUFFICES ASSUME TypeOK, TypeOK', CursorInv, [Next]_vars PROVE CursorInv'
    OBVIOUS
<1>0. CursorTypes
    BY CursorTyped
<1>1. CASE Market
    BY <1>1, CursorMarket DEF Market
<1>2. CASE Tick \/ (\E l \in Clickable : ShopperClicks(l))
           \/ (\E l \in Listing : Stock(l)) \/ UNCHANGED vars
    <2>1. /\ now <= now' /\ orders' = orders /\ events' = events
          /\ store' = store /\ poll' = poll
        BY <1>0, <1>2
        DEF Tick, ShopperClicks, Click, Stock, InsertRows, vars, salesVars, tables,
            CursorTypes
    <2>2. QED
        BY <2>1, CursorFrame
<1>3. CASE FindListings
    <2>1. PICK pc \in AtWork : \E found :
            poll' = [poll EXCEPT !.found = found, !.pc = pc]
        BY <1>3 DEF FindListings, AtWork
    <2>2. /\ poll'.pc \in AtWork /\ poll.pc = "find" /\ poll'.entry = poll.entry
          /\ poll'.page = poll.page /\ poll'.high = poll.high
        BY <1>0, <1>3, <2>1 DEF FindListings, CursorTypes, PollType
    <2>3. QED
        BY <1>0, <1>3, <2>2, CursorFrame
        DEF FindListings, tables, AtWork, Looping, CursorTypes
<1>4. CASE DeleteListings
    <2>1. PICK pc \in AtWork : poll' = [poll EXCEPT !.pc = pc]
        BY <1>4 DEF DeleteListings, AtWork
    <2>2. /\ poll'.pc \in AtWork /\ poll.pc = "delete" /\ poll'.entry = poll.entry
          /\ poll'.page = poll.page /\ poll'.high = poll.high
        BY <1>0, <1>4, <2>1 DEF DeleteListings, CursorTypes, PollType
    <2>3. QED
        BY <1>0, <1>4, <2>2, CursorFrame
        DEF DeleteListings, AtWork, Looping, CursorTypes
<1>5. CASE UpdateStoreState
    <2>1. PICK pc \in AtWork : poll' = [poll EXCEPT !.pc = pc]
        BY <1>5 DEF UpdateStoreState, AtWork
    <2>2. /\ poll'.pc \in AtWork /\ poll.pc = "bump" /\ poll'.entry = poll.entry
          /\ poll'.page = poll.page /\ poll'.high = poll.high
        BY <1>0, <1>5, <2>1 DEF UpdateStoreState, CursorTypes, PollType
    <2>3. store'.cursor = store.cursor
        BY <1>5 DEF UpdateStoreState, TypeOK, TablesTypeOK, StoreRow
    <2>4. QED
        BY <1>0, <1>5, <2>2, <2>3, CursorFrame
        DEF UpdateStoreState, AtWork, Looping, CursorTypes
<1>6. CASE PollStart \/ FetchFails \/ DeleteRefused \/ PollCrash \/ EnqueueCuration
    <2>1. /\ now' = now /\ orders' = orders /\ events' = events
          /\ store'.cursor = store.cursor
        BY <1>6
        DEF PollStart, FetchFails, DeleteRefused, PollFails, PollCrash,
            EnqueueCuration, tables, TypeOK, TablesTypeOK, StoreRow
    <2>2. poll' = IdlePoll \/ poll' = [IdlePoll EXCEPT !.pc = "fetch"]
        BY <1>6
        DEF PollStart, FetchFails, DeleteRefused, PollFails, PollCrash, EnqueueCuration
    <2>3. poll'.page = {} /\ poll'.high <= now /\ poll'.pc \notin Looping
        BY <1>0, <2>2 DEF IdlePoll, AtWork, Looping, CursorTypes
    <2>4. QED
        BY <2>1, <2>3, CursorOutside
<1>7. CASE MarkSuccess
    <2>1. store'.cursor = store.cursor
        BY <1>7 DEF MarkSuccess, TypeOK, TablesTypeOK, StoreRow
    <2>2. CASE poll' = IdlePoll
        <3>1. poll'.page = {} /\ poll'.high <= now /\ poll'.pc \notin Looping
            BY <1>0, <2>2 DEF IdlePoll, AtWork, Looping, CursorTypes
        <3>2. QED
            BY <1>7, <2>1, <3>1, CursorOutside DEF MarkSuccess
    <2>3. CASE poll' = [poll EXCEPT !.pc = "enqueue"]
        <3>1. /\ poll'.pc = "enqueue" /\ poll'.entry = poll.entry
              /\ poll'.page = poll.page /\ poll'.high = poll.high
            BY <1>0, <2>3 DEF CursorTypes, PollType
        <3>2. QED
            BY <1>0, <1>7, <2>1, <3>1, CursorFrame
            DEF MarkSuccess, AtWork, Looping, CursorTypes
    <2>4. QED
        BY <1>7, <2>2, <2>3 DEF MarkSuccess
<1>8. QED
    BY <1>1, <1>2, <1>3, <1>4, <1>5, <1>6, <1>7, CursorFetch, CursorDeduplicate,
       CursorRecord, CursorAdvances
    DEF Next, PollStep, PollFault

\* As long as every order fits the page that is fetched, an order active before
\* the cursor has been processed, in every poll and after any number of failed
\* requests and crashes: the cursor takes the newest activity of a loop that has
\* ended, and a loop ends only when it has left out nothing older.
THEOREM CursorIsSound ==
    ASSUME IsFiniteSet(Order), Cardinality(Order) <= PageSize
    PROVE  Spec => []CursorIsHighWater
<1>1. OnePage
    BY DEF OnePage
<1>2. CursorInv => CursorIsHighWater
    BY DEF CursorInv
<1>3. TypeOK /\ TypeOK' /\ CursorInv /\ [Next]_vars => CursorInv'
    BY <1>1, CursorNext
<1>4. QED
    BY <1>2, <1>3, TypeCorrect, CursorInit, PTL DEF Spec

=============================================================================
