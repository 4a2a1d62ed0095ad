---------------------------- MODULE OrderLedger ----------------------------
(***************************************************************************)
(* What sales polling promises, without how: a row leaves the shelf only   *)
(* because its listing was sold, an order is settled only once none of its *)
(* listings is left on the shelf, and a settled order stays settled.       *)
(***************************************************************************)
CONSTANTS Listing, Order, Items

VARIABLES shelf, placed, settled

ledger == <<shelf, placed, settled>>

Sold == UNION {Items[o] : o \in placed}

Init ==
    /\ shelf \in SUBSET Listing
    /\ placed = {}
    /\ settled = {}

\* A new record arrives in the store.
Stock(l) ==
    /\ l \notin Sold
    /\ shelf' = shelf \cup {l}
    /\ UNCHANGED <<placed, settled>>

Sell(o) ==
    /\ o \notin placed
    /\ placed' = placed \cup {o}
    /\ UNCHANGED <<shelf, settled>>

Remove(S) ==
    /\ S \subseteq Sold
    /\ shelf' = shelf \ S
    /\ UNCHANGED <<placed, settled>>

Settle(o) ==
    /\ o \in placed
    /\ Items[o] \cap shelf = {}
    /\ settled' = settled \cup {o}
    /\ UNCHANGED <<shelf, placed>>

Next ==
    \/ \E l \in Listing : Stock(l)
    \/ \E o \in Order : Sell(o) \/ Settle(o)
    \/ \E S \in SUBSET Listing : Remove(S)

Spec == Init /\ [][Next]_ledger

=============================================================================
