----------------------------- MODULE PileLedger -----------------------------
(***************************************************************************)
(* What a shopper's piles promise: one pile for every store, a list of     *)
(* records of that store without repetition, which changes by one record   *)
(* at a time, or is emptied, and survives everything else the shopper      *)
(* does (reloading, leaving, visiting another store, connecting).          *)
(***************************************************************************)
EXTENDS Naturals, Sequences

CONSTANTS Stores, Records

VARIABLE shelf   \* the pile of every store

Listed(pile) == { pile[i] : i \in DOMAIN pile }

Init == shelf \in [Stores -> Seq(Records)]

\* A record the pile does not hold is put at its end.
Put(s, r) ==
    /\ r \notin Listed(shelf[s])
    /\ shelf' = [shelf EXCEPT ![s] = Append(@, r)]

\* A pile without the record at a place; the others keep their order.
Removal(pile, i) == SubSeq(pile, 1, i - 1) \o SubSeq(pile, i + 1, Len(pile))

Take(s, i) == shelf' = [shelf EXCEPT ![s] = Removal(@, i)]

Empty(s) == shelf' = [shelf EXCEPT ![s] = <<>>]

Next == \E s \in Stores :
    \/ \E r \in Records : Put(s, r)
    \/ \E i \in DOMAIN shelf[s] : Take(s, i)
    \/ Empty(s)

Spec == Init /\ [][Next]_shelf
=============================================================================
