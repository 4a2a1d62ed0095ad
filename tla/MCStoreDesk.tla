---------------------------- MODULE MCStoreDesk -----------------------------
(* Two stores: one that waits for its first enrichment, and one that is       *)
(* healthy, or partial, and that click events refer to.                       *)
EXTENDS StoreDesk, TLC

CONSTANTS s1, s2

TwoStores == { s1, s2 }

NewStore ==
    [status |-> [k \in Kinds |-> "idle"], partial |-> FALSE,
     last |-> [k \in Kinds |-> Never]]

OldStore(partial) ==
    [status |-> [k \in Kinds |-> "idle"], partial |-> partial,
     last |-> [k \in Kinds |-> 1]]

MCFirstRows ==
    { (s1 :> NewStore) @@ (s2 :> OldStore(partial)) : partial \in BOOLEAN }

MCSearches == { TwoStores, { s1 } }

=============================================================================
