---------------------------- MODULE MCStorefront ----------------------------
(***************************************************************************)
(* Storefront with one order, one sync worker, one builder of pages and    *)
(* one midnight.                                                           *)
(***************************************************************************)
EXTENDS Storefront, FiniteSets, TLC

CONSTANTS l1, l2, o1, w1, b1, b2

MCListing == {l1, l2}
MCItems == o1 :> {l1}

\* Bound: entries are looked up, written and evicted each by its own key, so
\* what is said of one page takes one entry of the cache at a time.
OnePage == Cardinality(cache) <= 1

=============================================================================
