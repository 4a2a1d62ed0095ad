-------------------------- MODULE MCInventorySync --------------------------
(***************************************************************************)
(* InventorySync with two listings.  One worker shows what a sync does on  *)
(* its own; two show what overlapping syncs do.                            *)
(***************************************************************************)
EXTENDS InventorySync

CONSTANTS l1, l2, w1, w2

MCListing == {l1, l2}
OneWorker == {w1}
TwoWorkers == {w1, w2}

=============================================================================
