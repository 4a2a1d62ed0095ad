--------------------------- MODULE MCSalesPolling ---------------------------
(***************************************************************************)
(* SalesPolling with two orders that share a listing: l1 alone, and l1     *)
(* with l2 (a cancelled sale sold again).                                 *)
(***************************************************************************)
EXTENDS SalesPolling, TLC

CONSTANTS l1, l2, o1, o2

MCListing == {l1, l2}
MCOrder == {o1, o2}
MCItems == (o1 :> {l1}) @@ (o2 :> {l1, l2})

=============================================================================
