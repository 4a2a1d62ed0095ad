---------------------------- MODULE MCSellerTab ----------------------------
(***************************************************************************)
(* Ann has a name that can be a seller's and a stock, bob has neither, and *)
(* two lookups can be in flight.                                           *)
(***************************************************************************)
EXTENDS SellerTab

CONSTANTS ann, bob
=============================================================================
