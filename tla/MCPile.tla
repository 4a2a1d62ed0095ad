------------------------------- MODULE MCPile -------------------------------
(***************************************************************************)
(* Pile with two records of one store and one of another that has no       *)
(* handoff to Discogs.                                                     *)
(***************************************************************************)
EXTENDS Pile, TLC

CONSTANTS s1, s2, r1, r2, r3

MCStoreOf == r1 :> s1 @@ r2 :> s1 @@ r3 :> s2

=============================================================================
