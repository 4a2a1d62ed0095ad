------------------------------ MODULE MCPages -------------------------------
(***************************************************************************)
(* One applicant's name and one other required field; a crate with covers  *)
(* on both sides of the radius, and a short one.                           *)
(***************************************************************************)
EXTENDS Pages

MCSizes == <<4, 1>>
=============================================================================
