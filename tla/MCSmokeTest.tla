----------------------------- MODULE MCSmokeTest -----------------------------
(***************************************************************************)
(* The plan of the script; ThePlan needs no constant of the module.        *)
(***************************************************************************)
EXTENDS SmokeTest
=============================================================================
