------------------------------ MODULE MCRegistry ------------------------------
(***************************************************************************)
(* The worker registry for TLC; no symmetry, since liveness is checked.     *)
(***************************************************************************)
EXTENDS Registry
==============================================================================
