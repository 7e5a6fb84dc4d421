------------------------------ MODULE MCJobStore ------------------------------
(***************************************************************************)
(* The job store for TLC: identifiers are interchangeable.                 *)
(***************************************************************************)
EXTENDS JobStore, TLC

Symmetry == Permutations(Jobs) \cup Permutations(Workers)
==============================================================================
