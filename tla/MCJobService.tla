----------------------------- MODULE MCJobService -----------------------------
(***************************************************************************)
(* The job service for TLC.                                                *)
(***************************************************************************)
EXTENDS JobService, TLC

ServiceSymmetry ==
    Permutations(Jobs) \cup Permutations(Handlers) \cup Permutations(Tenants)
        \cup Permutations(Hashes)
==============================================================================
