--------------------------- MODULE MCWorkerService ---------------------------
(***************************************************************************)
(* The worker processes for TLC.                                           *)
(***************************************************************************)
EXTENDS WorkerService, TLC

\* Job identifiers are interchangeable; workers differ in whether they stop.
JobSymmetry == Permutations(Jobs)
==============================================================================
