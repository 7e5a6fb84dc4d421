---------------------------- MODULE MCTransactions ----------------------------
(***************************************************************************)
(* The repository's transactions for TLC.                                  *)
(***************************************************************************)
EXTENDS Transactions, TLC

\* Identifiers are interchangeable.
TxnSymmetry == Permutations(Jobs) \cup Permutations(Workers) \cup Permutations(Sessions)
==============================================================================
