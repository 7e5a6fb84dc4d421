------------------------------ MODULE MCAccess -------------------------------
(***************************************************************************)
(* API keys and requests for TLC.                                          *)
(***************************************************************************)
EXTENDS Access, TLC

\* Identifiers of every kind are interchangeable.
AccessSymmetry == Permutations(Clients) \cup Permutations(Keys) \cup Permutations(Tenants)
                  \cup Permutations(Requests) \cup Permutations(Commands)
==============================================================================
