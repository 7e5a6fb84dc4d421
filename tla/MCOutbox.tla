------------------------------- MODULE MCOutbox -------------------------------
(* The outbox for TLC: two events of one job. *)
EXTENDS Outbox

CONSTANT j1

TwoEvents == <<j1, j1>>
==============================================================================
