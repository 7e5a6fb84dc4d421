---------------------------- MODULE MCRateLimiter ----------------------------
(***************************************************************************)
(* The token bucket for TLC: a short period instead of a minute.           *)
(***************************************************************************)
EXTENDS RateLimiter
==============================================================================
