----------------------------- MODULE RateLimiter -----------------------------
(***************************************************************************)
(* The token bucket of one API client (internal/auth/rate_limit.go): a Lua *)
(* script that Redis runs atomically for every API replica. The replica    *)
(* passes its own clock, which may be ahead of real time by up to Skew;    *)
(* Redis forgets a bucket that is not touched for TTL seconds.             *)
(*                                                                         *)
(* The script refills Capacity / Period tokens a second (Period is 60);    *)
(* here tokens are counted in units of 1/Period, so that one second adds   *)
(* Capacity units and a request takes Period. Fractions of a second and    *)
(* the rounding of Lua's doubles are left out.                             *)
(***************************************************************************)
EXTENDS Integers

CONSTANTS
    Capacity,  \* requests per minute
    Period,    \* seconds per minute: 60
    TTL,       \* EXPIRE of the bucket: 120
    Skew,      \* bound: how far a replica's clock may be ahead
    MaxTime    \* bound: length of a run

ASSUME RateAssumption ==
    /\ Capacity \in Nat \ {0} /\ Period \in Nat \ {0}
    /\ Skew \in Nat /\ MaxTime \in Nat
    /\ TTL \in Nat /\ TTL >= Period + Skew

VARIABLES
    now,       \* real time, which is also Redis's
    touched,   \* when the script last ran; -1 before its first run
    tokens,    \* field tokens of the bucket
    updated,   \* field updated of the bucket
    start,     \* history: start of the window that is being measured
    inWindow,  \* history: the script has run in the window
    passed     \* history: requests let through in the window

rateVars == <<now, touched, tokens, updated, start, inWindow, passed>>

Full == Capacity * Period

RateInit ==
    /\ now = 0 /\ touched = -1
    /\ tokens = 0 /\ updated = 0
    /\ start = 0 /\ inWindow = FALSE /\ passed = 0

------------------------------------------------------------------------------
\* Variant: the bucket expires before it could have refilled.
PresentBriefly == touched >= 0 /\ now < touched + 1

\* HMGET finds the bucket.
Present == touched >= 0 /\ now < touched + TTL

\* Variant: the refill is not capped.
RefilledUncapped(clock) ==
    IF Present THEN tokens + (clock - updated) * Capacity ELSE Full

\* math.min(capacity, tokens + (now - updated) * rate), where a missing bucket
\* is full.
Refilled(clock) ==
    LET t == tokens + (clock - updated) * Capacity
    IN  IF Present /\ t <= Full THEN t ELSE Full

\* The script runs with the clock of some replica.
Touch(clock, left) ==
    /\ tokens' = left
    /\ updated' = clock
    /\ touched' = now
    /\ inWindow' = TRUE
    /\ UNCHANGED <<now, start>>

\* The script takes a token and the middleware lets the request through; or the
\* answer of Redis is lost and the request is refused although it has paid.
Allow(clock) ==
    /\ Refilled(clock) >= Period
    /\ Touch(clock, Refilled(clock) - Period)
    /\ passed' \in {passed, passed + 1}

\* Variant: a refused request is charged.
RefuseCharged(clock) ==
    /\ Refilled(clock) < Period
    /\ Touch(clock, Refilled(clock) - Period)
    /\ UNCHANGED passed

\* The bucket is empty: it is written back all the same.
Refuse(clock) ==
    /\ Refilled(clock) < Period
    /\ Touch(clock, Refilled(clock))
    /\ UNCHANGED passed

Tick ==
    /\ now < MaxTime
    /\ now' = now + 1
    /\ UNCHANGED <<touched, tokens, updated, start, inWindow, passed>>

\* A measurement may begin at any time.
StartWindow ==
    /\ start' = now /\ inWindow' = FALSE /\ passed' = 0
    /\ UNCHANGED <<now, touched, tokens, updated>>

RateNext ==
    \/ \E clock \in now..(now + Skew) : Allow(clock) \/ Refuse(clock)
    \/ Tick
    \/ StartWindow

RateSpec == RateInit /\ [][RateNext]_rateVars

------------------------------------------------------------------------------
\* Properties.

\* The bucket never holds more than the capacity, and skewed clocks can drive
\* it below zero by no more than the skew is worth.
RateTypeOK ==
    /\ now \in Nat /\ start \in 0..now
    /\ touched \in -1..now
    /\ tokens \in -(Capacity * Skew)..Full
    /\ updated \in 0..(now + Skew)
    /\ inWindow \in BOOLEAN
    /\ passed \in Nat

\* However the replicas' clocks disagree and although Redis forgets idle
\* buckets, no window of time lets more requests through than a full bucket and
\* the refill of the window, stretched by the skew.
WindowBound == passed * Period <= Full + Capacity * (now - start + Skew)

\* Refused requests write the bucket too, but never lock the client out: a
\* client that pauses for the time of one token, and the skew, is let through.
NeverLockedOut ==
    touched >= 0 /\ Capacity * (now - touched - Skew) >= Period
        => \A clock \in now..(now + Skew) : Refilled(clock) >= Period

------------------------------------------------------------------------------
\* The inductive invariant: what the tokens left in the bucket say about the
\* requests that passed, and about the pause that would be needed.

\* A clock seen so far is at most Skew ahead of the last touch.
BucketInv ==
    touched >= 0 =>
        /\ touched <= updated /\ updated <= touched + Skew
        /\ tokens >= Capacity * (updated - touched - Skew)

WindowInv ==
    IF inWindow
    THEN touched >= start /\ passed * Period + tokens <= Full + Capacity * (updated - start)
    ELSE passed = 0

RateInv == RateTypeOK /\ BucketInv /\ WindowInv
==============================================================================
