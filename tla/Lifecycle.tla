------------------------------ MODULE Lifecycle ------------------------------
(***************************************************************************)
(* The rules package internal/scheduler: the persisted job states, the     *)
(* central transition table and the single retry / dead-letter decision.   *)
(* It has no state of its own; the store and the services are built on it. *)
(***************************************************************************)
EXTENDS Integers

CONSTANTS
    Backoff,         \* retry_backoff_seconds of a job; nothing updates it
    DefaultBackoff,  \* the base for a job without one (30 in the code)
    Second,          \* time.Second: units of a time.Duration (10^9)
    Width            \* bits of a time.Duration (64)

ASSUME BackoffAssumption ==
    /\ Backoff \in Int
    /\ {DefaultBackoff, Second, Width} \subseteq Nat \ {0}

\* The values of jobs.status.
Statuses == {"PENDING", "SCHEDULED", "RUNNING", "SUCCEEDED", "FAILED",
             "RETRY_SCHEDULED", "DEAD_LETTERED", "CANCELLED", "PAUSED"}

\* The table `transitions`, as the set of its (from, to) pairs.
Transitions ==
         ({"PENDING", "SCHEDULED"} \X {"RUNNING", "CANCELLED", "PAUSED"})
    \cup ({"RUNNING"} \X {"SUCCEEDED", "FAILED", "RETRY_SCHEDULED",
                          "DEAD_LETTERED", "CANCELLED"})
    \cup ({"FAILED"} \X {"RETRY_SCHEDULED", "DEAD_LETTERED"})
    \cup ({"RETRY_SCHEDULED"} \X {"RUNNING", "CANCELLED", "DEAD_LETTERED"})
    \cup ({"PAUSED"} \X {"SCHEDULED"})
    \cup ({"DEAD_LETTERED"} \X {"RETRY_SCHEDULED"})

CanTransition(from, to) == <<from, to>> \in Transitions

\* A time.Duration is a signed integer that wraps around.
Duration(d) == ((d + 2^(Width - 1)) % 2^Width) - 2^(Width - 1)

Base == IF Backoff <= 0 THEN DefaultBackoff ELSE Backoff

\* Variant: the delay is doubled once more than it should be.
NextRetryAtLate(attempt) ==
    LET delay[i \in 0..attempt] ==
            IF i = 0 THEN Duration(Base * Second) ELSE Duration(2 * delay[i - 1])
    IN  delay[attempt]

\* The delay until a numbered attempt: the base, doubled once for every attempt
\* after the first, without a cap.
NextRetryAt(attempt) ==
    LET n == IF attempt < 1 THEN 1 ELSE attempt
        delay[i \in 1..n] ==
            IF i = 1 THEN Duration(Base * Second) ELSE Duration(2 * delay[i - 1])
    IN  delay[n]

\* The exact delay of an attempt fits a time.Duration.
Representable(attempt) == Base * Second * 2^(attempt - 1) < 2^(Width - 1)

\* Variant: an off-by-one in the budget test allows one retry too many.
DecideFailureLate(retryCount, maxRetries) ==
    [status         |-> IF retryCount > maxRetries THEN "DEAD_LETTERED" ELSE "RETRY_SCHEDULED",
     nextRetryCount |-> retryCount + 1,
     delay          |-> NextRetryAt(retryCount + 1)]

\* The next persisted state after an execution error: one more retry is
\* counted, and the job is dead-lettered when that exceeds its budget.
DecideFailure(retryCount, maxRetries) ==
    [status         |-> IF retryCount + 1 > maxRetries
                        THEN "DEAD_LETTERED" ELSE "RETRY_SCHEDULED",
     nextRetryCount |-> retryCount + 1,
     delay          |-> NextRetryAt(retryCount + 1)]

\* Delays after which a job is due at once: run_at is not in the future.
Elapsed == {d \in Int : d <= 0}
==============================================================================
