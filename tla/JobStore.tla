------------------------------- MODULE JobStore -------------------------------
(***************************************************************************)
(* The PostgreSQL repository (internal/job/repository.go): the jobs,       *)
(* job_attempts, dead_letter_jobs and job_events tables and one action for *)
(* each transaction that the API and the workers commit on them. A         *)
(* transaction that returns an error rolls back and is a stuttering step.  *)
(*                                                                         *)
(* Time is abstract. locked_until is "null", "live" (in the future) or     *)
(* "expired"; run_at is due or not; LeaseExpires and BecomesDue are the    *)
(* passage of time. The callers are arbitrary: any claim that was handed   *)
(* out may be finalized, extended or released at any later time, so what   *)
(* holds here holds whatever the workers do.                               *)
(***************************************************************************)
EXTENDS Lifecycle, FiniteSets, Sequences

CONSTANTS
    Jobs,               \* job identifiers, drawn by uuid.New()
    Workers,            \* worker identifiers, one per worker process
    NULL,               \* the SQL NULL
    MaxRetriesChoices,  \* values of max_retries a request may carry
    RequeueMaxRetries,  \* max_retries of a requeued job (3 in the code)
    BatchSize,          \* LIMIT of a claim
    MaxAttempts         \* bound: attempt rows a job may collect

ASSUME StoreAssumption ==
    /\ NULL \notin Jobs \cup Workers
    /\ MaxRetriesChoices \subseteq Nat
    /\ RequeueMaxRetries \in Nat
    /\ BatchSize \in Nat \ {0}
    /\ MaxAttempts \in Nat \ {0}

VARIABLES
    status,       \* jobs.status, or "ABSENT" before the row is inserted
    lockedBy,     \* jobs.locked_by
    lockedUntil,  \* jobs.locked_until against now()
    due,          \* jobs.run_at <= now()
    retryCount,   \* jobs.retry_count
    maxRetries,   \* jobs.max_retries
    source,       \* the dead-lettered job behind source_dead_letter_id
    attempts,     \* the job_attempts rows of a job, in insertion order
    deadLetters,  \* requeued_job_id of each dead_letter_jobs row of a job
    events        \* the job_events rows of the last transaction to write any;
                  \* they share one created_at, so readers see them in no order

jobVars == <<status, lockedBy, lockedUntil, due, retryCount, maxRetries, source>>
storeVars == <<jobVars, attempts, deadLetters, events>>

EventTypes == {"job.created", "job.started", "job.completed", "job.failed",
               "job.retry_scheduled", "job.dead_lettered", "job.cancelled",
               "job.paused", "job.scheduled", "job.requeued"}

AttemptStatuses == {"RUNNING", "SUCCEEDED", "FAILED", "CANCELLED"}

Attempt == [worker : Workers, number : Nat \ {0}, status : AttemptStatuses]

StoreInit ==
    /\ status = [j \in Jobs |-> "ABSENT"]
    /\ lockedBy = [j \in Jobs |-> NULL]
    /\ lockedUntil = [j \in Jobs |-> "null"]
    /\ due = [j \in Jobs |-> FALSE]
    /\ retryCount = [j \in Jobs |-> 0]
    /\ maxRetries = [j \in Jobs |-> 0]
    /\ source = [j \in Jobs |-> NULL]
    /\ attempts = [j \in Jobs |-> <<>>]
    /\ deadLetters = [j \in Jobs |-> <<>>]
    /\ events = [j \in Jobs |-> {}]

------------------------------------------------------------------------------
\* Shared parts of the statements.

\* WHERE locked_by = w AND status = 'RUNNING'.
Owns(j, w) == lockedBy[j] = w /\ status[j] = "RUNNING"

\* WHERE id = a AND status = 'RUNNING' on job_attempts.
AttemptRunning(j, a) == a \in DOMAIN attempts[j] /\ attempts[j][a].status = "RUNNING"

\* UPDATE job_attempts SET status = s WHERE job_id = j AND status = 'RUNNING'.
CloseRunning(rows, s) ==
    [a \in DOMAIN rows |->
        IF rows[a].status = "RUNNING" THEN [rows[a] EXCEPT !.status = s] ELSE rows[a]]

\* Variant: locked_until is forgotten.
UnlockOwnerOnly(S) ==
    /\ lockedBy' = [j \in Jobs |-> IF j \in S THEN NULL ELSE lockedBy[j]]
    /\ UNCHANGED lockedUntil

\* locked_by = NULL, locked_until = NULL for the jobs in S.
Unlock(S) ==
    /\ lockedBy' = [j \in Jobs |-> IF j \in S THEN NULL ELSE lockedBy[j]]
    /\ lockedUntil' = [j \in Jobs |-> IF j \in S THEN "null" ELSE lockedUntil[j]]

\* The row image of a fresh job; run_at in the future makes it SCHEDULED.
initialStatus(future) == IF future THEN "SCHEDULED" ELSE "PENDING"

InsertJob(j, future, max, src, event) ==
    /\ status[j] = "ABSENT"
    /\ status' = [status EXCEPT ![j] = initialStatus(future)]
    /\ due' = [due EXCEPT ![j] = ~future]
    /\ maxRetries' = [maxRetries EXCEPT ![j] = max]
    /\ source' = [source EXCEPT ![j] = src]
    /\ events' = [events EXCEPT ![j] = {event}]
    /\ UNCHANGED <<lockedBy, lockedUntil, retryCount, attempts>>

------------------------------------------------------------------------------
\* The transactions.

\* The INSERT of Create that meets no idempotency conflict.
Create(j, future, max) ==
    /\ InsertJob(j, future, max, NULL, "job.created")
    /\ UNCHANGED deadLetters

Claimable(j) ==
    /\ status[j] \in {"PENDING", "SCHEDULED", "RETRY_SCHEDULED"}
    /\ due[j]
    /\ lockedUntil[j] \in {"null", "expired"}

\* Variants: attempts are numbered from zero, or one too high.
NewAttemptFromZero(j, w) == [worker |-> w, number |-> retryCount[j], status |-> "RUNNING"]
NewAttemptHigh(j, w) == [worker |-> w, number |-> retryCount[j] + 2, status |-> "RUNNING"]

\* The row a claim inserts into job_attempts.
NewAttempt(j, w) == [worker |-> w, number |-> retryCount[j] + 1, status |-> "RUNNING"]

\* Leases a batch. Rows that other transactions hold are skipped, so any
\* subset of the claimable rows up to the batch size can be the result.
ClaimDueJobs(w, S) ==
    /\ S # {} /\ Cardinality(S) <= BatchSize
    /\ \A j \in S : Claimable(j) /\ Len(attempts[j]) < MaxAttempts
    /\ status' = [j \in Jobs |-> IF j \in S THEN "RUNNING" ELSE status[j]]
    /\ lockedBy' = [j \in Jobs |-> IF j \in S THEN w ELSE lockedBy[j]]
    /\ lockedUntil' = [j \in Jobs |-> IF j \in S THEN "live" ELSE lockedUntil[j]]
    /\ attempts' = [j \in Jobs |->
          IF j \in S THEN Append(attempts[j], NewAttempt(j, w)) ELSE attempts[j]]
    /\ events' = [j \in Jobs |-> IF j \in S THEN {"job.started"} ELSE events[j]]
    /\ UNCHANGED <<due, retryCount, maxRetries, source, deadLetters>>

\* The worker that claimed attempt a finalizes it as successful.
CompleteExecution(j, a) ==
    /\ AttemptRunning(j, a)
    /\ Owns(j, attempts[j][a].worker)
    /\ status' = [status EXCEPT ![j] = "SUCCEEDED"]
    /\ Unlock({j})
    /\ attempts' = [attempts EXCEPT ![j][a].status = "SUCCEEDED"]
    /\ events' = [events EXCEPT ![j] = {"job.completed"}]
    /\ UNCHANGED <<due, retryCount, maxRetries, source, deadLetters>>

\* The decision ProcessJob takes for attempt a. Its copy of retry_count is the
\* one read by the claim, which the attempt number records.
FailureOf(j, a) == DecideFailure(attempts[j][a].number - 1, maxRetries[j])

\* The worker that claimed attempt a finalizes it as failed. A Retry-After of
\* the receiver, which is positive, replaces the computed delay.
FailExecution(j, a, retryable, retryAfter) ==
    LET decision == FailureOf(j, a)
        dead == decision.status = "DEAD_LETTERED" \/ ~retryable
    IN  /\ AttemptRunning(j, a)
        /\ Owns(j, attempts[j][a].worker)
        /\ attempts' = [attempts EXCEPT ![j][a].status = "FAILED"]
        /\ status' = [status EXCEPT ![j] = IF dead THEN "DEAD_LETTERED" ELSE "RETRY_SCHEDULED"]
        /\ retryCount' = [retryCount EXCEPT ![j] = decision.nextRetryCount]
        /\ due' = [due EXCEPT ![j] =
              IF dead THEN due[j] ELSE ~retryAfter /\ decision.delay \in Elapsed]
        /\ Unlock({j})
        /\ deadLetters' = [deadLetters EXCEPT ![j] = IF dead THEN Append(@, NULL) ELSE @]
        /\ events' = [events EXCEPT ![j] =
              {"job.failed", IF dead THEN "job.dead_lettered" ELSE "job.retry_scheduled"}]
        /\ UNCHANGED <<maxRetries, source>>

\* Variant: whoever renews takes the lease over.
ExtendLeaseOfAnyone(j, w) ==
    /\ status[j] = "RUNNING"
    /\ lockedBy' = [lockedBy EXCEPT ![j] = w]
    /\ lockedUntil' = [lockedUntil EXCEPT ![j] = "live"]
    /\ UNCHANGED <<status, due, retryCount, maxRetries, source, attempts, deadLetters, events>>

\* Renews the lease of a RUNNING job for its owner.
ExtendLease(j, w) ==
    /\ Owns(j, w)
    /\ lockedUntil' = [lockedUntil EXCEPT ![j] = "live"]
    /\ UNCHANGED <<status, lockedBy, due, retryCount, maxRetries, source,
                   attempts, deadLetters, events>>

\* Gives a claim back after a Redis lock miss: only the jobs row is written.
ReleaseClaim(j, w) ==
    /\ Owns(j, w)
    /\ status' = [status EXCEPT ![j] = "RETRY_SCHEDULED"]
    /\ Unlock({j})
    /\ UNCHANGED <<due, retryCount, maxRetries, source, attempts, deadLetters, events>>

\* The event type "job." + lower(to).
TransitionEvent == [CANCELLED |-> "job.cancelled", PAUSED |-> "job.paused",
                    SCHEDULED |-> "job.scheduled", RETRY_SCHEDULED |-> "job.retry_scheduled"]

\* Variants: the timeline is forgotten, or the current state is not checked.
TransitionJobSilent(j, from, to) ==
    /\ status[j] \in from
    /\ status' = [status EXCEPT ![j] = to]
    /\ Unlock({j})
    /\ attempts' = [attempts EXCEPT ![j] =
          IF to = "CANCELLED" THEN CloseRunning(@, "CANCELLED") ELSE @]
    /\ UNCHANGED <<due, retryCount, maxRetries, source, deadLetters, events>>

TransitionJobBlind(j, from, to) ==
    /\ status' = [status EXCEPT ![j] = to]
    /\ Unlock({j})
    /\ events' = [events EXCEPT ![j] = {TransitionEvent[to]}]
    /\ UNCHANGED <<due, retryCount, maxRetries, source, attempts, deadLetters>>

\* An operator transition guarded by the current state.
TransitionJob(j, from, to) ==
    /\ status[j] \in from
    /\ status' = [status EXCEPT ![j] = to]
    /\ Unlock({j})
    /\ attempts' = [attempts EXCEPT ![j] =
          IF to = "CANCELLED" THEN CloseRunning(@, "CANCELLED") ELSE @]
    /\ events' = [events EXCEPT ![j] = {TransitionEvent[to]}]
    /\ UNCHANGED <<due, retryCount, maxRetries, source, deadLetters>>

\* Every RUNNING job in S has outlived its lease: its attempts fail and it is
\* retried or dead-lettered. Rows locked by other transactions are skipped.
RecoverExpiredRunningJobs(S) ==
    LET decision(j) == DecideFailure(retryCount[j], maxRetries[j])
        dead(j) == decision(j).status = "DEAD_LETTERED"
    IN  /\ S # {}
        /\ \A j \in S : status[j] = "RUNNING" /\ lockedUntil[j] = "expired"
        /\ attempts' = [j \in Jobs |->
              IF j \in S THEN CloseRunning(attempts[j], "FAILED") ELSE attempts[j]]
        /\ status' = [j \in Jobs |-> IF j \in S THEN decision(j).status ELSE status[j]]
        /\ retryCount' = [j \in Jobs |->
              IF j \in S THEN decision(j).nextRetryCount ELSE retryCount[j]]
        /\ due' = [j \in Jobs |->
              IF j \in S /\ ~dead(j) THEN decision(j).delay \in Elapsed ELSE due[j]]
        /\ Unlock(S)
        /\ deadLetters' = [j \in Jobs |->
              IF j \in S /\ dead(j) THEN Append(deadLetters[j], NULL) ELSE deadLetters[j]]
        /\ events' = [j \in Jobs |->
              IF j \in S THEN {IF dead(j) THEN "job.dead_lettered"
                                          ELSE "job.retry_scheduled"}
                         ELSE events[j]]
        /\ UNCHANGED <<maxRetries, source>>

\* Variant: requeued_at is not checked.
RequeueDeadLetterAgain(j, d, n) ==
    /\ d \in DOMAIN deadLetters[j]
    /\ InsertJob(n, FALSE, RequeueMaxRetries, j, "job.requeued")
    /\ deadLetters' = [deadLetters EXCEPT ![j][d] = n]

\* A fresh job n is linked to dead letter d of job j, which keeps its row.
RequeueDeadLetter(j, d, n) ==
    /\ d \in DOMAIN deadLetters[j] /\ deadLetters[j][d] = NULL
    /\ InsertJob(n, FALSE, RequeueMaxRetries, j, "job.requeued")
    /\ deadLetters' = [deadLetters EXCEPT ![j][d] = n]

------------------------------------------------------------------------------
\* The passage of time.

LeaseExpires(j) ==
    /\ lockedUntil[j] = "live"
    /\ lockedUntil' = [lockedUntil EXCEPT ![j] = "expired"]
    /\ UNCHANGED <<status, lockedBy, due, retryCount, maxRetries, source,
                   attempts, deadLetters, events>>

BecomesDue(j) ==
    /\ status[j] # "ABSENT" /\ ~due[j]
    /\ due' = [due EXCEPT ![j] = TRUE]
    /\ UNCHANGED <<status, lockedBy, lockedUntil, retryCount, maxRetries, source,
                   attempts, deadLetters, events>>

------------------------------------------------------------------------------
\* Variants: retry revives dead letters, as the transition table would allow;
\* pause stops a job that waits for its retry, which the table does not list.
OperationsRetryDead ==
    [cancel |-> [from |-> {"PENDING", "SCHEDULED", "RETRY_SCHEDULED", "RUNNING"},
                 to |-> "CANCELLED"],
     pause  |-> [from |-> {"PENDING", "SCHEDULED"}, to |-> "PAUSED"],
     resume |-> [from |-> {"PAUSED"}, to |-> "SCHEDULED"],
     retry  |-> [from |-> {"FAILED", "DEAD_LETTERED"}, to |-> "RETRY_SCHEDULED"]]

OperationsPauseRetries ==
    [OperationsRetryDead EXCEPT !.pause.from = @ \cup {"RETRY_SCHEDULED"},
                                !.retry.from = {"FAILED"}]

\* The operator requests of job.Service: the states each accepts and its target.
Operations ==
    [cancel |-> [from |-> {"PENDING", "SCHEDULED", "RETRY_SCHEDULED", "RUNNING"},
                 to |-> "CANCELLED"],
     pause  |-> [from |-> {"PENDING", "SCHEDULED"}, to |-> "PAUSED"],
     resume |-> [from |-> {"PAUSED"}, to |-> "SCHEDULED"],
     retry  |-> [from |-> {"FAILED"}, to |-> "RETRY_SCHEDULED"]]

JobNext(j) ==
    \/ \E future \in BOOLEAN, max \in MaxRetriesChoices : Create(j, future, max)
    \/ \E a \in DOMAIN attempts[j] : CompleteExecution(j, a)
    \/ \E a \in DOMAIN attempts[j], retryable, retryAfter \in BOOLEAN :
            FailExecution(j, a, retryable, retryAfter)
    \/ \E w \in Workers : ExtendLease(j, w)
    \/ \E w \in Workers : ReleaseClaim(j, w)
    \/ \E op \in DOMAIN Operations :
            TransitionJob(j, Operations[op].from, Operations[op].to)
    \/ \E d \in DOMAIN deadLetters[j], n \in Jobs : RequeueDeadLetter(j, d, n)
    \/ LeaseExpires(j)
    \/ BecomesDue(j)

StoreNext ==
    \/ \E j \in Jobs : JobNext(j)
    \/ \E w \in Workers, S \in SUBSET Jobs : ClaimDueJobs(w, S)
    \/ \E S \in SUBSET Jobs : RecoverExpiredRunningJobs(S)

StoreSpec == StoreInit /\ [][StoreNext]_storeVars

------------------------------------------------------------------------------
\* Properties.

\* The columns of the tables have the types the schema gives them.
TypeOK ==
    /\ status \in [Jobs -> Statuses \cup {"ABSENT"}]
    /\ lockedBy \in [Jobs -> Workers \cup {NULL}]
    /\ lockedUntil \in [Jobs -> {"null", "live", "expired"}]
    /\ due \in [Jobs -> BOOLEAN]
    /\ retryCount \in [Jobs -> Nat]
    /\ maxRetries \in [Jobs -> Nat]
    /\ source \in [Jobs -> Jobs \cup {NULL}]
    /\ attempts \in [Jobs -> Seq(Attempt)]
    /\ deadLetters \in [Jobs -> Seq(Jobs \cup {NULL})]
    /\ events \in [Jobs -> SUBSET EventTypes]

\* Ownership and state agree in every committed state: a job has an owner and
\* a lease exactly while it is RUNNING. Every one of the seven statements that
\* move a job out of RUNNING must clear both lock columns, or the row could
\* never be claimed, recovered or finalized correctly again.
OwnedWhileRunning ==
    \A j \in Jobs : /\ lockedBy[j] # NULL <=> status[j] = "RUNNING"
                    /\ lockedUntil[j] # "null" <=> status[j] = "RUNNING"

\* "observers can never see a RUNNING job without its active attempt/event"
\* (ClaimDueJobs): the newest attempt of a RUNNING job is RUNNING and belongs to
\* the job's owner. Every close of an attempt must therefore move the job on in
\* the same commit, and no finalization can match another worker's claim.
RunningHasAttempt ==
    \A j \in Jobs : status[j] = "RUNNING" =>
        /\ attempts[j] # <<>>
        /\ attempts[j][Len(attempts[j])].status = "RUNNING"
        /\ attempts[j][Len(attempts[j])].worker = lockedBy[j]

\* The retry budget is kept by two independent writers of retry_count (the
\* worker, from the copy it claimed, and recovery, from the row): a job that
\* can still run has not used more than max_retries, and a dead one has used
\* at most one more.
WithinRetryBudget ==
    \A j \in Jobs : retryCount[j] <= IF status[j] = "DEAD_LETTERED"
                                     THEN maxRetries[j] + 1 ELSE maxRetries[j]

\* No attempt is numbered beyond the first try and max_retries more, so the
\* X-Scheduler-Attempt header that a receiver sees is bounded.
AttemptsWithinBudget ==
    \A j \in Jobs : \A a \in DOMAIN attempts[j] : attempts[j][a].number <= maxRetries[j] + 1

\* A job has one dead-letter row when it is DEAD_LETTERED and none otherwise,
\* although a worker and recovery both insert one and the table has no
\* unique index on original_job_id.
OneDeadLetter ==
    \A j \in Jobs : Len(deadLetters[j]) = IF status[j] = "DEAD_LETTERED" THEN 1 ELSE 0

\* Requeueing links exactly one fresh job to a dead letter: requeued_job_id and
\* source_dead_letter_id are inverse to each other, so two operators requeueing
\* the same dead letter never start two jobs.
RequeuedOnce ==
    \A j, n \in Jobs : source[n] = j <=> \E d \in DOMAIN deadLetters[j] : deadLetters[j][d] = n

\* A row that is not inserted yet has left no trace in any table.
AbsentIsBlank ==
    \A j \in Jobs : status[j] = "ABSENT" =>
        attempts[j] = <<>> /\ retryCount[j] = 0 /\ source[j] = NULL

\* The inductive invariant of the store.
StoreInv ==
    /\ TypeOK /\ OwnedWhileRunning /\ RunningHasAttempt
    /\ WithinRetryBudget /\ AttemptsWithinBudget
    /\ OneDeadLetter /\ RequeuedOnce /\ AbsentIsBlank

\* The events that report a state.
StateEvents ==
    [PENDING         |-> {"job.created", "job.requeued"},
     SCHEDULED       |-> {"job.created", "job.scheduled"},
     RUNNING         |-> {"job.started"},
     SUCCEEDED       |-> {"job.completed"},
     FAILED          |-> {},
     RETRY_SCHEDULED |-> {"job.retry_scheduled"},
     DEAD_LETTERED   |-> {"job.dead_lettered"},
     CANCELLED       |-> {"job.cancelled"},
     PAUSED          |-> {"job.paused"}]

\* "state and event creation cannot diverge" (code-guide.md): the newest events
\* of a job report its state, so a consumer that follows the timeline is never
\* wrong about it, with one exception: ReleaseClaim writes no event, so a claim
\* given back after a lock miss leaves RETRY_SCHEDULED behind job.started.
TimelineAgrees ==
    \A j \in Jobs : status[j] # "ABSENT" =>
        \/ events[j] \cap StateEvents[status[j]] # {}
        \/ status[j] = "RETRY_SCHEDULED" /\ events[j] = {"job.started"}

\* Its inductive form: a claim leaves job.started as the only newest event, so
\* ReleaseClaim, which writes none, leaves exactly the exception behind.
TimelineInv ==
    /\ TimelineAgrees
    /\ \A j \in Jobs : status[j] = "RUNNING" => events[j] = {"job.started"}

\* Whatever transaction commits, a job follows the central transition table,
\* which the worker-side statements do not consult, and a finished job never
\* changes state again (a dead letter is requeued as another job).
LegalMove(j) ==
    status'[j] # status[j] =>
        \/ status[j] = "ABSENT" /\ status'[j] \in {"PENDING", "SCHEDULED"}
        \/ CanTransition(status[j], status'[j]) /\ status[j] # "DEAD_LETTERED"

LegalStep == \A j \in Jobs : LegalMove(j)

LegalSteps == [][LegalStep]_storeVars

\* A failed job waits for its backoff: the commit that schedules a retry never
\* leaves the job due already, although the delay is doubled without a cap in a
\* signed integer, as long as the exact delay fits that integer. Retry-After
\* keeps early retries cheap, so that attempt numbers beyond the limit are
\* reached; there the delay wraps and the job is due at once.
BackoffHonoured ==
    [][\A j \in Jobs :
          status[j] = "RUNNING" /\ "job.retry_scheduled" \in events'[j] \ events[j]
             => ~due'[j] \/ ~Representable(retryCount'[j])]_storeVars
==============================================================================
