---------------------------- MODULE WorkerService ----------------------------
(***************************************************************************)
(* The worker processes (internal/worker/service.go) over the job store    *)
(* and the Redis execution lock (internal/lock/redis_lock.go).             *)
(*                                                                         *)
(* A worker is one poll loop, a fixed number of slots that take claimed    *)
(* jobs from an unbuffered channel, and one lease renewer per executing    *)
(* slot. Every call to PostgreSQL or Redis is a step of its own, so        *)
(* everything else can happen between any two of them; it can also fail,   *)
(* or take effect and lose its answer. A worker can be shut down (its      *)
(* context is cancelled) or crash at any point; its identifier is drawn    *)
(* afresh by every process, so it never comes back.                        *)
(***************************************************************************)
EXTENDS JobStore

CONSTANTS
    Concurrency,   \* slots per worker
    RedisTimely,   \* TRUE: a Redis key outlives the handler of the slot that
                   \* renews it, so only keys without a running handler lapse
    MayStop,       \* workers that may be shut down or crash
    Operators      \* operations that operators may request

Slots == Workers \X (1..Concurrency)
Claims == [job : Jobs, attempt : Nat \ {0}]

ASSUME WorkerAssumption ==
    /\ NULL \notin Claims
    /\ Concurrency \in Nat \ {0}
    /\ RedisTimely \in BOOLEAN
    /\ MayStop \subseteq Workers
    /\ Operators \subseteq DOMAIN Operations

VARIABLES
    redis,    \* the owner stored under lock:job:<j>, or NULL
    phase,    \* "up", "stopping" (context cancelled) or "gone"
    poll,     \* next step of the poll loop
    backlog,  \* claims the poll loop has yet to send to a slot
    pc,       \* next step of a slot
    claim,    \* the claim a slot works on
    renewer   \* next step of a slot's lease renewer

workerVars == <<phase, poll, backlog, pc, claim, renewer>>
vars == <<storeVars, redis, workerVars>>

\* What Execute returns, as ClassifyError sees it: success (2xx), a retryable
\* error (timeouts, cancelled contexts, network and read errors, 408, 429, 5xx),
\* "later" (a retryable response that carries a Retry-After) or a permanent one
\* (unsupported type, invalid request, other responses).
Outcomes == {"succeeded", "retryable", "later", "permanent"}

ClassifyError(outcome) == outcome # "permanent"

\* A whole number of seconds, capped at 15 minutes.
retryAfter(outcome) == outcome = "later"

SlotSteps == {"idle", "acquire", "giveBack", "execute", "release"} \cup Outcomes

WorkerInit ==
    /\ StoreInit
    /\ redis = [j \in Jobs |-> NULL]
    /\ phase = [w \in Workers |-> "up"]
    /\ poll = [w \in Workers |-> "recover"]
    /\ backlog = [w \in Workers |-> {}]
    /\ pc = [s \in Slots |-> "idle"]
    /\ claim = [s \in Slots |-> NULL]
    /\ renewer = [s \in Slots |-> "off"]

Up(w) == phase[w] = "up"
WorkerOf(s) == s[1]

------------------------------------------------------------------------------
\* The poll loop of Run: recover, then claim, then send the batch slot by slot.

\* Variant: a worker recovers only the jobs it leased itself.
RecoverOwn(w) ==
    /\ Up(w) /\ poll[w] = "recover"
    /\ \/ \E S \in SUBSET {j \in Jobs : lockedBy[j] = w} : RecoverExpiredRunningJobs(S)
       \/ UNCHANGED storeVars
    /\ poll' = [poll EXCEPT ![w] = "claim"]
    /\ UNCHANGED <<redis, phase, backlog, pc, claim, renewer>>

Recover(w) ==
    /\ Up(w) /\ poll[w] = "recover"
    /\ \/ \E S \in SUBSET Jobs : RecoverExpiredRunningJobs(S)
       \/ UNCHANGED storeVars
    /\ poll' = [poll EXCEPT ![w] = "claim"]
    /\ UNCHANGED <<redis, phase, backlog, pc, claim, renewer>>

\* The batch as the poll loop sees it: each job with its fresh attempt.
Batch(S) == {[job |-> j, attempt |-> Len(attempts[j]) + 1] : j \in S}

Claim(w) ==
    /\ Up(w) /\ poll[w] = "claim"
    /\ \E S \in SUBSET Jobs :
          /\ ClaimDueJobs(w, S)
          /\ backlog' = [backlog EXCEPT ![w] = Batch(S)]
    /\ poll' = [poll EXCEPT ![w] = "send"]
    /\ UNCHANGED <<redis, phase, pc, claim, renewer>>

\* Nothing is claimable, or ClaimDueJobs returns an error. The error may hide
\* a commit: then the jobs are leased and no slot will ever see them.
ClaimNothing(w) ==
    /\ Up(w) /\ poll[w] = "claim"
    /\ \/ UNCHANGED storeVars
       \/ \E S \in SUBSET Jobs : ClaimDueJobs(w, S)
    /\ poll' = [poll EXCEPT ![w] = "recover"]
    /\ UNCHANGED <<redis, phase, backlog, pc, claim, renewer>>

\* Variant: the sent claim stays in the batch.
SendAgain(s, c) ==
    LET w == WorkerOf(s) IN
    /\ phase[w] # "gone" /\ poll[w] = "send"
    /\ pc[s] = "idle" /\ c \in backlog[w]
    /\ pc' = [pc EXCEPT ![s] = "acquire"]
    /\ claim' = [claim EXCEPT ![s] = c]
    /\ UNCHANGED <<storeVars, redis, phase, poll, backlog, renewer>>

\* jobs <- item: blocks until a slot receives. The loop polls again only when
\* the whole batch is handed over.
Send(s, c) ==
    LET w == WorkerOf(s) IN
    /\ phase[w] # "gone" /\ poll[w] = "send"
    /\ pc[s] = "idle" /\ c \in backlog[w]
    /\ backlog' = [backlog EXCEPT ![w] = @ \ {c}]
    /\ poll' = [poll EXCEPT ![w] = IF backlog[w] = {c} THEN "recover" ELSE "send"]
    /\ pc' = [pc EXCEPT ![s] = "acquire"]
    /\ claim' = [claim EXCEPT ![s] = c]
    /\ UNCHANGED <<storeVars, redis, phase, renewer>>

------------------------------------------------------------------------------
\* A slot: ProcessJob, one call at a time.

\* Returning from ProcessJob frees the slot.
Idle(s) ==
    /\ pc' = [pc EXCEPT ![s] = "idle"]
    /\ claim' = [claim EXCEPT ![s] = NULL]

\* Variant: the key's value is the job, not the worker.
AcquireForJob(s) ==
    LET j == claim[s].job IN
    /\ Up(WorkerOf(s)) /\ pc[s] = "acquire"
    /\ redis[j] = NULL
    /\ redis' = [redis EXCEPT ![j] = j]
    /\ pc' = [pc EXCEPT ![s] = "execute"]
    /\ renewer' = [renewer EXCEPT ![s] = "wait"]
    /\ UNCHANGED <<storeVars, phase, poll, backlog, claim>>

\* SET NX: only a free key is taken.
Acquire(s) ==
    LET j == claim[s].job IN
    /\ Up(WorkerOf(s)) /\ pc[s] = "acquire"
    /\ redis[j] = NULL
    /\ redis' = [redis EXCEPT ![j] = WorkerOf(s)]
    /\ pc' = [pc EXCEPT ![s] = "execute"]
    /\ renewer' = [renewer EXCEPT ![s] = "wait"]
    /\ UNCHANGED <<storeVars, phase, poll, backlog, claim>>

AcquireMiss(s) ==
    /\ Up(WorkerOf(s)) /\ pc[s] = "acquire"
    /\ redis[claim[s].job] # NULL
    /\ pc' = [pc EXCEPT ![s] = "giveBack"]
    /\ UNCHANGED <<storeVars, redis, phase, poll, backlog, claim, renewer>>

\* Redis or the context fails: the slot drops the job, which stays RUNNING.
\* The key may have been set although the answer was lost.
AcquireError(s) ==
    LET j == claim[s].job IN
    /\ pc[s] = "acquire"
    /\ \/ UNCHANGED redis
       \/ redis[j] = NULL /\ redis' = [redis EXCEPT ![j] = WorkerOf(s)]
    /\ Idle(s)
    /\ UNCHANGED <<storeVars, phase, poll, backlog, renewer>>

\* Variant: the claim is given back by job ID alone, whoever owns the job now.
GiveBackBlind(s) ==
    LET j == claim[s].job IN
    /\ pc[s] = "giveBack"
    /\ status' = [status EXCEPT ![j] = "RETRY_SCHEDULED"]
    /\ Unlock({j})
    /\ Idle(s)
    /\ UNCHANGED <<due, retryCount, maxRetries, source, attempts, deadLetters, events>>
    /\ UNCHANGED <<redis, phase, poll, backlog, renewer>>

\* ReleaseClaim after the miss, or its conflict or error.
GiveBack(s) ==
    /\ pc[s] = "giveBack"
    /\ \/ Up(WorkerOf(s)) /\ ReleaseClaim(claim[s].job, WorkerOf(s))
       \/ UNCHANGED storeVars
    /\ Idle(s)
    /\ UNCHANGED <<redis, phase, poll, backlog, renewer>>

\* The handler returns; the renewer is stopped and joined.
ExecuteReturns(s, outcome) ==
    /\ pc[s] = "execute"
    /\ pc' = [pc EXCEPT ![s] = outcome]
    /\ renewer' = [renewer EXCEPT ![s] = "off"]
    /\ UNCHANGED <<storeVars, redis, phase, poll, backlog, claim>>

\* The finalizing transaction commits.
Finalize(s) ==
    LET j == claim[s].job
        a == claim[s].attempt
    IN
    /\ Up(WorkerOf(s))
    /\ \/ pc[s] = "succeeded" /\ CompleteExecution(j, a)
       \/ /\ pc[s] \in Outcomes \ {"succeeded"}
          /\ FailExecution(j, a, ClassifyError(pc[s]), retryAfter(pc[s]))
    /\ pc' = [pc EXCEPT ![s] = "release"]
    /\ UNCHANGED <<redis, phase, poll, backlog, claim, renewer>>

\* It conflicts, the database fails or the context is cancelled: the outcome
\* is lost and the job keeps the state it has.
FinalizeFails(s) ==
    /\ pc[s] \in Outcomes
    /\ pc' = [pc EXCEPT ![s] = "release"]
    /\ UNCHANGED <<storeVars, redis, phase, poll, backlog, claim, renewer>>

\* Variant: a plain DEL.
ReleaseAny(s) ==
    /\ pc[s] = "release"
    /\ redis' = [redis EXCEPT ![claim[s].job] = NULL]
    /\ Idle(s)
    /\ UNCHANGED <<storeVars, phase, poll, backlog, renewer>>

\* The deferred compare-and-delete, which survives a shutdown, or its error.
Release(s) ==
    LET j == claim[s].job IN
    /\ pc[s] = "release"
    /\ \/ redis' = [redis EXCEPT ![j] = IF @ = WorkerOf(s) THEN NULL ELSE @]
       \/ UNCHANGED redis
    /\ Idle(s)
    /\ UNCHANGED <<storeVars, phase, poll, backlog, renewer>>

------------------------------------------------------------------------------
\* The renewer of an executing slot: PostgreSQL first, then Redis.

Renewing(s) == pc[s] = "execute" /\ Up(WorkerOf(s))

RenewLease(s) ==
    /\ Renewing(s) /\ renewer[s] = "wait"
    /\ ExtendLease(claim[s].job, WorkerOf(s))
    /\ renewer' = [renewer EXCEPT ![s] = "redis"]
    /\ UNCHANGED <<redis, phase, poll, backlog, pc, claim>>

RenewRedis(s) ==
    /\ Renewing(s) /\ renewer[s] = "redis"
    /\ redis[claim[s].job] = WorkerOf(s)
    /\ renewer' = [renewer EXCEPT ![s] = "wait"]
    /\ UNCHANGED <<storeVars, redis, phase, poll, backlog, pc, claim>>

\* Either renewal is refused or fails: the handler's context is cancelled and
\* nothing is renewed any more.
RenewFails(s) ==
    /\ Renewing(s) /\ renewer[s] \in {"wait", "redis"}
    /\ renewer' = [renewer EXCEPT ![s] = "lost"]
    /\ UNCHANGED <<storeVars, redis, phase, poll, backlog, pc, claim>>

------------------------------------------------------------------------------
\* Shutdown and crash of a worker process.

\* The context is cancelled: no more calls succeed, renewers exit.
Shutdown(w) ==
    /\ w \in MayStop /\ Up(w)
    /\ phase' = [phase EXCEPT ![w] = "stopping"]
    /\ UNCHANGED <<storeVars, redis, poll, backlog, pc, claim, renewer>>

\* Run returns on ctx.Done: claims that were not sent are dropped.
StopPolling(w) ==
    /\ phase[w] = "stopping" /\ poll[w] # "stopped"
    /\ poll' = [poll EXCEPT ![w] = "stopped"]
    /\ backlog' = [backlog EXCEPT ![w] = {}]
    /\ UNCHANGED <<storeVars, redis, phase, pc, claim, renewer>>

\* The process dies: its memory is lost, its leases and keys are not.
Crash(w) ==
    /\ w \in MayStop /\ phase[w] # "gone"
    /\ phase' = [phase EXCEPT ![w] = "gone"]
    /\ poll' = [poll EXCEPT ![w] = "stopped"]
    /\ backlog' = [backlog EXCEPT ![w] = {}]
    /\ pc' = [s \in Slots |-> IF WorkerOf(s) = w THEN "idle" ELSE pc[s]]
    /\ claim' = [s \in Slots |-> IF WorkerOf(s) = w THEN NULL ELSE claim[s]]
    /\ renewer' = [s \in Slots |-> IF WorkerOf(s) = w THEN "off" ELSE renewer[s]]
    /\ UNCHANGED <<storeVars, redis>>

------------------------------------------------------------------------------
\* Time, and the API's operations on the same jobs.

\* The handler of the slot is running.
Executing(s) == pc[s] = "execute"

\* A key lapses; with timely renewals, not under a running handler of its owner.
RedisKeyExpires(j) ==
    /\ redis[j] # NULL
    /\ RedisTimely => \A s \in Slots :
          Executing(s) /\ claim[s].job = j => WorkerOf(s) # redis[j]
    /\ redis' = [redis EXCEPT ![j] = NULL]
    /\ UNCHANGED <<storeVars, workerVars>>

Environment(j) ==
    /\ \/ \E future \in BOOLEAN, max \in MaxRetriesChoices : Create(j, future, max)
       \/ \E op \in Operators : TransitionJob(j, Operations[op].from, Operations[op].to)
       \/ \E d \in DOMAIN deadLetters[j], n \in Jobs : RequeueDeadLetter(j, d, n)
       \/ LeaseExpires(j)
       \/ BecomesDue(j)
    /\ UNCHANGED <<redis, workerVars>>

WorkerStep(w) == Recover(w) \/ Claim(w) \/ ClaimNothing(w) \/ Shutdown(w)
                 \/ StopPolling(w) \/ Crash(w)

\* The steps a slot takes by itself.
SlotWork(s) ==
    \/ \E c \in backlog[WorkerOf(s)] : Send(s, c)
    \/ Acquire(s) \/ AcquireMiss(s) \/ AcquireError(s) \/ GiveBack(s)
    \/ \E outcome \in Outcomes : ExecuteReturns(s, outcome)
    \/ Finalize(s) \/ FinalizeFails(s) \/ Release(s)

RenewStep(s) == RenewLease(s) \/ RenewRedis(s) \/ RenewFails(s)

WorkerNext ==
    \/ \E w \in Workers : WorkerStep(w)
    \/ \E s \in Slots : SlotWork(s) \/ RenewStep(s)
    \/ \E j \in Jobs : RedisKeyExpires(j) \/ Environment(j)

WorkerSpec == WorkerInit /\ [][WorkerNext]_vars

------------------------------------------------------------------------------
\* Fairness. The slots of a live worker keep working, and a worker that never
\* stops keeps polling: the loops have no exit but the context, handlers run
\* under a timeout, and every call returns. A process that has crashed has no
\* step to be fair to. Expiry is certain only when no handler renews the lease.
\* A poll visits every expired row, so one that is expired at poll after poll
\* is recovered unless the database fails every time. Claims go by priority and
\* run_at, so a job that is claimable at poll after poll has its turn once the
\* jobs before it, of which there are finitely many here, are taken.

Unattended(j) ==
    \A s \in Slots : Renewing(s) /\ renewer[s] # "lost" /\ claim[s].job = j
                        => WorkerOf(s) # lockedBy[j]

ExpiresUnattended(j) ==
    Unattended(j) /\ LeaseExpires(j) /\ UNCHANGED <<redis, workerVars>>

RecoversJob(w, j) == status[j] = "RUNNING" /\ Recover(w) /\ status'[j] # "RUNNING"

ClaimsJob(w, j) == status[j] # "RUNNING" /\ Claim(w) /\ status'[j] = "RUNNING"

WorkerFairness ==
    /\ \A w \in Workers \ MayStop :
          /\ WF_vars(Recover(w) \/ Claim(w) \/ ClaimNothing(w))
          /\ \A j \in Jobs : SF_vars(RecoversJob(w, j)) /\ SF_vars(ClaimsJob(w, j))
    /\ \A s \in Slots : WF_vars(SlotWork(s))
    /\ \A j \in Jobs :
          /\ WF_vars(ExpiresUnattended(j))
          /\ WF_vars(BecomesDue(j) /\ UNCHANGED <<redis, workerVars>>)

FairWorkerSpec == WorkerSpec /\ WorkerFairness

------------------------------------------------------------------------------
\* Properties.

\* Worker memory has the shape of the code's variables.
WorkerTypeOK ==
    /\ redis \in [Jobs -> Workers \cup {NULL}]
    /\ phase \in [Workers -> {"up", "stopping", "gone"}]
    /\ poll \in [Workers -> {"recover", "claim", "send", "stopped"}]
    /\ backlog \in [Workers -> SUBSET Claims]
    /\ pc \in [Slots -> SlotSteps]
    /\ claim \in [Slots -> Claims \cup {NULL}]
    /\ renewer \in [Slots -> {"off", "wait", "redis", "lost"}]

\* The claims in a worker's memory: queued or held by one of its slots.
Held(w) == backlog[w] \cup {claim[s] : s \in {t \in Slots : WorkerOf(t) = w /\ pc[t] # "idle"}}

\* "row locks and SKIP LOCKED let workers claim disjoint batches" (interview
\* guide): a claim in memory names an attempt that its own worker started, and
\* is in one place only, so no two slots ever process the same attempt.
ClaimsAreDisjoint ==
    /\ \A w \in Workers : \A c \in Held(w) :
          /\ c.attempt \in DOMAIN attempts[c.job]
          /\ attempts[c.job][c.attempt].worker = w
    /\ \A s, t \in Slots : s # t /\ pc[s] # "idle" => claim[s] # claim[t]
    /\ \A s \in Slots : claim[s] \notin backlog[WorkerOf(s)]

\* While renewals are timely the Redis lock keeps slots of different workers
\* from running the handler of one job at the same time, although the lease in
\* PostgreSQL may lapse and the job be claimed anew at any moment.
ExclusiveExecution ==
    \A s, t \in Slots : s # t /\ Executing(s) /\ Executing(t) => claim[s].job # claim[t].job

\* Why: the slot that runs a handler owns the key, as long as no other slot of
\* its worker can release it.
KeysAreHeld == \A s \in Slots : Executing(s) => redis[claim[s].job] = WorkerOf(s)

\* No job stays RUNNING for ever and no waiting job is forgotten: whatever
\* became of its worker, its batch and its retries, a job is finished, paused
\* or dead-lettered at last (or waits at the model's bound on attempts).
JobsSettle ==
    \A j \in Jobs :
        status[j] # "ABSENT" ~>
            \/ status[j] \in {"SUCCEEDED", "CANCELLED", "PAUSED", "DEAD_LETTERED"}
            \/ status[j] # "RUNNING" /\ Len(attempts[j]) = MaxAttempts

\* "Losing either authoritative DB ownership or the secondary Redis lease
\* cancels execution before this worker can commit an outcome" (renewLease):
\* a successful outcome is committed only for the newest claim of the job.
FinalizesNewestClaim ==
    [][\A j \in Jobs : \A a \in DOMAIN attempts[j] :
          attempts[j][a].status = "RUNNING" /\ attempts'[j][a].status = "SUCCEEDED"
             => a = Len(attempts[j])]_vars

\* "no stuck RUNNING attempts after lease recovery" (benchmarks.md): a job
\* that has ended has no attempt left RUNNING.
NoStuckAttempt ==
    \A j \in Jobs : status[j] \in {"SUCCEEDED", "CANCELLED", "DEAD_LETTERED"} =>
        \A a \in DOMAIN attempts[j] : attempts[j][a].status # "RUNNING"
==============================================================================
