------------------------- MODULE WorkerServiceProofs -------------------------
(***************************************************************************)
(* Proofs about the workers, for any number of workers, slots and jobs:    *)
(* their steps are transactions of the job store, so the store's theorems  *)
(* hold for them, and no attempt is ever processed by two slots.           *)
(***************************************************************************)
EXTENDS WorkerService, JobStoreProofs
\* A slot is idle exactly when it holds no claim, and only a loop that is
\* sending has claims in hand.
SlotsAndBatches ==
    /\ \A s \in Slots : pc[s] = "idle" <=> claim[s] = NULL
    /\ \A w \in Workers : poll[w] # "send" => backlog[w] = {}

WorkerInv == TypeOK /\ WorkerTypeOK /\ SlotsAndBatches /\ ClaimsAreDisjoint

------------------------------------------------------------------------------
\* What store transactions do to attempt rows.

\* No transaction deletes an attempt row or gives it to another worker.
RowsKept ==
    \A j \in Jobs : \A a \in DOMAIN attempts[j] :
        a \in DOMAIN attempts'[j] /\ attempts'[j][a].worker = attempts[j][a].worker

\* A claim appends one row, which is the claiming worker's.
LEMMA ClaimRows ==
    ASSUME TypeOK, NEW w \in Workers, NEW S \in SUBSET Jobs, ClaimDueJobs(w, S)
    PROVE  /\ RowsKept
           /\ \A j \in S : /\ Len(attempts[j]) + 1 \in DOMAIN attempts'[j]
                           /\ attempts'[j][Len(attempts[j]) + 1].worker = w
<1> DEFINE row(j) == NewAttempt(j, w)
<1>1. \A j \in Jobs : attempts[j] \in Seq(Attempt) /\ row(j) \in Attempt /\ row(j).worker = w
  <2>1. \A j \in Jobs : attempts[j] \in Seq(Attempt) /\ retryCount[j] \in Nat
    BY DEF TypeOK
  <2>2. \A j \in Jobs : retryCount[j] + 1 \in Nat \ {0}
    BY <2>1
  <2>3. \A j \in Jobs : row(j) \in Attempt
    BY <2>2 DEF NewAttempt, Attempt, AttemptStatuses
  <2>4. \A j \in Jobs : row(j).worker = w
    BY DEF NewAttempt
  <2> HIDE DEF row
  <2> QED
    BY <2>1, <2>3, <2>4
<1>2. attempts' = [j \in Jobs |-> IF j \in S THEN Append(attempts[j], row(j)) ELSE attempts[j]]
  BY DEF ClaimDueJobs
<1> HIDE DEF row
<1>3. ASSUME NEW j \in S
      PROVE  /\ Len(attempts[j]) + 1 \in DOMAIN attempts'[j]
             /\ attempts'[j][Len(attempts[j]) + 1].worker = w
             /\ \A a \in DOMAIN attempts[j] :
                   a \in DOMAIN attempts'[j] /\ attempts'[j][a] = attempts[j][a]
  <2>1. attempts'[j] = Append(attempts[j], row(j))
    BY <1>2
  <2>2. attempts[j] \in Seq(Attempt) /\ row(j) \in Attempt /\ row(j).worker = w
    BY <1>1
  <2> QED
    BY <2>1, <2>2, AppendProperties, LenProperties
<1>4. \A j \in Jobs \ S : attempts'[j] = attempts[j]
  BY <1>2
<1> QED
  BY <1>3, <1>4 DEF RowsKept

\* Finalizing an attempt changes only its status.
LEMMA FinalizeRows ==
    ASSUME TypeOK, NEW j \in Jobs, NEW a \in DOMAIN attempts[j], NEW s \in AttemptStatuses,
           attempts' = [attempts EXCEPT ![j][a].status = s]
    PROVE  RowsKept
<1>1. attempts \in [Jobs -> Seq(Attempt)] /\ attempts[j] \in Seq(Attempt)
  BY DEF TypeOK
<1>2. /\ attempts'[j] = [attempts[j] EXCEPT ![a].status = s]
      /\ \A i \in Jobs \ {j} : attempts'[i] = attempts[i]
  BY <1>1
<1>3. \A b \in DOMAIN attempts[j] : /\ b \in DOMAIN attempts'[j]
                                    /\ attempts'[j][b].worker = attempts[j][b].worker
  <2>1. DOMAIN attempts[j] = 1..Len(attempts[j])
    BY <1>1, LenProperties
  <2> QED
    BY <1>1, <1>2, <2>1, SetStatusRows
<1> QED
  BY <1>2, <1>3 DEF RowsKept

\* Closing the RUNNING rows of some jobs changes only statuses.
LEMMA CloseRows ==
    ASSUME TypeOK, NEW S, NEW s \in AttemptStatuses,
           attempts' = [j \in Jobs |-> IF j \in S THEN CloseRunning(attempts[j], s)
                                                  ELSE attempts[j]]
    PROVE  RowsKept
<1>1. ASSUME NEW j \in Jobs, NEW a \in DOMAIN attempts[j]
      PROVE  a \in DOMAIN attempts'[j] /\ attempts'[j][a].worker = attempts[j][a].worker
  <2>1. attempts[j] \in Seq(Attempt) /\ DOMAIN attempts[j] = 1..Len(attempts[j])
    BY LenProperties DEF TypeOK
  <2>2. CASE j \in S
    BY <2>1, <2>2, CloseRunningRows, ClosedNumbers
  <2>3. CASE j \notin S
    BY <2>3
  <2> QED
    BY <2>2, <2>3
<1> QED
  BY <1>1 DEF RowsKept

\* Every transaction of the store keeps every attempt row and its worker.
LEMMA StoreKeepsRows ==
    ASSUME TypeOK, [StoreNext]_storeVars
    PROVE  RowsKept
<1>1. CASE attempts' = attempts
  BY <1>1 DEF RowsKept
<1>2. ASSUME NEW w \in Workers, NEW S \in SUBSET Jobs, ClaimDueJobs(w, S)
      PROVE  RowsKept
  BY <1>2, ClaimRows
<1>3. ASSUME NEW S \in SUBSET Jobs, RecoverExpiredRunningJobs(S)
      PROVE  RowsKept
  <2>1. attempts' = [j \in Jobs |-> IF j \in S THEN CloseRunning(attempts[j], "FAILED")
                                               ELSE attempts[j]]
    BY <1>3 DEF RecoverExpiredRunningJobs
  <2> QED
    BY <2>1, CloseRows DEF AttemptStatuses
<1>4. ASSUME NEW j \in Jobs, NEW a \in DOMAIN attempts[j],
             CompleteExecution(j, a) \/ \E r, after \in BOOLEAN : FailExecution(j, a, r, after)
      PROVE  RowsKept
  <2>1. \/ attempts' = [attempts EXCEPT ![j][a].status = "SUCCEEDED"]
        \/ attempts' = [attempts EXCEPT ![j][a].status = "FAILED"]
    BY <1>4 DEF CompleteExecution, FailExecution
  <2> QED
    BY <2>1, FinalizeRows DEF AttemptStatuses
<1>5. ASSUME NEW j \in Jobs, NEW from, NEW to, TransitionJob(j, from, to)
      PROVE  RowsKept
  <2>1. CASE to = "CANCELLED"
    <3>1. attempts' = [i \in Jobs |-> IF i \in {j} THEN CloseRunning(attempts[i], "CANCELLED")
                                                    ELSE attempts[i]]
      BY <1>5, <2>1 DEF TransitionJob, TypeOK
    <3> QED
      BY <3>1, CloseRows DEF AttemptStatuses
  <2>2. CASE to # "CANCELLED"
    <3>1. attempts' = attempts
      BY <1>5, <2>2 DEF TransitionJob, TypeOK
    <3> QED
      BY <1>1, <3>1
  <2> QED
    BY <2>1, <2>2
<1>6. ASSUME NEW j \in Jobs, JobNext(j)
      PROVE  \/ attempts' = attempts
             \/ \E a \in DOMAIN attempts[j] :
                   CompleteExecution(j, a) \/ \E r, after \in BOOLEAN : FailExecution(j, a, r, after)
             \/ \E op \in DOMAIN Operations :
                   TransitionJob(j, Operations[op].from, Operations[op].to)
  BY <1>6 DEF JobNext, Create, InsertJob, ExtendLease, ReleaseClaim, RequeueDeadLetter,
     LeaseExpires, BecomesDue
<1>7. UNCHANGED storeVars => attempts' = attempts
  BY DEF storeVars
<1> QED
  BY <1>1, <1>2, <1>3, <1>4, <1>5, <1>6, <1>7 DEF StoreNext

------------------------------------------------------------------------------
\* The steps of the workers are steps of the store.

\* A slot belongs to a worker, and one that is busy works on a claim.
LEMMA BusySlot ==
    ASSUME WorkerInv, NEW s \in Slots
    PROVE  /\ WorkerOf(s) \in Workers
           /\ pc[s] # "idle" => /\ claim[s] \in Claims
                                /\ claim[s].job \in Jobs
                                /\ claim[s].attempt \in DOMAIN attempts[claim[s].job]
<1>1. WorkerOf(s) \in Workers
  BY DEF Slots, WorkerOf
<1>2. ASSUME pc[s] # "idle"
      PROVE  claim[s] \in Claims /\ claim[s].job \in Jobs
  BY <1>2 DEF WorkerInv, WorkerTypeOK, SlotsAndBatches, Claims
<1>3. ASSUME pc[s] # "idle"
      PROVE  claim[s] \in Held(WorkerOf(s))
  BY <1>3 DEF Held
<1> QED
  BY <1>1, <1>2, <1>3 DEF WorkerInv, ClaimsAreDisjoint

\* The poll loop: it changes the store by recovery and claims only.
LEMMA WorkerStepIsStoreStep ==
    ASSUME WorkerInv, NEW w \in Workers, WorkerStep(w)
    PROVE  StoreNext \/ UNCHANGED storeVars
<1>1. CASE Recover(w)
  BY <1>1 DEF Recover, StoreNext
<1>2. CASE Claim(w) \/ ClaimNothing(w)
  BY <1>2 DEF Claim, ClaimNothing, StoreNext
<1>3. CASE Shutdown(w) \/ StopPolling(w) \/ Crash(w)
  BY <1>3 DEF Shutdown, StopPolling, Crash
<1> QED
  BY <1>1, <1>2, <1>3 DEF WorkerStep

\* A slot changes the store by finalizing its attempt, renewing its lease or
\* giving its claim back.
LEMMA SlotStepIsStoreStep ==
    ASSUME WorkerInv, NEW s \in Slots, SlotWork(s) \/ RenewStep(s)
    PROVE  StoreNext \/ UNCHANGED storeVars
<1>1. CASE GiveBack(s)
  <2>1. pc[s] # "idle"
    BY <1>1 DEF GiveBack
  <2> QED
    BY <1>1, <2>1, BusySlot DEF GiveBack, StoreNext, JobNext
<1>2. CASE Finalize(s)
  <2>1. pc[s] # "idle"
    BY <1>2 DEF Finalize, Outcomes
  <2>2. ClassifyError(pc[s]) \in BOOLEAN /\ retryAfter(pc[s]) \in BOOLEAN
    BY DEF ClassifyError, retryAfter
  <2>3. JobNext(claim[s].job)
    BY <1>2, <2>1, <2>2, BusySlot DEF Finalize, JobNext
  <2> QED
    BY <2>1, <2>3, BusySlot DEF StoreNext
<1>3. CASE RenewLease(s)
  <2>1. pc[s] # "idle"
    BY <1>3 DEF RenewLease, Renewing
  <2> QED
    BY <1>3, <2>1, BusySlot DEF RenewLease, StoreNext, JobNext
<1>4. CASE \/ \E c \in backlog[WorkerOf(s)] : Send(s, c)
           \/ Acquire(s) \/ AcquireMiss(s) \/ AcquireError(s)
           \/ \E outcome \in Outcomes : ExecuteReturns(s, outcome)
           \/ FinalizeFails(s) \/ Release(s) \/ RenewRedis(s) \/ RenewFails(s)
  BY <1>4 DEF Send, Acquire, AcquireMiss, AcquireError, ExecuteReturns, FinalizeFails,
     Release, RenewRedis, RenewFails
<1> QED
  BY <1>1, <1>2, <1>3, <1>4 DEF SlotWork, RenewStep

\* Every step of the workers' specification is a store step or leaves the
\* store alone.
LEMMA StepImplements ==
    ASSUME WorkerInv, WorkerAssumption, [WorkerNext]_vars
    PROVE  [StoreNext]_storeVars
<1>1. CASE UNCHANGED vars
  BY <1>1 DEF vars
<1>2. ASSUME NEW w \in Workers, WorkerStep(w)
      PROVE  [StoreNext]_storeVars
  BY <1>2, WorkerStepIsStoreStep
<1>3. ASSUME NEW s \in Slots, SlotWork(s) \/ RenewStep(s)
      PROVE  [StoreNext]_storeVars
  BY <1>3, SlotStepIsStoreStep
<1>4. ASSUME NEW j \in Jobs, RedisKeyExpires(j)
      PROVE  [StoreNext]_storeVars
  BY <1>4 DEF RedisKeyExpires
<1>5. ASSUME NEW j \in Jobs, Environment(j)
      PROVE  [StoreNext]_storeVars
  <2>1. JobNext(j)
    BY <1>5 DEF Environment, JobNext, WorkerAssumption
  <2> QED
    BY <2>1 DEF StoreNext
<1> QED
  BY <1>1, <1>2, <1>3, <1>4, <1>5 DEF WorkerNext

------------------------------------------------------------------------------
\* Claims stay disjoint.

\* Claims of different workers differ, because their attempt rows do.
LEMMA OneWorkerPerClaim ==
    ASSUME ClaimsAreDisjoint, NEW v \in Workers, NEW w \in Workers,
           NEW c \in Held(v), c \in Held(w)
    PROVE  v = w
  BY DEF ClaimsAreDisjoint

\* A step after which no slot and no batch holds a claim that it did not hold
\* before keeps the claims disjoint.
LEMMA NoNewClaims ==
    ASSUME WorkerInv, WorkerAssumption, RowsKept, WorkerTypeOK', SlotsAndBatches',
           \A w \in Workers : backlog'[w] \subseteq backlog[w],
           \A s \in Slots : pc'[s] # "idle" => pc[s] # "idle" /\ claim'[s] = claim[s]
    PROVE  ClaimsAreDisjoint'
<1>1. ASSUME NEW w \in Workers, NEW c \in Held(w)'
      PROVE  c.attempt \in DOMAIN attempts'[c.job] /\ attempts'[c.job][c.attempt].worker = w
  <2>1. c \in Held(w)
    BY <1>1 DEF Held
  <2>2. c.attempt \in DOMAIN attempts[c.job] /\ attempts[c.job][c.attempt].worker = w
    BY <2>1 DEF WorkerInv, ClaimsAreDisjoint
  <2>3. c \in Claims
    BY <2>1, BusySlot DEF Held, WorkerInv, WorkerTypeOK
  <2>4. c.job \in Jobs
    BY <2>3 DEF Claims
  <2> QED
    BY <2>2, <2>4 DEF RowsKept
<1>2. ASSUME NEW s \in Slots, NEW t \in Slots, s # t, pc'[s] # "idle"
      PROVE  claim'[s] # claim'[t]
  <2>1. claim'[s] = claim[s] /\ pc[s] # "idle" /\ claim[s] # NULL
    BY <1>2 DEF WorkerInv, SlotsAndBatches
  <2>2. CASE pc'[t] = "idle"
    BY <2>1, <2>2 DEF SlotsAndBatches
  <2>3. CASE pc'[t] # "idle"
    BY <1>2, <2>1, <2>3 DEF WorkerInv, ClaimsAreDisjoint
  <2> QED
    BY <2>2, <2>3
<1>3. ASSUME NEW s \in Slots
      PROVE  claim'[s] \notin backlog'[WorkerOf(s)]
  <2>1. WorkerOf(s) \in Workers
    BY BusySlot
  <2>2. CASE pc'[s] = "idle"
    <3>1. claim'[s] = NULL
      BY <2>2 DEF SlotsAndBatches
    <3>2. backlog'[WorkerOf(s)] \subseteq Claims
      BY <2>1 DEF WorkerTypeOK
    <3> QED
      BY <3>1, <3>2 DEF WorkerAssumption
  <2>3. CASE pc'[s] # "idle"
    BY <2>1, <2>3 DEF WorkerInv, ClaimsAreDisjoint
  <2> QED
    BY <2>2, <2>3
<1> QED
  BY <1>1, <1>2, <1>3 DEF ClaimsAreDisjoint, WorkerOf

\* The claims of a batch are new: their attempts did not exist before.
LEMMA BatchIsNew ==
    ASSUME WorkerInv, NEW S \in SUBSET Jobs
    PROVE  /\ Batch(S) \subseteq Claims
           /\ \A v \in Workers : Held(v) \cap Batch(S) = {}
<1>1. \A j \in Jobs : /\ Len(attempts[j]) \in Nat
                      /\ DOMAIN attempts[j] = 1..Len(attempts[j])
  BY LenProperties DEF WorkerInv, TypeOK
<1>2. Batch(S) \subseteq Claims
  BY <1>1 DEF Batch, Claims
<1>3. \A c \in Batch(S) : c.attempt \notin DOMAIN attempts[c.job]
  BY <1>1 DEF Batch
<1> QED
  BY <1>2, <1>3 DEF WorkerInv, ClaimsAreDisjoint

\* A claim hands the loop new claims, each with the attempt row it inserted.
LEMMA ClaimKeepsDisjoint ==
    ASSUME WorkerInv, WorkerAssumption, NEW w \in Workers, Claim(w)
    PROVE  WorkerTypeOK' /\ SlotsAndBatches' /\ ClaimsAreDisjoint'
<1>1. PICK S \in SUBSET Jobs : /\ ClaimDueJobs(w, S)
                               /\ backlog' = [backlog EXCEPT ![w] = Batch(S)]
  BY DEF Claim
<1>2. /\ poll[w] = "claim" /\ poll' = [poll EXCEPT ![w] = "send"]
      /\ UNCHANGED <<redis, phase, pc, claim, renewer>>
  BY DEF Claim
<1>3. /\ Batch(S) \subseteq Claims
      /\ \A v \in Workers : Held(v) \cap Batch(S) = {}
  BY BatchIsNew
<1>4. WorkerTypeOK'
  BY <1>1, <1>2, <1>3 DEF WorkerInv, WorkerTypeOK
<1>5. SlotsAndBatches'
  BY <1>1, <1>2 DEF WorkerInv, WorkerTypeOK, SlotsAndBatches
<1>6. /\ backlog'[w] = Batch(S)
      /\ \A v \in Workers \ {w} : backlog'[v] = backlog[v]
  BY <1>1 DEF WorkerInv, WorkerTypeOK
<1>7. /\ RowsKept
      /\ \A j \in S : /\ Len(attempts[j]) + 1 \in DOMAIN attempts'[j]
                      /\ attempts'[j][Len(attempts[j]) + 1].worker = w
  BY <1>1, ClaimRows DEF WorkerInv
<1>8. ASSUME NEW v \in Workers, NEW c \in Held(v)'
      PROVE  c.attempt \in DOMAIN attempts'[c.job] /\ attempts'[c.job][c.attempt].worker = v
  <2>1. c \in Held(v) \/ (v = w /\ c \in Batch(S))
    BY <1>2, <1>6 DEF Held
  <2>2. CASE c \in Held(v)
    <3>1. c.attempt \in DOMAIN attempts[c.job] /\ attempts[c.job][c.attempt].worker = v
      BY <2>2 DEF WorkerInv, ClaimsAreDisjoint
    <3>2. c \in Claims
      BY <2>2, BusySlot DEF Held, WorkerInv, WorkerTypeOK
    <3>3. c.job \in Jobs
      BY <3>2 DEF Claims
    <3> QED
      BY <1>7, <3>1, <3>3 DEF RowsKept
  <2>3. CASE v = w /\ c \in Batch(S)
    BY <1>7, <2>3 DEF Batch
  <2> QED
    BY <2>1, <2>2, <2>3
<1>9. ASSUME NEW s \in Slots
      PROVE  claim'[s] \notin backlog'[WorkerOf(s)]
  <2>1. WorkerOf(s) \in Workers
    BY BusySlot
  <2>2. claim[s] \notin Batch(S)
    <3>1. CASE pc[s] = "idle"
      BY <1>3, <3>1 DEF WorkerInv, SlotsAndBatches, WorkerAssumption
    <3>2. CASE pc[s] # "idle"
      <4>1. claim[s] \in Held(WorkerOf(s))
        BY <3>2 DEF Held
      <4> QED
        BY <1>3, <2>1, <4>1
    <3> QED
      BY <3>1, <3>2
  <2>3. claim[s] \notin backlog[WorkerOf(s)]
    BY DEF WorkerInv, ClaimsAreDisjoint
  <2> QED
    BY <1>2, <1>6, <2>1, <2>2, <2>3
<1>10. \A s, t \in Slots : s # t /\ pc'[s] # "idle" => claim'[s] # claim'[t]
  BY <1>2 DEF WorkerInv, ClaimsAreDisjoint
<1> QED
  BY <1>4, <1>5, <1>8, <1>9, <1>10 DEF ClaimsAreDisjoint, WorkerOf

\* Handing a claim to a slot moves it from the batch to the slot.
LEMMA SendKeepsDisjoint ==
    ASSUME WorkerInv, WorkerAssumption, NEW s \in Slots,
           NEW c \in backlog[WorkerOf(s)], Send(s, c)
    PROVE  WorkerTypeOK' /\ SlotsAndBatches' /\ ClaimsAreDisjoint'
<1> DEFINE w == WorkerOf(s)
<1>1. w \in Workers
  BY BusySlot
<1>2. /\ pc[s] = "idle" /\ poll[w] = "send"
      /\ backlog' = [backlog EXCEPT ![w] = backlog[w] \ {c}]
      /\ poll' = [poll EXCEPT ![w] = IF backlog[w] = {c} THEN "recover" ELSE "send"]
      /\ pc' = [pc EXCEPT ![s] = "acquire"]
      /\ claim' = [claim EXCEPT ![s] = c]
      /\ UNCHANGED <<storeVars, redis, phase, renewer>>
  BY DEF Send
<1> HIDE DEF w
<1>3. c \in Claims /\ c \in Held(w) /\ c # NULL
  BY <1>1 DEF w, WorkerInv, WorkerTypeOK, Held, WorkerAssumption
<1>4. WorkerTypeOK'
  BY <1>1, <1>2, <1>3 DEF WorkerInv, WorkerTypeOK, SlotSteps
<1>5. SlotsAndBatches'
  BY <1>1, <1>2, <1>3 DEF WorkerInv, WorkerTypeOK, SlotsAndBatches
<1>6. /\ claim'[s] = c /\ \A t \in Slots \ {s} : claim'[t] = claim[t] /\ pc'[t] = pc[t]
      /\ backlog'[w] = backlog[w] \ {c}
      /\ \A v \in Workers \ {w} : backlog'[v] = backlog[v]
      /\ attempts' = attempts
  BY <1>1, <1>2 DEF WorkerInv, WorkerTypeOK, storeVars
<1>7. \A t \in Slots : claim[t] # c
  <2>1. ASSUME NEW t \in Slots, claim[t] = c PROVE FALSE
    <3>1. WorkerOf(t) \in Workers /\ pc[t] # "idle"
      BY <1>3, <2>1, BusySlot DEF WorkerInv, SlotsAndBatches
    <3>2. c \in Held(WorkerOf(t))
      BY <2>1, <3>1 DEF Held
    <3>3. WorkerOf(t) = w
      BY <1>1, <1>3, <3>1, <3>2, OneWorkerPerClaim DEF WorkerInv
    <3> QED
      BY <2>1, <3>3 DEF w, WorkerInv, ClaimsAreDisjoint
  <2> QED
    BY <2>1
<1>8. ASSUME NEW v \in Workers, NEW d \in Held(v)' PROVE d \in Held(v)
  BY <1>1, <1>3, <1>6 DEF w, Held, WorkerOf
<1>9. ASSUME NEW t \in Slots PROVE claim'[t] \notin backlog'[WorkerOf(t)]
  <2>1. WorkerOf(t) \in Workers
    BY BusySlot
  <2> QED
    BY <1>1, <1>6, <2>1 DEF w, WorkerInv, ClaimsAreDisjoint
<1>10. ASSUME NEW t \in Slots, NEW u \in Slots, t # u, pc'[t] # "idle"
       PROVE  claim'[t] # claim'[u]
  <2>1. \A p, q \in Slots : p # q /\ pc[p] # "idle" => claim[p] # claim[q]
    BY DEF WorkerInv, ClaimsAreDisjoint
  <2>2. CASE t = s
    BY <1>6, <1>7, <1>10, <2>2
  <2>3. CASE u = s
    BY <1>6, <1>7, <1>10, <2>3
  <2>4. CASE t # s /\ u # s
    BY <1>6, <1>10, <2>1, <2>4
  <2> QED
    BY <2>2, <2>3, <2>4
<1>11. \A v \in Workers : \A d \in Held(v)' : /\ d.attempt \in DOMAIN attempts'[d.job]
                                                  /\ attempts'[d.job][d.attempt].worker = v
  BY <1>6, <1>8 DEF WorkerInv, ClaimsAreDisjoint
<1>12. ClaimsAreDisjoint'
  BY <1>9, <1>10, <1>11, Zenon DEF ClaimsAreDisjoint, WorkerOf
<1> QED
  BY <1>4, <1>5, <1>12

\* Nothing a step does to the slots and batches adds a claim.
Shrinks ==
    /\ \A w \in Workers : backlog'[w] \subseteq backlog[w]
    /\ \A s \in Slots : pc'[s] # "idle" => pc[s] # "idle" /\ claim'[s] = claim[s]

\* The other steps of the poll loop keep or drop what the worker holds.
LEMMA PollShrinks ==
    ASSUME WorkerInv, NEW w \in Workers,
           Recover(w) \/ ClaimNothing(w) \/ Shutdown(w) \/ StopPolling(w) \/ Crash(w)
    PROVE  WorkerTypeOK' /\ SlotsAndBatches' /\ Shrinks
<1> USE DEF WorkerInv, WorkerTypeOK, SlotsAndBatches, Shrinks
<1>1. CASE Recover(w)
  BY <1>1 DEF Recover
<1>2. CASE ClaimNothing(w)
  BY <1>2 DEF ClaimNothing
<1>3. CASE Shutdown(w)
  BY <1>3 DEF Shutdown
<1>4. CASE StopPolling(w)
  BY <1>4 DEF StopPolling
<1>5. CASE Crash(w)
  <2>1. /\ phase' \in [Workers -> {"up", "stopping", "gone"}]
        /\ poll' \in [Workers -> {"recover", "claim", "send", "stopped"}]
        /\ backlog' \in [Workers -> SUBSET Claims]
    BY <1>5 DEF Crash
  <2>2. /\ pc' \in [Slots -> SlotSteps]
        /\ claim' \in [Slots -> Claims \cup {NULL}]
        /\ renewer' \in [Slots -> {"off", "wait", "redis", "lost"}]
    BY <1>5 DEF Crash, SlotSteps
  <2> QED
    BY <1>5, <2>1, <2>2 DEF Crash
<1> QED
  BY <1>1, <1>2, <1>3, <1>4, <1>5

\* Returning from ProcessJob drops the claim.
LEMMA IdleShrinks ==
    ASSUME WorkerInv, NEW s \in Slots, Idle(s),
           redis' \in [Jobs -> Workers \cup {NULL}], UNCHANGED <<phase, poll, backlog, renewer>>
    PROVE  WorkerTypeOK' /\ SlotsAndBatches' /\ Shrinks
  BY DEF Idle, WorkerInv, WorkerTypeOK, SlotsAndBatches, Shrinks, SlotSteps

\* Within ProcessJob a slot keeps its claim.
LEMMA WorkShrinks ==
    ASSUME WorkerInv, NEW s \in Slots, NEW step \in SlotSteps \ {"idle"}, pc[s] # "idle",
           pc' = [pc EXCEPT ![s] = step],
           redis' \in [Jobs -> Workers \cup {NULL}],
           renewer' \in [Slots -> {"off", "wait", "redis", "lost"}],
           UNCHANGED <<phase, poll, backlog, claim>>
    PROVE  WorkerTypeOK' /\ SlotsAndBatches' /\ Shrinks
  BY DEF WorkerInv, WorkerTypeOK, SlotsAndBatches, Shrinks

\* The steps of a slot, save receiving a claim, keep or drop its claim.
LEMMA SlotShrinks ==
    ASSUME WorkerInv, NEW s \in Slots,
           \/ Acquire(s) \/ AcquireMiss(s) \/ AcquireError(s) \/ GiveBack(s)
           \/ \E outcome \in Outcomes : ExecuteReturns(s, outcome)
           \/ Finalize(s) \/ FinalizeFails(s) \/ Release(s)
    PROVE  WorkerTypeOK' /\ SlotsAndBatches' /\ Shrinks
<1> USE DEF SlotSteps, Outcomes
<1>1. /\ redis \in [Jobs -> Workers \cup {NULL}] /\ WorkerOf(s) \in Workers
      /\ renewer \in [Slots -> {"off", "wait", "redis", "lost"}]
  BY BusySlot DEF WorkerInv, WorkerTypeOK
<1>2. CASE Acquire(s)
  <2>1. redis' \in [Jobs -> Workers \cup {NULL}]
    BY <1>1, <1>2 DEF Acquire
  <2>2. renewer' \in [Slots -> {"off", "wait", "redis", "lost"}]
    BY <1>1, <1>2 DEF Acquire
  <2> QED
    BY <1>2, <2>1, <2>2, WorkShrinks DEF Acquire
<1>3. CASE AcquireMiss(s)
  BY <1>1, <1>3, WorkShrinks DEF AcquireMiss
<1>4. CASE AcquireError(s)
  <2>1. redis' \in [Jobs -> Workers \cup {NULL}]
    BY <1>1, <1>4 DEF AcquireError
  <2> QED
    BY <1>4, <2>1, IdleShrinks DEF AcquireError
<1>5. CASE GiveBack(s)
  BY <1>1, <1>5, IdleShrinks DEF GiveBack
<1>6. ASSUME NEW outcome \in Outcomes, ExecuteReturns(s, outcome)
      PROVE  WorkerTypeOK' /\ SlotsAndBatches' /\ Shrinks
  <2>1. renewer' \in [Slots -> {"off", "wait", "redis", "lost"}]
    BY <1>1, <1>6 DEF ExecuteReturns
  <2> QED
    BY <1>1, <1>6, <2>1, WorkShrinks DEF ExecuteReturns
<1>7. CASE Finalize(s)
  BY <1>1, <1>7, WorkShrinks DEF Finalize
<1>8. CASE FinalizeFails(s)
  BY <1>1, <1>8, WorkShrinks DEF FinalizeFails
<1>9. CASE Release(s)
  <2>1. redis' \in [Jobs -> Workers \cup {NULL}]
    BY <1>1, <1>9 DEF Release
  <2> QED
    BY <1>9, <2>1, IdleShrinks DEF Release
<1> QED
  BY <1>2, <1>3, <1>4, <1>5, <1>6, <1>7, <1>8, <1>9

\* Renewals, lapsing keys and the API's operations leave every claim alone.
LEMMA OthersShrink ==
    ASSUME WorkerInv,
           \/ \E s \in Slots : RenewStep(s)
           \/ \E j \in Jobs : RedisKeyExpires(j) \/ Environment(j)
           \/ UNCHANGED vars
    PROVE  WorkerTypeOK' /\ SlotsAndBatches' /\ Shrinks
<1> DEFINE Kept == /\ UNCHANGED <<phase, poll, backlog, pc, claim>>
                   /\ redis' \in [Jobs -> Workers \cup {NULL}]
                   /\ renewer' \in [Slots -> {"off", "wait", "redis", "lost"}]
<1>1. /\ redis \in [Jobs -> Workers \cup {NULL}]
      /\ renewer \in [Slots -> {"off", "wait", "redis", "lost"}]
  BY DEF WorkerInv, WorkerTypeOK
<1>2. ASSUME NEW s \in Slots, RenewStep(s)
      PROVE  Kept
  BY <1>1, <1>2 DEF RenewStep, RenewLease, RenewRedis, RenewFails
<1>3. ASSUME NEW j \in Jobs, RedisKeyExpires(j)
      PROVE  Kept
  BY <1>1, <1>3 DEF RedisKeyExpires, workerVars
<1>4. ASSUME NEW j \in Jobs, Environment(j)
      PROVE  Kept
  <2>1. UNCHANGED <<redis, workerVars>>
    BY <1>4 DEF Environment
  <2> QED
    BY <1>1, <2>1 DEF workerVars
<1>5. ASSUME UNCHANGED vars
      PROVE  Kept
  BY <1>1, <1>5 DEF vars, workerVars
<1>6. Kept
  BY <1>2, <1>3, <1>4, <1>5
<1> QED
  BY <1>6 DEF WorkerInv, WorkerTypeOK, SlotsAndBatches, Shrinks

------------------------------------------------------------------------------
\* The theorems.

\* Fresh workers hold nothing.
LEMMA WorkerInitInv ==
    ASSUME WorkerAssumption, WorkerInit
    PROVE  WorkerInv
<1>1. TypeOK
  BY InitTypeOK DEF WorkerInit
<1>2. WorkerTypeOK
  BY DEF WorkerInit, WorkerTypeOK, SlotSteps
<1>3. SlotsAndBatches
  BY DEF WorkerInit, SlotsAndBatches
<1>4. \A w \in Workers : Held(w) = {}
  BY DEF WorkerInit, Held
<1>5. \A s \in Slots : WorkerOf(s) \in Workers
  BY DEF Slots, WorkerOf
<1>6. ClaimsAreDisjoint
  BY <1>4, <1>5 DEF WorkerInit, ClaimsAreDisjoint
<1> QED
  BY <1>1, <1>2, <1>3, <1>6 DEF WorkerInv

\* Every step of the workers keeps their invariant.
LEMMA WorkerNextInv ==
    ASSUME WorkerInv, WorkerAssumption, StoreAssumption, [WorkerNext]_vars
    PROVE  WorkerInv'
<1>1. [StoreNext]_storeVars
  BY StepImplements
<1>2. TypeOK' /\ RowsKept
  BY <1>1, NextTypeOK, StoreKeepsRows DEF WorkerInv
<1>3. ASSUME WorkerTypeOK', SlotsAndBatches', Shrinks
      PROVE  WorkerInv'
  BY <1>2, <1>3, NoNewClaims DEF Shrinks, WorkerInv
<1>4. ASSUME NEW w \in Workers, WorkerStep(w)
      PROVE  WorkerInv'
  <2>1. CASE Claim(w)
    BY <1>2, <2>1, ClaimKeepsDisjoint DEF WorkerInv
  <2>2. CASE ~Claim(w)
    BY <1>3, <1>4, <2>2, PollShrinks DEF WorkerStep
  <2> QED
    BY <2>1, <2>2
<1>5. ASSUME NEW s \in Slots, SlotWork(s)
      PROVE  WorkerInv'
  <2>1. ASSUME NEW c \in backlog[WorkerOf(s)], Send(s, c)
        PROVE  WorkerInv'
    BY <1>2, <2>1, SendKeepsDisjoint DEF WorkerInv
  <2>2. CASE ~\E c \in backlog[WorkerOf(s)] : Send(s, c)
    BY <1>3, <1>5, <2>2, SlotShrinks DEF SlotWork
  <2> QED
    BY <2>1, <2>2
<1>6. CASE \/ \E s \in Slots : RenewStep(s)
           \/ \E j \in Jobs : RedisKeyExpires(j) \/ Environment(j)
           \/ UNCHANGED vars
  BY <1>3, <1>6, OthersShrink
<1> QED
  BY <1>4, <1>5, <1>6 DEF WorkerNext

\* The workers' invariant holds in every reachable state.
THEOREM WorkerCorrect == WorkerSpec => []WorkerInv
<1>1. WorkerInit => WorkerInv
  BY WorkerInitInv, WorkerAssumption
<1>2. WorkerInv /\ [WorkerNext]_vars => WorkerInv'
  BY WorkerNextInv, WorkerAssumption, StoreAssumption
<1> QED
  BY <1>1, <1>2, PTL DEF WorkerSpec

\* No attempt is processed by two slots, of one worker or of two, and a worker
\* holds only claims whose attempt rows it inserted itself.
THEOREM WorkersHoldDisjointClaims == WorkerSpec => []ClaimsAreDisjoint
<1>1. WorkerInv => ClaimsAreDisjoint
  BY DEF WorkerInv
<1> QED
  BY <1>1, WorkerCorrect, PTL

\* The memory of poll loops, slots, renewers and Redis keys is well typed.
THEOREM WorkerTypeCorrect == WorkerSpec => []WorkerTypeOK
<1>1. WorkerInv => WorkerTypeOK
  BY DEF WorkerInv
<1> QED
  BY <1>1, WorkerCorrect, PTL

\* The workers implement the job store: whatever they do, in whatever order
\* their calls and failures come, the database sees only its transactions.
THEOREM WorkersImplementStore == WorkerSpec => StoreSpec
<1>1. WorkerInit => StoreInit
  BY DEF WorkerInit
<1>2. WorkerInv /\ [WorkerNext]_vars => [StoreNext]_storeVars
  BY StepImplements, WorkerAssumption
<1> QED
  BY <1>1, <1>2, WorkerCorrect, PTL DEF WorkerSpec, StoreSpec

------------------------------------------------------------------------------
\* The Redis lock, for workers with one slot whose keys outlive their handlers.

\* A worker's only slot is known by its worker.
LEMMA OneSlotPerWorker ==
    ASSUME Concurrency = 1, NEW s \in Slots, NEW t \in Slots, s # t
    PROVE  WorkerOf(s) # WorkerOf(t)
  BY DEF Slots, WorkerOf

\* A key that is free or that a slot outside its handler owns is not needed by
\* any handler.
LEMMA KeyMayChange ==
    ASSUME WorkerInv, StoreAssumption, KeysAreHeld, NEW j \in Jobs,
           \A t \in Slots : Executing(t) /\ claim[t].job = j => WorkerOf(t) # redis[j],
           NEW v, redis' = [redis EXCEPT ![j] = v],
           \A t \in Slots : Executing(t)' => Executing(t) /\ claim'[t] = claim[t]
    PROVE  KeysAreHeld'
<1> SUFFICES ASSUME NEW t \in Slots, Executing(t)'
             PROVE  redis'[claim'[t].job] = WorkerOf(t)
  BY DEF KeysAreHeld, WorkerOf
<1>1. Executing(t) /\ claim'[t] = claim[t] /\ redis[claim[t].job] = WorkerOf(t)
  BY DEF KeysAreHeld
<1>2. claim[t].job \in Jobs /\ claim[t].job # j
  BY <1>1, BusySlot DEF Executing
<1> QED
  BY <1>1, <1>2 DEF WorkerInv, WorkerTypeOK

\* A step that leaves the keys alone and starts no handler needs nothing.
LEMMA KeysUntouched ==
    ASSUME KeysAreHeld, redis' = redis,
           \A t \in Slots : Executing(t)' => Executing(t) /\ claim'[t] = claim[t]
    PROVE  KeysAreHeld'
  BY DEF KeysAreHeld, WorkerOf

\* Every step keeps the keys of running handlers with their slots.
LEMMA KeysStayHeld ==
    ASSUME WorkerInv, StoreAssumption, Concurrency = 1, RedisTimely, KeysAreHeld, [WorkerNext]_vars
    PROVE  KeysAreHeld'
<1> DEFINE NoneStarts == \A t \in Slots : Executing(t)' => Executing(t) /\ claim'[t] = claim[t]
<1>0. pc \in [Slots -> SlotSteps] /\ claim \in [Slots -> Claims \cup {NULL}]
  BY DEF WorkerInv, WorkerTypeOK
<1>1. ASSUME NEW s \in Slots, Acquire(s)
      PROVE  KeysAreHeld'
  <2> DEFINE j == claim[s].job
  <2>1. /\ redis[j] = NULL /\ redis' = [redis EXCEPT ![j] = WorkerOf(s)]
        /\ pc' = [pc EXCEPT ![s] = "execute"] /\ claim' = claim /\ pc[s] = "acquire"
    BY <1>1 DEF Acquire
  <2>2. j \in Jobs
    BY <2>1, BusySlot
  <2>3. redis'[j] = WorkerOf(s) /\ \A i \in Jobs \ {j} : redis'[i] = redis[i]
    BY <2>1, <2>2 DEF WorkerInv, WorkerTypeOK
  <2> HIDE DEF j
  <2>4. ASSUME NEW t \in Slots, t # s, Executing(t)'
        PROVE  redis'[claim'[t].job] = WorkerOf(t)
    <3>1. Executing(t) /\ claim'[t] = claim[t]
      BY <1>0, <2>1, <2>4 DEF Executing
    <3>2. claim[t].job \in Jobs /\ WorkerOf(t) \in Workers /\ redis[claim[t].job] = WorkerOf(t)
      BY <3>1, BusySlot DEF KeysAreHeld, Executing
    <3>3. claim[t].job # j
      BY <2>1, <3>2 DEF StoreAssumption
    <3> QED
      BY <2>3, <3>1, <3>2, <3>3
  <2> QED
    BY <2>1, <2>3, <2>4 DEF KeysAreHeld, WorkerOf, j
<1>2. ASSUME NEW s \in Slots, AcquireError(s)
      PROVE  KeysAreHeld'
  <2>1. NoneStarts
    BY <1>0, <1>2 DEF AcquireError, Idle, Executing
  <2>2. CASE redis' = redis
    BY <2>1, <2>2, KeysUntouched
  <2>3. CASE redis[claim[s].job] = NULL /\ redis' = [redis EXCEPT ![claim[s].job] = WorkerOf(s)]
    <3>1. claim[s].job \in Jobs
      BY <1>2, BusySlot DEF AcquireError
    <3>2. \A t \in Slots : WorkerOf(t) # NULL
      BY BusySlot DEF StoreAssumption
    <3> QED
      BY <2>1, <2>3, <3>1, <3>2, KeyMayChange
  <2> QED
    BY <1>2, <2>2, <2>3 DEF AcquireError
<1>3. ASSUME NEW s \in Slots, Release(s)
      PROVE  KeysAreHeld'
  <2>1. NoneStarts
    BY <1>0, <1>3 DEF Release, Idle, Executing
  <2>2. claim[s].job \in Jobs /\ ~Executing(s)
    BY <1>3, BusySlot DEF Release, Executing
  <2>3. CASE redis' = redis
    BY <2>1, <2>3, KeysUntouched
  <2>4. CASE redis[claim[s].job] = WorkerOf(s) /\ redis' = [redis EXCEPT ![claim[s].job] = NULL]
    <3>1. \A t \in Slots : Executing(t) => WorkerOf(t) # WorkerOf(s)
      BY <2>2, OneSlotPerWorker
    <3> QED
      BY <2>1, <2>2, <2>4, <3>1, KeyMayChange
  <2>5. redis \in [Jobs -> Workers \cup {NULL}]
    BY DEF WorkerInv, WorkerTypeOK
  <2> QED
    BY <1>3, <2>2, <2>3, <2>4, <2>5 DEF Release
<1>4. ASSUME NEW j \in Jobs, RedisKeyExpires(j)
      PROVE  KeysAreHeld'
  <2>1. /\ redis' = [redis EXCEPT ![j] = NULL]
        /\ \A s \in Slots : Executing(s) /\ claim[s].job = j => WorkerOf(s) # redis[j]
        /\ NoneStarts
    BY <1>4 DEF RedisKeyExpires, workerVars, Executing
  <2> QED
    BY <2>1, KeyMayChange
<1>5. ASSUME NEW w \in Workers, WorkerStep(w)
      PROVE  redis' = redis /\ NoneStarts
  BY <1>5 DEF WorkerStep, Recover, Claim, ClaimNothing, Shutdown, StopPolling, Crash, Executing
<1>6. ASSUME NEW s \in Slots,
             \/ \E c \in backlog[WorkerOf(s)] : Send(s, c)
             \/ AcquireMiss(s) \/ GiveBack(s)
             \/ \E outcome \in Outcomes : ExecuteReturns(s, outcome)
             \/ Finalize(s) \/ FinalizeFails(s)
      PROVE  redis' = redis /\ NoneStarts
  BY <1>0, <1>6 DEF Send, AcquireMiss, GiveBack, ExecuteReturns, Finalize, FinalizeFails,
     Idle, Executing, Outcomes
<1>7. ASSUME NEW s \in Slots, RenewStep(s)
      PROVE  redis' = redis /\ NoneStarts
  BY <1>7 DEF RenewStep, RenewLease, RenewRedis, RenewFails, Executing
<1>8. ASSUME NEW j \in Jobs, Environment(j)
      PROVE  redis' = redis /\ NoneStarts
  <2>1. UNCHANGED <<redis, workerVars>>
    BY <1>8 DEF Environment
  <2> QED
    BY <2>1 DEF workerVars, Executing
<1>9. ASSUME UNCHANGED vars
      PROVE  redis' = redis /\ NoneStarts
  BY <1>9 DEF vars, workerVars, Executing
<1>10. CASE redis' = redis /\ NoneStarts
  BY <1>10, KeysUntouched
<1> HIDE DEF NoneStarts
<1> QED
  BY <1>1, <1>2, <1>3, <1>4, <1>5, <1>6, <1>7, <1>8, <1>9, <1>10 DEF WorkerNext, SlotWork

\* While no key lapses under its handler, workers with one slot each never run
\* the handler of one job at the same time, although leases lapse and jobs are
\* claimed anew. (With more slots it fails: the value of a key names the worker,
\* so a slot that comes late deletes the key of its neighbour.)
THEOREM HandlersRunAlone ==
    Concurrency = 1 /\ RedisTimely /\ WorkerSpec => []ExclusiveExecution
<1> SUFFICES ASSUME Concurrency = 1, RedisTimely
             PROVE  WorkerSpec => []ExclusiveExecution
  OBVIOUS
<1>1. WorkerInit => KeysAreHeld
  BY DEF WorkerInit, KeysAreHeld, Executing
<1>2. WorkerInv /\ KeysAreHeld /\ [WorkerNext]_vars => KeysAreHeld'
  BY KeysStayHeld, StoreAssumption
<1>3. KeysAreHeld => ExclusiveExecution
  BY OneSlotPerWorker DEF KeysAreHeld, ExclusiveExecution
<1> QED
  BY <1>1, <1>2, <1>3, WorkerCorrect, PTL DEF WorkerSpec
==============================================================================
