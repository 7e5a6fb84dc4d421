---------------------------- MODULE JobStoreProofs ----------------------------
(***************************************************************************)
(* Proofs about the job store, for any sets of jobs and workers, any retry *)
(* budgets, any batch size and any number of attempts: type correctness,   *)
(* the transition table and the timeline, then the inductive invariant.    *)
(***************************************************************************)
EXTENDS JobStore, SequenceTheorems, TLAPS

------------------------------------------------------------------------------
\* Closing attempt rows.

\* CloseRunning keeps the rows and changes only the status of RUNNING ones.
LEMMA CloseRunningRows ==
    ASSUME NEW rows \in Seq(Attempt), NEW s \in AttemptStatuses
    PROVE  /\ CloseRunning(rows, s) \in Seq(Attempt)
           /\ Len(CloseRunning(rows, s)) = Len(rows)
           /\ \A a \in 1..Len(rows) : /\ CloseRunning(rows, s)[a].number = rows[a].number
                                      /\ CloseRunning(rows, s)[a].worker = rows[a].worker
<1>1. DOMAIN rows = 1..Len(rows) /\ Len(rows) \in Nat
  BY LenProperties
<1>2. \A a \in 1..Len(rows) : rows[a] \in Attempt
  BY ElementOfSeq
<1> DEFINE new(a) == IF rows[a].status = "RUNNING" THEN [rows[a] EXCEPT !.status = s] ELSE rows[a]
<1>3. \A a \in 1..Len(rows) : /\ new(a) \in Attempt
                              /\ new(a).number = rows[a].number
                              /\ new(a).worker = rows[a].worker
  BY <1>2 DEF Attempt
<1>4. CloseRunning(rows, s) = [a \in 1..Len(rows) |-> new(a)]
  BY <1>1 DEF CloseRunning
<1> HIDE DEF new
<1>5. [a \in 1..Len(rows) |-> new(a)] \in Seq(Attempt)
  BY <1>1, <1>3, IsASeq
<1>6. Len([a \in 1..Len(rows) |-> new(a)]) = Len(rows)
  BY <1>1, <1>5
<1> QED
  BY <1>3, <1>4, <1>5, <1>6

\* In particular it keeps the attempt numbers.
LEMMA ClosedNumbers ==
    ASSUME NEW rows \in Seq(Attempt), NEW s \in AttemptStatuses
    PROVE  /\ DOMAIN CloseRunning(rows, s) = DOMAIN rows
           /\ \A a \in DOMAIN rows : CloseRunning(rows, s)[a].number = rows[a].number
<1>1. DOMAIN rows = 1..Len(rows)
  BY LenProperties
<1>2. DOMAIN CloseRunning(rows, s) = DOMAIN rows
  BY DEF CloseRunning
<1> QED
  BY <1>1, <1>2, CloseRunningRows

\* Setting the status of one row changes nothing else.
LEMMA SetStatusRows ==
    ASSUME NEW rows \in Seq(Attempt), NEW s \in AttemptStatuses, NEW a \in DOMAIN rows
    PROVE  /\ [rows EXCEPT ![a].status = s] \in Seq(Attempt)
           /\ Len([rows EXCEPT ![a].status = s]) = Len(rows)
           /\ \A b \in 1..Len(rows) : /\ [rows EXCEPT ![a].status = s][b].number = rows[b].number
                                      /\ [rows EXCEPT ![a].status = s][b].worker = rows[b].worker
<1>1. a \in 1..Len(rows)
  BY LenProperties
<1>2. \A b \in 1..Len(rows) : rows[b] \in Attempt
  BY ElementOfSeq
<1> DEFINE new == [rows[a] EXCEPT !.status = s]
<1>3. new \in Attempt /\ new.number = rows[a].number /\ new.worker = rows[a].worker
  BY <1>1, <1>2 DEF Attempt
<1>4. [rows EXCEPT ![a].status = s] = [rows EXCEPT ![a] = new]
  OBVIOUS
<1> HIDE DEF new
<1> QED
  BY <1>1, <1>2, <1>3, <1>4, ExceptSeq

\* A new row comes last and leaves the others alone.
LEMMA AppendRow ==
    ASSUME NEW T, NEW rows \in Seq(T), NEW r \in T
    PROVE  /\ Append(rows, r) # <<>>
           /\ Len(Append(rows, r)) = Len(rows) + 1
           /\ Append(rows, r)[Len(Append(rows, r))] = r
           /\ \A a \in DOMAIN Append(rows, r) :
                 \/ Append(rows, r)[a] = r
                 \/ a \in DOMAIN rows /\ Append(rows, r)[a] = rows[a]
<1>1. Append(rows, r) \in Seq(T) /\ Len(rows) \in Nat /\ Len(Append(rows, r)) = Len(rows) + 1
  OBVIOUS
<1>2. Append(rows, r) # <<>>
  <2>1. Len(Append(rows, r)) # 0
    BY <1>1
  <2> QED
    BY <2>1, EmptySeq
<1>3. DOMAIN Append(rows, r) = 1..(Len(rows) + 1) /\ DOMAIN rows = 1..Len(rows)
  BY <1>1, LenProperties
<1>4. Append(rows, r)[Len(rows) + 1] = r
  BY <1>1
<1>5. \A a \in 1..Len(rows) : Append(rows, r)[a] = rows[a]
  BY <1>1
<1> QED
  BY <1>1, <1>2, <1>3, <1>4, <1>5

------------------------------------------------------------------------------
\* Type correctness.

\* The failure decision is one of two states and a positive retry count.
LEMMA DecisionType ==
    ASSUME NEW r \in Nat, NEW m \in Nat
    PROVE  /\ DecideFailure(r, m).status = IF r + 1 > m THEN "DEAD_LETTERED" ELSE "RETRY_SCHEDULED"
           /\ DecideFailure(r, m).nextRetryCount = r + 1
  BY DEF DecideFailure

\* The empty tables are well typed.
LEMMA InitTypeOK == StoreInit => TypeOK
  BY EmptySeq DEF StoreInit, TypeOK

\* Clearing locked_by and locked_until keeps their types.
LEMMA UnlockType ==
    ASSUME TypeOK, NEW S, Unlock(S)
    PROVE  /\ lockedBy' \in [Jobs -> Workers \cup {NULL}]
           /\ lockedUntil' \in [Jobs -> {"null", "live", "expired"}]
  BY DEF TypeOK, Unlock

\* The row image that Create and RequeueDeadLetter insert is well typed.
LEMMA InsertJobType ==
    ASSUME TypeOK, StoreAssumption,
           NEW j \in Jobs, NEW future \in BOOLEAN, NEW max \in Nat, NEW src \in Jobs \cup {NULL},
           NEW event \in EventTypes, InsertJob(j, future, max, src, event),
           deadLetters' \in [Jobs -> Seq(Jobs \cup {NULL})]
    PROVE  TypeOK'
  BY DEF TypeOK, InsertJob, initialStatus, Statuses

\* Create keeps the column types.
LEMMA CreateType ==
    ASSUME TypeOK, StoreAssumption, NEW j \in Jobs, NEW future \in BOOLEAN,
           NEW max \in MaxRetriesChoices, Create(j, future, max)
    PROVE  TypeOK'
<1>1. "job.created" \in EventTypes /\ max \in Nat
  BY DEF EventTypes, StoreAssumption
<1>2. deadLetters' \in [Jobs -> Seq(Jobs \cup {NULL})]
  BY DEF Create, TypeOK
<1> QED
  BY <1>1, <1>2, InsertJobType DEF Create

\* RequeueDeadLetter keeps the column types.
LEMMA RequeueDeadLetterType ==
    ASSUME TypeOK, StoreAssumption, NEW j \in Jobs, NEW d \in DOMAIN deadLetters[j],
           NEW n \in Jobs, RequeueDeadLetter(j, d, n)
    PROVE  TypeOK'
<1>1. "job.requeued" \in EventTypes /\ RequeueMaxRetries \in Nat
  BY DEF EventTypes, StoreAssumption
<1>2. deadLetters[j] \in Seq(Jobs \cup {NULL})
  BY DEF TypeOK
<1>3. [deadLetters[j] EXCEPT ![d] = n] \in Seq(Jobs \cup {NULL})
  BY <1>2, LenProperties, ExceptSeq
<1>4. deadLetters' \in [Jobs -> Seq(Jobs \cup {NULL})]
  BY <1>3 DEF RequeueDeadLetter, TypeOK
<1> QED
  BY <1>1, <1>4, InsertJobType DEF RequeueDeadLetter

\* ClaimDueJobs keeps the column types; its attempt rows are numbered from 1.
LEMMA ClaimDueJobsType ==
    ASSUME TypeOK, NEW w \in Workers, NEW S \in SUBSET Jobs, ClaimDueJobs(w, S)
    PROVE  TypeOK'
<1> DEFINE row(j) == NewAttempt(j, w)
<1>1. \A j \in Jobs : row(j) \in Attempt
  BY DEF NewAttempt, TypeOK, Attempt, AttemptStatuses
<1>2. \A j \in Jobs : Append(attempts[j], row(j)) \in Seq(Attempt)
  BY <1>1 DEF TypeOK
<1>3. attempts' \in [Jobs -> Seq(Attempt)]
  BY <1>2 DEF ClaimDueJobs, TypeOK
<1>4. events' \in [Jobs -> SUBSET EventTypes]
  BY DEF ClaimDueJobs, TypeOK, EventTypes
<1>5. /\ status' \in [Jobs -> Statuses \cup {"ABSENT"}]
      /\ lockedBy' \in [Jobs -> Workers \cup {NULL}]
      /\ lockedUntil' \in [Jobs -> {"null", "live", "expired"}]
  BY DEF ClaimDueJobs, TypeOK, Statuses
<1> QED
  BY <1>3, <1>4, <1>5 DEF ClaimDueJobs, TypeOK

\* CompleteExecution keeps the column types.
LEMMA CompleteExecutionType ==
    ASSUME TypeOK, NEW j \in Jobs, NEW a \in DOMAIN attempts[j], CompleteExecution(j, a)
    PROVE  TypeOK'
<1>1. attempts' \in [Jobs -> Seq(Attempt)]
  <2>1. [attempts[j] EXCEPT ![a].status = "SUCCEEDED"] \in Seq(Attempt)
    BY SetStatusRows DEF TypeOK, AttemptStatuses
  <2> QED
    BY <2>1 DEF CompleteExecution, TypeOK
<1>2. events' \in [Jobs -> SUBSET EventTypes]
  BY DEF CompleteExecution, TypeOK, EventTypes
<1>3. status' \in [Jobs -> Statuses \cup {"ABSENT"}]
  BY DEF CompleteExecution, TypeOK, Statuses
<1> QED
  BY <1>1, <1>2, <1>3, UnlockType DEF CompleteExecution, TypeOK

\* FailExecution keeps the column types; the count it writes is a natural number.
LEMMA FailExecutionType ==
    ASSUME TypeOK, NEW j \in Jobs, NEW a \in DOMAIN attempts[j], NEW retryable \in BOOLEAN,
           NEW after \in BOOLEAN, FailExecution(j, a, retryable, after)
    PROVE  TypeOK'
<1>1. attempts' \in [Jobs -> Seq(Attempt)]
  <2>1. [attempts[j] EXCEPT ![a].status = "FAILED"] \in Seq(Attempt)
    BY SetStatusRows DEF TypeOK, AttemptStatuses
  <2> QED
    BY <2>1 DEF FailExecution, TypeOK
<1>2. events' \in [Jobs -> SUBSET EventTypes]
  BY DEF FailExecution, TypeOK, EventTypes
<1>3. status' \in [Jobs -> Statuses \cup {"ABSENT"}]
  BY DEF FailExecution, TypeOK, Statuses
<1>4. retryCount' \in [Jobs -> Nat]
  <2>1. attempts[j][a] \in Attempt
    BY LenProperties, ElementOfSeq DEF TypeOK
  <2>2. attempts[j][a].number - 1 \in Nat /\ maxRetries[j] \in Nat
    BY <2>1 DEF Attempt, TypeOK
  <2>3. FailureOf(j, a).nextRetryCount \in Nat
    BY <2>2 DEF FailureOf, DecideFailure
  <2> QED
    BY <2>3 DEF FailExecution, TypeOK
<1>5. deadLetters' \in [Jobs -> Seq(Jobs \cup {NULL})]
  BY DEF FailExecution, TypeOK
<1>6. due' \in [Jobs -> BOOLEAN]
  BY Zenon DEF FailExecution, TypeOK
<1> QED
  BY <1>1, <1>2, <1>3, <1>4, <1>5, <1>6, UnlockType DEF FailExecution, TypeOK

\* ReleaseClaim keeps the column types.
LEMMA ReleaseClaimType ==
    ASSUME TypeOK, NEW j \in Jobs, NEW w \in Workers, ReleaseClaim(j, w)
    PROVE  TypeOK'
  BY UnlockType DEF ReleaseClaim, TypeOK, Statuses

\* TransitionJob keeps the column types, for each operator request.
LEMMA TransitionJobType ==
    ASSUME TypeOK, NEW j \in Jobs, NEW op \in DOMAIN Operations,
           TransitionJob(j, Operations[op].from, Operations[op].to)
    PROVE  TypeOK'
<1> DEFINE to == Operations[op].to
<1>1. /\ to \in {"CANCELLED", "PAUSED", "SCHEDULED", "RETRY_SCHEDULED"}
      /\ TransitionEvent[to] \in EventTypes
  BY DEF Operations, TransitionEvent, EventTypes
<1> HIDE DEF to
<1>2. CloseRunning(attempts[j], "CANCELLED") \in Seq(Attempt)
  BY CloseRunningRows DEF TypeOK, AttemptStatuses
<1>3. attempts' \in [Jobs -> Seq(Attempt)]
  BY <1>2 DEF TransitionJob, TypeOK
<1>4. events' \in [Jobs -> SUBSET EventTypes]
  BY <1>1 DEF TransitionJob, TypeOK, to
<1>5. status' \in [Jobs -> Statuses \cup {"ABSENT"}]
  BY <1>1 DEF TransitionJob, TypeOK, Statuses, to
<1> QED
  BY <1>3, <1>4, <1>5, UnlockType DEF TransitionJob, TypeOK

\* RecoverExpiredRunningJobs keeps the column types.
LEMMA RecoverType ==
    ASSUME TypeOK, NEW S \in SUBSET Jobs, RecoverExpiredRunningJobs(S)
    PROVE  TypeOK'
<1> DEFINE decision(j) == DecideFailure(retryCount[j], maxRetries[j])
<1>1. \A j \in Jobs : /\ decision(j).status \in {"DEAD_LETTERED", "RETRY_SCHEDULED"}
                     /\ decision(j).nextRetryCount \in Nat
  BY DEF TypeOK, DecideFailure
<1>2. \A j \in Jobs : CloseRunning(attempts[j], "FAILED") \in Seq(Attempt)
  BY CloseRunningRows DEF TypeOK, AttemptStatuses
<1>3. attempts' \in [Jobs -> Seq(Attempt)]
  BY <1>2 DEF RecoverExpiredRunningJobs, TypeOK
<1>4. status' \in [Jobs -> Statuses \cup {"ABSENT"}] /\ retryCount' \in [Jobs -> Nat]
  BY <1>1 DEF RecoverExpiredRunningJobs, TypeOK, Statuses
<1>5. events' \in [Jobs -> SUBSET EventTypes]
  BY DEF RecoverExpiredRunningJobs, TypeOK, EventTypes
<1>6. deadLetters' \in [Jobs -> Seq(Jobs \cup {NULL})]
  BY DEF RecoverExpiredRunningJobs, TypeOK
<1>7. due' \in [Jobs -> BOOLEAN]
  <2> DEFINE new(j) == IF j \in S /\ ~(decision(j).status = "DEAD_LETTERED")
                       THEN decision(j).delay \in Elapsed ELSE due[j]
  <2>1. due' = [j \in Jobs |-> new(j)]
    BY Zenon DEF RecoverExpiredRunningJobs
  <2>2. \A j \in Jobs : new(j) \in BOOLEAN
    <3> TAKE j \in Jobs
    <3> DEFINE elapsed == decision(j).delay \in Elapsed
    <3>1. elapsed \in BOOLEAN
      OBVIOUS
    <3> HIDE DEF elapsed
    <3>2. due[j] \in BOOLEAN
      BY DEF TypeOK
    <3>3. new(j) = due[j] \/ new(j) = elapsed
      BY DEF elapsed
    <3> QED
      BY <3>1, <3>2, <3>3, Zenon
  <2> HIDE DEF new
  <2> QED
    BY <2>1, <2>2, Zenon
<1> QED
  BY <1>3, <1>4, <1>5, <1>6, <1>7, UnlockType DEF RecoverExpiredRunningJobs, TypeOK

\* Lease renewal and the passage of time keep the column types.
LEMMA TimeType ==
    ASSUME TypeOK, NEW j \in Jobs,
           \/ LeaseExpires(j) \/ BecomesDue(j) \/ \E w \in Workers : ExtendLease(j, w)
    PROVE  TypeOK'
  BY DEF TypeOK, LeaseExpires, BecomesDue, ExtendLease

\* Every transaction keeps the column types.
LEMMA NextTypeOK ==
    ASSUME TypeOK, StoreAssumption, [StoreNext]_storeVars
    PROVE  TypeOK'
<1>1. CASE UNCHANGED storeVars
  BY <1>1 DEF TypeOK, storeVars, jobVars
<1>2. ASSUME NEW w \in Workers, NEW S \in SUBSET Jobs, ClaimDueJobs(w, S)
      PROVE  TypeOK'
  BY <1>2, ClaimDueJobsType
<1>3. ASSUME NEW S \in SUBSET Jobs, RecoverExpiredRunningJobs(S)
      PROVE  TypeOK'
  BY <1>3, RecoverType
<1>4. ASSUME NEW j \in Jobs, JobNext(j)
      PROVE  TypeOK'
  BY <1>4, CreateType, CompleteExecutionType, FailExecutionType, ReleaseClaimType,
     TransitionJobType, RequeueDeadLetterType, TimeType DEF JobNext
<1> QED
  BY <1>1, <1>2, <1>3, <1>4 DEF StoreNext

\* Every column keeps the type the schema gives it, whatever transactions the
\* API and the workers commit and in whatever order.
THEOREM TypeCorrect == StoreSpec => []TypeOK
<1>1. TypeOK /\ [StoreNext]_storeVars => TypeOK'
  BY NextTypeOK, StoreAssumption
<1> QED
  BY InitTypeOK, <1>1, PTL DEF StoreSpec

------------------------------------------------------------------------------
\* The transition table.

\* One job's state changes along the table in every transaction on it.
LEMMA JobNextLegal ==
    ASSUME TypeOK, NEW j \in Jobs, JobNext(j), NEW i \in Jobs
    PROVE  LegalMove(i)
<1> USE DEF LegalMove
<1>1. ASSUME NEW n \in Jobs, NEW future \in BOOLEAN, NEW max, NEW src, NEW event,
             InsertJob(n, future, max, src, event)
      PROVE  LegalMove(i)
  BY <1>1 DEF InsertJob, initialStatus, TypeOK
<1>2. ASSUME NEW a \in DOMAIN attempts[j], CompleteExecution(j, a)
      PROVE  LegalMove(i)
  BY <1>2 DEF CompleteExecution, Owns, TypeOK, CanTransition, Transitions
<1>3. ASSUME NEW a \in DOMAIN attempts[j], NEW retryable \in BOOLEAN,
           NEW after \in BOOLEAN, FailExecution(j, a, retryable, after)
      PROVE  LegalMove(i)
  BY <1>3 DEF FailExecution, Owns, TypeOK, CanTransition, Transitions
<1>4. ASSUME NEW w \in Workers, ReleaseClaim(j, w)
      PROVE  LegalMove(i)
  BY <1>4 DEF ReleaseClaim, Owns, TypeOK, CanTransition, Transitions
<1>5. ASSUME NEW op \in DOMAIN Operations, TransitionJob(j, Operations[op].from, Operations[op].to)
      PROVE  LegalMove(i)
  <2>1. \A s \in Operations[op].from : CanTransition(s, Operations[op].to) /\ s # "DEAD_LETTERED"
    BY DEF Operations, CanTransition, Transitions
  <2> QED
    BY <1>5, <2>1 DEF TransitionJob, TypeOK
<1>6. CASE LeaseExpires(j) \/ BecomesDue(j) \/ \E w \in Workers : ExtendLease(j, w)
  BY <1>6 DEF LeaseExpires, BecomesDue, ExtendLease
<1> QED
  BY <1>1, <1>2, <1>3, <1>4, <1>5, <1>6 DEF JobNext, Create, RequeueDeadLetter

\* Any transaction moves any job along the table, or not at all.
LEMMA NextLegal ==
    ASSUME TypeOK, [StoreNext]_storeVars, NEW i \in Jobs
    PROVE  LegalMove(i)
<1>1. CASE UNCHANGED storeVars
  BY <1>1 DEF storeVars, jobVars, LegalMove
<1>2. ASSUME NEW w \in Workers, NEW S \in SUBSET Jobs, ClaimDueJobs(w, S)
      PROVE  LegalMove(i)
  BY <1>2 DEF ClaimDueJobs, Claimable, LegalMove, CanTransition, Transitions
<1>3. ASSUME NEW S \in SUBSET Jobs, RecoverExpiredRunningJobs(S)
      PROVE  LegalMove(i)
  BY <1>3 DEF RecoverExpiredRunningJobs, DecideFailure, LegalMove, CanTransition, Transitions
<1>4. ASSUME NEW j \in Jobs, JobNext(j)
      PROVE  LegalMove(i)
  BY <1>4, JobNextLegal
<1> QED
  BY <1>1, <1>2, <1>3, <1>4 DEF StoreNext

\* Whatever transaction commits, every job follows the transition table of
\* scheduler/engine.go, and a finished job never changes state again.
THEOREM StepsAreLegal == StoreSpec => LegalSteps
<1>1. TypeOK /\ [StoreNext]_storeVars => [LegalStep]_storeVars
  BY NextLegal DEF LegalStep
<1> QED
  BY <1>1, TypeCorrect, PTL DEF StoreSpec, LegalSteps

------------------------------------------------------------------------------
\* What no transaction takes back.

\* The workers, recovery and time insert no row and relink none.
LEMMA WorkersKeepRows ==
    ASSUME TypeOK, NEW j \in Jobs,
           \/ \E w \in Workers, S \in SUBSET Jobs : ClaimDueJobs(w, S)
           \/ \E S \in SUBSET Jobs : RecoverExpiredRunningJobs(S)
           \/ \E i \in Jobs :
                 \/ \E a \in DOMAIN attempts[i] : CompleteExecution(i, a)
                 \/ \E a \in DOMAIN attempts[i], retryable, after \in BOOLEAN :
                       FailExecution(i, a, retryable, after)
                 \/ \E w \in Workers : ExtendLease(i, w) \/ ReleaseClaim(i, w)
                 \/ LeaseExpires(i) \/ BecomesDue(i)
    PROVE  (status[j] = "ABSENT" => status'[j] = "ABSENT") /\ source'[j] = source[j]
<1> DEFINE Kept == (status[j] = "ABSENT" => status'[j] = "ABSENT") /\ source'[j] = source[j]
<1>1. ASSUME NEW w \in Workers, NEW S \in SUBSET Jobs, ClaimDueJobs(w, S) PROVE Kept
  BY <1>1 DEF ClaimDueJobs, Claimable
<1>2. ASSUME NEW S \in SUBSET Jobs, RecoverExpiredRunningJobs(S) PROVE Kept
  BY <1>2 DEF RecoverExpiredRunningJobs
<1>3. ASSUME NEW i \in Jobs, NEW a \in DOMAIN attempts[i],
             \/ CompleteExecution(i, a)
             \/ \E retryable, after \in BOOLEAN : FailExecution(i, a, retryable, after)
      PROVE  Kept
  BY <1>3 DEF CompleteExecution, FailExecution, Owns, TypeOK
<1>4. ASSUME NEW i \in Jobs,
             \/ \E w \in Workers : ExtendLease(i, w) \/ ReleaseClaim(i, w)
             \/ LeaseExpires(i) \/ BecomesDue(i)
      PROVE  Kept
  BY <1>4 DEF ExtendLease, ReleaseClaim, Owns, LeaseExpires, BecomesDue, TypeOK
<1> HIDE DEF Kept
<1>5. Kept
  BY <1>1, <1>2, <1>3, <1>4, Zenon
<1> QED
  BY <1>5 DEF Kept

\* What an INSERT into jobs leaves of the other rows.
LEMMA RowInserted ==
    ASSUME TypeOK, NEW n \in Jobs, NEW future \in BOOLEAN, NEW max, NEW src, NEW event,
           InsertJob(n, future, max, src, event)
    PROVE  /\ status[n] = "ABSENT" /\ status'[n] # "ABSENT" /\ source'[n] = src
           /\ \A j \in Jobs \ {n} : status'[j] = status[j] /\ source'[j] = source[j]
  BY DEF InsertJob, initialStatus, TypeOK

\* A row stays inserted, keeps the dead letter it was requeued from, and stays
\* cancelled once it is.
LEMMA RowsStay ==
    ASSUME TypeOK, [StoreNext]_storeVars, NEW j \in Jobs, status[j] # "ABSENT"
    PROVE  /\ status'[j] # "ABSENT" /\ source'[j] = source[j]
           /\ status[j] = "CANCELLED" => status'[j] = "CANCELLED"
<1>1. LegalMove(j)
  BY NextLegal
<1>2. status'[j] # "ABSENT" /\ (status[j] = "CANCELLED" => status'[j] = "CANCELLED")
  BY <1>1 DEF LegalMove, CanTransition, Transitions
<1>3. source'[j] = source[j]
  <2>1. ASSUME NEW n \in Jobs, NEW future \in BOOLEAN, NEW max, NEW src, NEW event,
               InsertJob(n, future, max, src, event)
        PROVE  source'[j] = source[j]
    BY <2>1, RowInserted
  <2>2. ASSUME NEW i \in Jobs, NEW from, NEW to, TransitionJob(i, from, to)
        PROVE  source'[j] = source[j]
    BY <2>2 DEF TransitionJob
  <2>3. CASE UNCHANGED storeVars
    BY <2>3 DEF storeVars, jobVars
  <2>4. CASE StoreNext
    BY <2>1, <2>2, <2>4, WorkersKeepRows, Zenon
    DEF StoreNext, JobNext, Create, RequeueDeadLetter
  <2> QED
    BY <2>3, <2>4
<1> QED
  BY <1>2, <1>3

------------------------------------------------------------------------------
\* The timeline.

\* An unchanged job keeps its part of the timeline's invariant, so a
\* transaction owes it for the jobs it writes.
LEMMA TimelineOfTheRest ==
    ASSUME TimelineInv,
           \A j \in Jobs :
              \/ status'[j] = status[j] /\ events'[j] = events[j]
              \/ /\ \/ events'[j] \cap StateEvents[status'[j]] # {}
                    \/ status'[j] = "RETRY_SCHEDULED" /\ events'[j] = {"job.started"}
                 /\ status'[j] = "RUNNING" => events'[j] = {"job.started"}
    PROVE  TimelineInv'
<1>1. StateEvents' = StateEvents
  BY DEF StateEvents
<1> QED
  BY <1>1 DEF TimelineInv, TimelineAgrees

\* Every transaction writes the event that reports the state it leaves, or
\* releases a claim and leaves job.started.
LEMMA NextTimeline ==
    ASSUME TypeOK, TimelineInv, [StoreNext]_storeVars
    PROVE  TimelineInv'
<1>1. CASE UNCHANGED storeVars
  BY <1>1, TimelineOfTheRest DEF storeVars, jobVars
<1>2. ASSUME NEW w \in Workers, NEW S \in SUBSET Jobs, ClaimDueJobs(w, S)
      PROVE  TimelineInv'
  <2>1. \A j \in Jobs : IF j \in S THEN status'[j] = "RUNNING" /\ events'[j] = {"job.started"}
                                   ELSE status'[j] = status[j] /\ events'[j] = events[j]
    BY <1>2 DEF ClaimDueJobs
  <2>2. {"job.started"} \cap StateEvents["RUNNING"] # {}
    BY DEF StateEvents
  <2> QED
    BY <2>1, <2>2, TimelineOfTheRest
<1>3. ASSUME NEW S \in SUBSET Jobs, RecoverExpiredRunningJobs(S)
      PROVE  TimelineInv'
  <2>1. \A j \in Jobs :
           \/ status'[j] = status[j] /\ events'[j] = events[j]
           \/ status'[j] = "DEAD_LETTERED" /\ events'[j] = {"job.dead_lettered"}
           \/ status'[j] = "RETRY_SCHEDULED" /\ events'[j] = {"job.retry_scheduled"}
    <3> DEFINE decision(j) == DecideFailure(retryCount[j], maxRetries[j])
    <3>1. \A j \in Jobs : decision(j).status \in {"DEAD_LETTERED", "RETRY_SCHEDULED"}
      BY DEF DecideFailure
    <3>2. \A j \in Jobs :
             /\ status'[j] = IF j \in S THEN decision(j).status ELSE status[j]
             /\ events'[j] = IF j \in S THEN {IF decision(j).status = "DEAD_LETTERED"
                                              THEN "job.dead_lettered" ELSE "job.retry_scheduled"}
                                        ELSE events[j]
      BY <1>3 DEF RecoverExpiredRunningJobs
    <3> HIDE DEF decision
    <3> TAKE j \in Jobs
    <3>3. CASE j \notin S
      BY <3>2, <3>3, Zenon
    <3>4. CASE j \in S /\ decision(j).status = "DEAD_LETTERED"
      BY <3>2, <3>4, Zenon
    <3>5. CASE j \in S /\ decision(j).status = "RETRY_SCHEDULED"
      BY <3>2, <3>5, Zenon
    <3> QED
      BY <3>1, <3>3, <3>4, <3>5
  <2> QED
    BY <2>1, TimelineOfTheRest DEF StateEvents
<1>4. ASSUME NEW n \in Jobs, NEW future \in BOOLEAN, NEW max, NEW src,
             NEW event \in {"job.created", "job.requeued"},
             InsertJob(n, future, max, src, event), future => event = "job.created"
      PROVE  TimelineInv'
  BY <1>4, TimelineOfTheRest DEF InsertJob, initialStatus, TypeOK, StateEvents
<1>5. ASSUME NEW j \in Jobs, NEW a \in DOMAIN attempts[j], CompleteExecution(j, a)
      PROVE  TimelineInv'
  BY <1>5, TimelineOfTheRest DEF CompleteExecution, TypeOK, StateEvents
<1>6. ASSUME NEW j \in Jobs, NEW a \in DOMAIN attempts[j], NEW retryable \in BOOLEAN,
             NEW after \in BOOLEAN, FailExecution(j, a, retryable, after)
      PROVE  TimelineInv'
  <2>1. \/ status' = [status EXCEPT ![j] = "DEAD_LETTERED"]
           /\ events' = [events EXCEPT ![j] = {"job.failed", "job.dead_lettered"}]
        \/ status' = [status EXCEPT ![j] = "RETRY_SCHEDULED"]
           /\ events' = [events EXCEPT ![j] = {"job.failed", "job.retry_scheduled"}]
    <3>1. CASE FailureOf(j, a).status = "DEAD_LETTERED" \/ ~retryable
      BY <1>6, <3>1, Zenon DEF FailExecution
    <3>2. CASE ~(FailureOf(j, a).status = "DEAD_LETTERED" \/ ~retryable)
      BY <1>6, <3>2, Zenon DEF FailExecution
    <3> QED
      BY <3>1, <3>2
  <2>2. /\ \/ status'[j] = "DEAD_LETTERED" /\ events'[j] = {"job.failed", "job.dead_lettered"}
           \/ status'[j] = "RETRY_SCHEDULED" /\ events'[j] = {"job.failed", "job.retry_scheduled"}
        /\ \A i \in Jobs \ {j} : status'[i] = status[i] /\ events'[i] = events[i]
    BY <2>1 DEF TypeOK
  <2> QED
    BY <2>2, TimelineOfTheRest DEF StateEvents
<1>7. ASSUME NEW j \in Jobs, NEW w \in Workers, ReleaseClaim(j, w)
      PROVE  TimelineInv'
  BY <1>7, TimelineOfTheRest DEF ReleaseClaim, Owns, TypeOK, TimelineInv, StateEvents
<1>8. ASSUME NEW j \in Jobs, NEW op \in DOMAIN Operations,
             TransitionJob(j, Operations[op].from, Operations[op].to)
      PROVE  TimelineInv'
  <2> DEFINE to == Operations[op].to
  <2>1. to \in DOMAIN TransitionEvent /\ to # "RUNNING"
    BY DEF Operations, TransitionEvent
  <2>2. TransitionEvent[to] \in StateEvents[to]
    BY <2>1 DEF TransitionEvent, StateEvents
  <2>3. status' = [status EXCEPT ![j] = to] /\ events' = [events EXCEPT ![j] = {TransitionEvent[to]}]
    BY <1>8 DEF TransitionJob
  <2> HIDE DEF to
  <2>4. /\ status'[j] = to /\ events'[j] = {TransitionEvent[to]}
        /\ \A i \in Jobs \ {j} : status'[i] = status[i] /\ events'[i] = events[i]
    BY <2>3 DEF TypeOK
  <2> QED
    BY <2>1, <2>2, <2>4, TimelineOfTheRest
<1>9. CASE \E j \in Jobs : \/ LeaseExpires(j) \/ BecomesDue(j)
                           \/ \E w \in Workers : ExtendLease(j, w)
  BY <1>9, TimelineOfTheRest DEF LeaseExpires, BecomesDue, ExtendLease
<1> QED
  BY <1>1, <1>2, <1>3, <1>4, <1>5, <1>6, <1>7, <1>8, <1>9, Zenon
  DEF StoreNext, JobNext, Create, RequeueDeadLetter

\* The newest events of a job report its state in every committed state of any
\* number of jobs and workers, but for a claim that was given back.
THEOREM TimelineReportsState == StoreSpec => []TimelineAgrees
<1>1. StoreInit => TimelineInv
  BY DEF StoreInit, TimelineInv, TimelineAgrees
<1>2. TypeOK /\ TimelineInv /\ [StoreNext]_storeVars => TimelineInv'
  BY NextTimeline
<1>3. TimelineInv => TimelineAgrees
  BY DEF TimelineInv
<1> QED
  BY <1>1, <1>2, <1>3, TypeCorrect, PTL DEF StoreSpec

------------------------------------------------------------------------------
\* The inductive invariant.

\* A step that leaves dead letters and their links alone keeps RequeuedOnce.
LEMMA RequeuedOnceKept ==
    ASSUME RequeuedOnce, UNCHANGED <<deadLetters, source>>
    PROVE  RequeuedOnce'
  BY DEF RequeuedOnce

\* The empty tables satisfy the inductive invariant.
LEMMA InitInv == StoreAssumption /\ StoreInit => StoreInv
<1> SUFFICES ASSUME StoreAssumption, StoreInit PROVE StoreInv
  OBVIOUS
<1>1. \A j \in Jobs : DOMAIN attempts[j] = {} /\ DOMAIN deadLetters[j] = {} /\ Len(deadLetters[j]) = 0
  BY DEF StoreInit
<1> QED
  BY <1>1, InitTypeOK DEF StoreInit, StoreAssumption, StoreInv, OwnedWhileRunning, RunningHasAttempt,
     WithinRetryBudget, AttemptsWithinBudget, OneDeadLetter, RequeuedOnce, AbsentIsBlank

\* A claim: the job gets an owner, a lease and a fresh attempt in one commit.
LEMMA ClaimDueJobsInv ==
    ASSUME StoreInv, TypeOK', StoreAssumption,
           NEW w \in Workers, NEW S \in SUBSET Jobs, ClaimDueJobs(w, S)
    PROVE  StoreInv'
<1> USE DEF StoreInv
<1> DEFINE row(j) == NewAttempt(j, w)
<1>1. \A j \in S : /\ status[j] \in {"PENDING", "SCHEDULED", "RETRY_SCHEDULED"}
                   /\ attempts'[j] = Append(attempts[j], row(j))
                   /\ status'[j] = "RUNNING" /\ lockedBy'[j] = w /\ lockedUntil'[j] = "live"
  BY DEF ClaimDueJobs, Claimable, TypeOK
<1>2. \A j \in Jobs \ S : /\ attempts'[j] = attempts[j] /\ status'[j] = status[j]
                         /\ lockedBy'[j] = lockedBy[j] /\ lockedUntil'[j] = lockedUntil[j]
  BY DEF ClaimDueJobs, TypeOK
<1>3. UNCHANGED <<retryCount, maxRetries, source, deadLetters>>
  BY DEF ClaimDueJobs
<1>4. \A j \in S : row(j) \in Attempt /\ attempts[j] \in Seq(Attempt)
  <2>1. \A j \in Jobs : row(j) \in Attempt
    BY DEF NewAttempt, TypeOK, Attempt, AttemptStatuses
  <2> QED
    BY <2>1 DEF TypeOK
<1>5. OwnedWhileRunning'
  BY <1>1, <1>2 DEF OwnedWhileRunning, StoreAssumption
<1>6. RunningHasAttempt'
  <2>1. ASSUME NEW j \in S
        PROVE  /\ attempts'[j] # <<>>
               /\ attempts'[j][Len(attempts'[j])].status = "RUNNING"
               /\ attempts'[j][Len(attempts'[j])].worker = lockedBy'[j]
    <3>1. attempts'[j] # <<>> /\ attempts'[j][Len(attempts'[j])] = row(j)
      BY <1>1, <1>4, AppendRow
    <3> QED
      BY <1>1, <3>1 DEF NewAttempt
  <2> QED
    BY <1>2, <2>1 DEF RunningHasAttempt
<1>7. WithinRetryBudget'
  BY <1>1, <1>2, <1>3 DEF WithinRetryBudget
<1>8. AttemptsWithinBudget'
  <2>1. ASSUME NEW j \in S PROVE row(j).number <= maxRetries[j] + 1
    <3>1. retryCount[j] \in Nat /\ maxRetries[j] \in Nat
      BY DEF TypeOK
    <3>2. retryCount[j] <= maxRetries[j]
      BY <1>1 DEF WithinRetryBudget
    <3> QED
      BY <3>1, <3>2 DEF NewAttempt
  <2> HIDE DEF row
  <2>2. ASSUME NEW j \in S, NEW a \in DOMAIN attempts'[j]
        PROVE  attempts'[j][a].number <= maxRetries[j] + 1
    <3>1. /\ attempts'[j] = Append(attempts[j], row(j))
          /\ row(j) \in Attempt /\ attempts[j] \in Seq(Attempt)
      BY <1>1, <1>4
    <3>2. attempts'[j][a] = row(j) \/ (a \in DOMAIN attempts[j] /\ attempts'[j][a] = attempts[j][a])
      BY <3>1, AppendRow
    <3> QED
      BY <2>1, <3>2 DEF AttemptsWithinBudget
  <2> QED
    BY <1>2, <1>3, <2>2 DEF AttemptsWithinBudget
<1>9. OneDeadLetter'
  BY <1>1, <1>2, <1>3 DEF OneDeadLetter
<1>10. RequeuedOnce'
  BY <1>3 DEF RequeuedOnce
<1>11. AbsentIsBlank'
  BY <1>1, <1>2, <1>3 DEF AbsentIsBlank
<1> QED
  BY <1>5, <1>6, <1>7, <1>8, <1>9, <1>10, <1>11

\* What every transaction that ends a claim or changes an idle job does: it
\* unlocks its jobs and leaves them in a state other than RUNNING.
LEMMA UnlockedInv ==
    ASSUME StoreInv, StoreAssumption, NEW S \in SUBSET Jobs, Unlock(S), UNCHANGED source,
           \A j \in S : status[j] # "ABSENT" /\ status'[j] \notin {"RUNNING", "ABSENT"},
           \A j \in Jobs \ S : /\ status'[j] = status[j] /\ attempts'[j] = attempts[j]
                              /\ retryCount'[j] = retryCount[j]
    PROVE  OwnedWhileRunning' /\ RunningHasAttempt' /\ AbsentIsBlank'
<1> USE DEF StoreInv
<1>1. \A j \in S : lockedBy'[j] = NULL /\ lockedUntil'[j] = "null"
  BY DEF Unlock
<1>2. \A j \in Jobs \ S : lockedBy'[j] = lockedBy[j] /\ lockedUntil'[j] = lockedUntil[j]
  BY DEF Unlock
<1>3. OwnedWhileRunning'
  BY <1>1, <1>2 DEF OwnedWhileRunning
<1>4. RunningHasAttempt'
  BY <1>2 DEF RunningHasAttempt
<1>5. AbsentIsBlank'
  BY DEF AbsentIsBlank
<1> QED
  BY <1>3, <1>4, <1>5

\* Attempt numbers and budgets are written once.
LEMMA NumbersKept ==
    ASSUME AttemptsWithinBudget, UNCHANGED maxRetries,
           \A j \in Jobs : /\ DOMAIN attempts'[j] = DOMAIN attempts[j]
                          /\ \A a \in DOMAIN attempts[j] :
                                attempts'[j][a].number = attempts[j][a].number
    PROVE  AttemptsWithinBudget'
  BY DEF AttemptsWithinBudget

\* A new dead letter has not been requeued, so it links no job.
LEMMA DeadLetterLinks ==
    ASSUME TypeOK, RequeuedOnce, StoreAssumption, UNCHANGED source,
           \A j \in Jobs : deadLetters'[j] \in {deadLetters[j], Append(deadLetters[j], NULL)}
    PROVE  RequeuedOnce'
<1>1. ASSUME NEW j \in Jobs, NEW n \in Jobs
      PROVE  (\E d \in DOMAIN deadLetters'[j] : deadLetters'[j][d] = n)
                <=> \E d \in DOMAIN deadLetters[j] : deadLetters[j][d] = n
  <2>1. deadLetters[j] \in Seq(Jobs \cup {NULL}) /\ NULL \in Jobs \cup {NULL} /\ n # NULL
    BY DEF TypeOK, StoreAssumption
  <2>2. CASE deadLetters'[j] = deadLetters[j]
    BY <2>2
  <2>3. CASE deadLetters'[j] = Append(deadLetters[j], NULL)
    <3>1. \A d \in DOMAIN deadLetters[j] :
            d \in DOMAIN Append(deadLetters[j], NULL)
              /\ Append(deadLetters[j], NULL)[d] = deadLetters[j][d]
      BY <2>1
    <3>2. \A d \in DOMAIN Append(deadLetters[j], NULL) :
            \/ Append(deadLetters[j], NULL)[d] = NULL
            \/ d \in DOMAIN deadLetters[j] /\ Append(deadLetters[j], NULL)[d] = deadLetters[j][d]
      BY <2>1, AppendRow
    <3> QED
      BY <2>1, <2>3, <3>1, <3>2
  <2> QED
    BY <2>2, <2>3
<1> QED
  BY <1>1 DEF RequeuedOnce

\* A success: the job leaves RUNNING with its attempt closed and its lock cleared.
LEMMA CompleteExecutionInv ==
    ASSUME StoreInv, TypeOK', StoreAssumption,
           NEW j \in Jobs, NEW a \in DOMAIN attempts[j], CompleteExecution(j, a)
    PROVE  StoreInv'
<1> USE DEF StoreInv
<1>1. status[j] = "RUNNING" /\ status'[j] = "SUCCEEDED"
  BY DEF CompleteExecution, Owns, TypeOK
<1>2. \A i \in Jobs \ {j} : status'[i] = status[i] /\ attempts'[i] = attempts[i]
  BY DEF CompleteExecution, TypeOK
<1>3. UNCHANGED <<retryCount, maxRetries, source, deadLetters>> /\ Unlock({j})
  BY DEF CompleteExecution
<1>4. OwnedWhileRunning' /\ RunningHasAttempt' /\ AbsentIsBlank'
  BY <1>1, <1>2, <1>3, UnlockedInv
<1>5. AttemptsWithinBudget'
  <2>1. attempts'[j] = [attempts[j] EXCEPT ![a].status = "SUCCEEDED"] /\ attempts[j] \in Seq(Attempt)
    BY DEF CompleteExecution, TypeOK
  <2>2. /\ DOMAIN attempts'[j] = DOMAIN attempts[j]
        /\ \A b \in DOMAIN attempts[j] : attempts'[j][b].number = attempts[j][b].number
    BY <2>1, SetStatusRows, LenProperties DEF AttemptStatuses
  <2> QED
    BY <1>2, <1>3, <2>2, NumbersKept
<1>6. WithinRetryBudget' /\ OneDeadLetter'
  BY <1>1, <1>2, <1>3 DEF WithinRetryBudget, OneDeadLetter
<1>7. RequeuedOnce'
  BY <1>3 DEF RequeuedOnce
<1> QED
  BY <1>4, <1>5, <1>6, <1>7

\* A failure: the count written from the claimed copy stays within the budget because
\* the attempt number does, and the job had no dead letter before.
LEMMA FailExecutionInv ==
    ASSUME StoreInv, TypeOK', StoreAssumption, NEW j \in Jobs, NEW a \in DOMAIN attempts[j],
           NEW retryable \in BOOLEAN,
           NEW after \in BOOLEAN, FailExecution(j, a, retryable, after)
    PROVE  StoreInv'
<1> USE DEF StoreInv
<1> DEFINE dead == FailureOf(j, a).status = "DEAD_LETTERED" \/ ~retryable
<1>1. /\ status[j] = "RUNNING"
      /\ status'[j] = IF dead THEN "DEAD_LETTERED" ELSE "RETRY_SCHEDULED"
      /\ retryCount'[j] = FailureOf(j, a).nextRetryCount
      /\ deadLetters'[j] = IF dead THEN Append(deadLetters[j], NULL) ELSE deadLetters[j]
      /\ attempts'[j] = [attempts[j] EXCEPT ![a].status = "FAILED"]
  BY DEF FailExecution, Owns, TypeOK
<1>2. \A i \in Jobs \ {j} :
         /\ status'[i] = status[i] /\ attempts'[i] = attempts[i]
         /\ retryCount'[i] = retryCount[i] /\ deadLetters'[i] = deadLetters[i]
  BY DEF FailExecution, TypeOK
<1>3. UNCHANGED <<maxRetries, source>> /\ Unlock({j})
  BY DEF FailExecution
<1>4. OwnedWhileRunning' /\ RunningHasAttempt' /\ AbsentIsBlank'
  <2>1. status'[j] \notin {"RUNNING", "ABSENT"}
    BY <1>1
  <2> QED
    BY <1>1, <1>2, <1>3, <2>1, UnlockedInv
<1>5. AttemptsWithinBudget'
  <2>1. attempts[j] \in Seq(Attempt)
    BY DEF TypeOK
  <2>2. /\ DOMAIN attempts'[j] = DOMAIN attempts[j]
        /\ \A b \in DOMAIN attempts[j] : attempts'[j][b].number = attempts[j][b].number
    BY <1>1, <2>1, SetStatusRows, LenProperties DEF AttemptStatuses
  <2> QED
    BY <1>2, <1>3, <2>2, NumbersKept
<1>6. WithinRetryBudget'
  <2>1. attempts[j][a] \in Attempt
    BY LenProperties, ElementOfSeq DEF TypeOK
  <2>2. /\ attempts[j][a].number \in Nat \ {0} /\ maxRetries[j] \in Nat
        /\ attempts[j][a].number <= maxRetries[j] + 1
    BY <2>1 DEF Attempt, TypeOK, AttemptsWithinBudget
  <2>3. /\ FailureOf(j, a).nextRetryCount = attempts[j][a].number
        /\ attempts[j][a].number > maxRetries[j] => FailureOf(j, a).status = "DEAD_LETTERED"
    <3> DEFINE number == attempts[j][a].number
    <3>1. FailureOf(j, a) = DecideFailure(number - 1, maxRetries[j])
      BY DEF FailureOf
    <3>2. number \in Nat \ {0} /\ maxRetries[j] \in Nat
      BY <2>2
    <3> HIDE DEF number
    <3>3. /\ DecideFailure(number - 1, maxRetries[j]).nextRetryCount = number
          /\ number > maxRetries[j] => DecideFailure(number - 1, maxRetries[j]).status = "DEAD_LETTERED"
      BY <3>2 DEF DecideFailure
    <3> QED
      BY <3>1, <3>3 DEF number
  <2>4. retryCount'[j] <= IF status'[j] = "DEAD_LETTERED" THEN maxRetries[j] + 1 ELSE maxRetries[j]
    <3>1. CASE dead
      BY <1>1, <2>2, <2>3, <3>1
    <3>2. CASE ~dead
      <4>1. ~(attempts[j][a].number > maxRetries[j])
        BY <2>3, <3>2
      <4>2. status'[j] = "RETRY_SCHEDULED"
        BY <1>1, <3>2
      <4> QED
        BY <1>1, <2>2, <2>3, <4>1, <4>2
    <3> QED
      BY <3>1, <3>2
  <2> QED
    BY <1>2, <1>3, <2>4 DEF WithinRetryBudget
<1>7. OneDeadLetter'
  <2>1. Len(deadLetters[j]) = 0 /\ deadLetters[j] \in Seq(Jobs \cup {NULL})
    BY <1>1 DEF OneDeadLetter, TypeOK
  <2>2. Len(Append(deadLetters[j], NULL)) = 1
    BY <2>1
  <2>3. Len(deadLetters'[j]) = IF status'[j] = "DEAD_LETTERED" THEN 1 ELSE 0
    BY <1>1, <2>1, <2>2
  <2> QED
    BY <1>2, <2>3 DEF OneDeadLetter
<1>8. RequeuedOnce'
  BY <1>1, <1>2, <1>3, DeadLetterLinks
<1> QED
  BY <1>4, <1>5, <1>6, <1>7, <1>8

\* A claim given back: the lock is cleared, the attempt row stays as it is.
LEMMA ReleaseClaimInv ==
    ASSUME StoreInv, TypeOK', StoreAssumption,
           NEW j \in Jobs, NEW w \in Workers, ReleaseClaim(j, w)
    PROVE  StoreInv'
<1> USE DEF StoreInv
<1>1. status[j] = "RUNNING" /\ status'[j] = "RETRY_SCHEDULED"
  BY DEF ReleaseClaim, Owns, TypeOK
<1>2. \A i \in Jobs \ {j} : status'[i] = status[i]
  BY DEF ReleaseClaim, TypeOK
<1>3. UNCHANGED <<retryCount, maxRetries, source, attempts, deadLetters>> /\ Unlock({j})
  BY DEF ReleaseClaim
<1>4. OwnedWhileRunning' /\ RunningHasAttempt' /\ AbsentIsBlank'
  BY <1>1, <1>2, <1>3, UnlockedInv
<1>5. AttemptsWithinBudget'
  BY <1>3, NumbersKept
<1>6. WithinRetryBudget' /\ OneDeadLetter'
  BY <1>1, <1>2, <1>3 DEF WithinRetryBudget, OneDeadLetter
<1>7. RequeuedOnce'
  BY <1>3 DEF RequeuedOnce
<1> QED
  BY <1>4, <1>5, <1>6, <1>7

\* An operator transition never starts from, or ends in, a state with a dead letter.
LEMMA TransitionJobInv ==
    ASSUME StoreInv, TypeOK', StoreAssumption, NEW j \in Jobs, NEW op \in DOMAIN Operations,
           TransitionJob(j, Operations[op].from, Operations[op].to)
    PROVE  StoreInv'
<1> USE DEF StoreInv
<1>1. /\ status[j] \notin {"ABSENT", "DEAD_LETTERED"}
      /\ status'[j] \notin {"RUNNING", "ABSENT", "DEAD_LETTERED"}
  <2>1. /\ "ABSENT" \notin Operations[op].from /\ "DEAD_LETTERED" \notin Operations[op].from
        /\ Operations[op].to \notin {"RUNNING", "ABSENT", "DEAD_LETTERED"}
    BY DEF Operations
  <2>2. status[j] \in Operations[op].from /\ status'[j] = Operations[op].to
    BY DEF TransitionJob, TypeOK
  <2> QED
    BY <2>1, <2>2
<1>2. \A i \in Jobs \ {j} : status'[i] = status[i] /\ attempts'[i] = attempts[i]
  BY DEF TransitionJob, TypeOK
<1>3. UNCHANGED <<retryCount, maxRetries, source, deadLetters>> /\ Unlock({j})
  BY DEF TransitionJob
<1>4. OwnedWhileRunning' /\ RunningHasAttempt' /\ AbsentIsBlank'
  BY <1>1, <1>2, <1>3, UnlockedInv
<1>5. AttemptsWithinBudget'
  <2>1. attempts'[j] \in {attempts[j], CloseRunning(attempts[j], "CANCELLED")}
    BY DEF TransitionJob, TypeOK
  <2>2. attempts[j] \in Seq(Attempt)
    BY DEF TypeOK
  <2>3. /\ DOMAIN attempts'[j] = DOMAIN attempts[j]
        /\ \A b \in DOMAIN attempts[j] : attempts'[j][b].number = attempts[j][b].number
    <3>1. CASE attempts'[j] = attempts[j]
      BY <3>1
    <3>2. CASE attempts'[j] = CloseRunning(attempts[j], "CANCELLED")
      BY <2>2, <3>2, ClosedNumbers DEF AttemptStatuses
    <3> QED
      BY <2>1, <3>1, <3>2
  <2> QED
    BY <1>2, <1>3, <2>3, NumbersKept
<1>6. WithinRetryBudget' /\ OneDeadLetter'
  BY <1>1, <1>2, <1>3 DEF WithinRetryBudget, OneDeadLetter
<1>7. RequeuedOnce'
  BY <1>3 DEF RequeuedOnce
<1> QED
  BY <1>4, <1>5, <1>6, <1>7

\* Recovery: each job in the batch spends one retry, counted from its row.
LEMMA RecoverInv ==
    ASSUME StoreInv, TypeOK', StoreAssumption,
           NEW S \in SUBSET Jobs, RecoverExpiredRunningJobs(S)
    PROVE  StoreInv'
<1> USE DEF StoreInv
<1> DEFINE dead(j) == retryCount[j] + 1 > maxRetries[j]
<1>1. \A j \in S : /\ status[j] = "RUNNING"
                   /\ status'[j] = IF dead(j) THEN "DEAD_LETTERED" ELSE "RETRY_SCHEDULED"
                   /\ retryCount'[j] = retryCount[j] + 1
                   /\ deadLetters'[j] = IF dead(j) THEN Append(deadLetters[j], NULL)
                                                   ELSE deadLetters[j]
                   /\ attempts'[j] = CloseRunning(attempts[j], "FAILED")
  BY DEF RecoverExpiredRunningJobs, DecideFailure
<1>2. \A i \in Jobs \ S :
         /\ status'[i] = status[i] /\ attempts'[i] = attempts[i]
         /\ retryCount'[i] = retryCount[i] /\ deadLetters'[i] = deadLetters[i]
  BY DEF RecoverExpiredRunningJobs
<1>3. UNCHANGED <<maxRetries, source>> /\ Unlock(S)
  BY DEF RecoverExpiredRunningJobs
<1>4. OwnedWhileRunning' /\ RunningHasAttempt' /\ AbsentIsBlank'
  BY <1>1, <1>2, <1>3, UnlockedInv
<1>5. AttemptsWithinBudget'
  <2>1. \A j \in Jobs : attempts[j] \in Seq(Attempt)
    BY DEF TypeOK
  <2>2. ASSUME NEW j \in S
        PROVE  /\ DOMAIN attempts'[j] = DOMAIN attempts[j]
               /\ \A b \in DOMAIN attempts[j] : attempts'[j][b].number = attempts[j][b].number
    BY <1>1, <2>1, ClosedNumbers DEF AttemptStatuses
  <2> QED
    BY <1>2, <1>3, <2>2, NumbersKept
<1>6. WithinRetryBudget'
  <2>1. ASSUME NEW j \in S
        PROVE  retryCount'[j] <= IF status'[j] = "DEAD_LETTERED"
                                 THEN maxRetries[j] + 1 ELSE maxRetries[j]
    <3>1. retryCount[j] \in Nat /\ maxRetries[j] \in Nat
      BY DEF TypeOK
    <3>2. retryCount[j] <= maxRetries[j]
      BY <1>1 DEF WithinRetryBudget
    <3> QED
      BY <1>1, <3>1, <3>2
  <2> QED
    BY <1>2, <1>3, <2>1 DEF WithinRetryBudget
<1>7. OneDeadLetter'
  <2>1. ASSUME NEW j \in S
        PROVE  Len(deadLetters'[j]) = IF status'[j] = "DEAD_LETTERED" THEN 1 ELSE 0
    <3>1. Len(deadLetters[j]) = 0 /\ deadLetters[j] \in Seq(Jobs \cup {NULL})
      BY <1>1 DEF OneDeadLetter, TypeOK
    <3>2. Len(Append(deadLetters[j], NULL)) = 1
      BY <3>1
    <3> QED
      BY <1>1, <3>1, <3>2
  <2> QED
    BY <1>2, <2>1 DEF OneDeadLetter
<1>8. RequeuedOnce'
  <2>1. \A j \in Jobs : deadLetters'[j] \in {deadLetters[j], Append(deadLetters[j], NULL)}
    BY <1>1, <1>2
  <2> QED
    BY <1>3, <2>1, DeadLetterLinks
<1> QED
  BY <1>4, <1>5, <1>6, <1>7, <1>8

\* A fresh row starts idle, with its whole budget and no history.
LEMMA InsertJobInv ==
    ASSUME StoreInv, StoreAssumption, NEW j \in Jobs, NEW future \in BOOLEAN, NEW max \in Nat,
           NEW src, NEW event, InsertJob(j, future, max, src, event)
    PROVE  /\ OwnedWhileRunning' /\ RunningHasAttempt' /\ AbsentIsBlank'
           /\ WithinRetryBudget' /\ AttemptsWithinBudget'
<1> USE DEF StoreInv
<1>1. status[j] = "ABSENT" /\ status'[j] \in {"PENDING", "SCHEDULED"} /\ maxRetries'[j] = max
  BY DEF InsertJob, initialStatus, TypeOK
<1>2. \A i \in Jobs \ {j} : /\ status'[i] = status[i] /\ maxRetries'[i] = maxRetries[i]
                           /\ source'[i] = source[i]
  BY DEF InsertJob, TypeOK
<1>3. UNCHANGED <<lockedBy, lockedUntil, retryCount, attempts>>
  BY DEF InsertJob
<1>4. OwnedWhileRunning' /\ RunningHasAttempt'
  BY <1>1, <1>2, <1>3 DEF OwnedWhileRunning, RunningHasAttempt
<1>5. AbsentIsBlank'
  BY <1>1, <1>2, <1>3 DEF AbsentIsBlank
<1>6. WithinRetryBudget'
  <2>1. retryCount'[j] <= max
    BY <1>1, <1>3 DEF AbsentIsBlank
  <2> QED
    BY <1>1, <1>2, <1>3, <2>1 DEF WithinRetryBudget
<1>7. AttemptsWithinBudget'
  <2>1. DOMAIN attempts[j] = {}
    BY <1>1 DEF AbsentIsBlank
  <2> QED
    BY <1>2, <1>3, <2>1 DEF AttemptsWithinBudget
<1> QED
  BY <1>4, <1>5, <1>6, <1>7

\* An inserted job is linked to no dead letter.
LEMMA CreateInv ==
    ASSUME StoreInv, TypeOK', StoreAssumption, NEW j \in Jobs, NEW future \in BOOLEAN,
           NEW max \in MaxRetriesChoices, Create(j, future, max)
    PROVE  StoreInv'
<1> USE DEF StoreInv
<1>1. max \in Nat /\ InsertJob(j, future, max, NULL, "job.created") /\ UNCHANGED deadLetters
  BY DEF StoreAssumption, Create
<1>2. /\ status[j] = "ABSENT" /\ status'[j] \in {"PENDING", "SCHEDULED"} /\ source[j] = NULL
      /\ \A i \in Jobs \ {j} : status'[i] = status[i]
  BY <1>1 DEF InsertJob, initialStatus, TypeOK, AbsentIsBlank
<1>3. OneDeadLetter'
  BY <1>1, <1>2 DEF OneDeadLetter
<1>4. source' = source
  BY <1>1, <1>2 DEF InsertJob, TypeOK
<1>5. RequeuedOnce'
  <2>1. UNCHANGED <<deadLetters, source>> /\ RequeuedOnce
    BY <1>1, <1>4
  <2> QED
    BY <2>1, RequeuedOnceKept
<1> QED
  BY <1>1, <1>3, <1>5, InsertJobInv

\* A requeue: the fresh job and the dead letter point at each other, and nobody
\* else points at either.
LEMMA RequeueDeadLetterInv ==
    ASSUME StoreInv, TypeOK', StoreAssumption, NEW j \in Jobs, NEW d \in DOMAIN deadLetters[j],
           NEW n \in Jobs, RequeueDeadLetter(j, d, n)
    PROVE  StoreInv'
<1> USE DEF StoreInv
<1>1. /\ deadLetters[j][d] = NULL /\ RequeueMaxRetries \in Nat
      /\ InsertJob(n, FALSE, RequeueMaxRetries, j, "job.requeued")
      /\ deadLetters' = [deadLetters EXCEPT ![j][d] = n]
  BY DEF StoreAssumption, RequeueDeadLetter
<1>2. /\ status[n] = "ABSENT" /\ status'[n] = "PENDING" /\ source[n] = NULL /\ source'[n] = j
      /\ \A i \in Jobs \ {n} : status'[i] = status[i] /\ source'[i] = source[i]
  BY <1>1 DEF InsertJob, initialStatus, TypeOK, AbsentIsBlank
<1>3. /\ deadLetters'[j] = [deadLetters[j] EXCEPT ![d] = n]
      /\ \A i \in Jobs \ {j} : deadLetters'[i] = deadLetters[i]
  BY <1>1 DEF TypeOK
<1>4. /\ DOMAIN deadLetters'[j] = DOMAIN deadLetters[j] /\ deadLetters'[j][d] = n
      /\ \A e \in DOMAIN deadLetters[j] \ {d} : deadLetters'[j][e] = deadLetters[j][e]
  BY <1>3
<1>5. OneDeadLetter'
  <2>1. Len(deadLetters'[j]) = Len(deadLetters[j])
    <3>1. deadLetters[j] \in Seq(Jobs \cup {NULL})
      BY DEF TypeOK
    <3>2. d \in 1..Len(deadLetters[j])
      BY <3>1, LenProperties
    <3> QED
      BY <1>3, <3>1, <3>2, ExceptSeq
  <2>2. \A i \in Jobs : Len(deadLetters'[i]) = Len(deadLetters[i])
    BY <1>3, <2>1
  <2> QED
    BY <1>2, <2>2 DEF OneDeadLetter
<1>6. RequeuedOnce'
  <2>1. \A i \in Jobs, m \in Jobs : m # NULL /\ i # NULL
    BY DEF StoreAssumption
  <2>2. ASSUME NEW i \in Jobs, NEW m \in Jobs
        PROVE  source'[m] = i <=> \E e \in DOMAIN deadLetters'[i] : deadLetters'[i][e] = m
    <3>1. source[m] = i <=> \E e \in DOMAIN deadLetters[i] : deadLetters[i][e] = m
      BY DEF RequeuedOnce
    <3>2. CASE i = j /\ m = n
      BY <1>2, <1>4, <3>2
    <3>3. CASE i = j /\ m # n
      BY <1>1, <1>2, <1>4, <2>1, <3>1, <3>3
    <3>4. CASE i # j /\ m = n
      BY <1>2, <1>3, <2>1, <3>1, <3>4
    <3>5. CASE i # j /\ m # n
      BY <1>2, <1>3, <3>1, <3>5
    <3> QED
      BY <3>2, <3>3, <3>4, <3>5
  <2> QED
    BY <2>2 DEF RequeuedOnce
<1> QED
  BY <1>1, <1>5, <1>6, InsertJobInv

\* Renewing a lease and the passage of time keep every lease a lease.
LEMMA TimeInv ==
    ASSUME StoreInv, TypeOK', NEW j \in Jobs,
           \/ LeaseExpires(j) \/ BecomesDue(j) \/ \E w \in Workers : ExtendLease(j, w)
    PROVE  StoreInv'
<1> USE DEF StoreInv
<1>1. /\ UNCHANGED <<status, lockedBy, retryCount, maxRetries, source, attempts, deadLetters>>
      /\ \A i \in Jobs : lockedUntil'[i] # "null" <=> lockedUntil[i] # "null"
  <2>1. ASSUME NEW w \in Workers, ExtendLease(j, w)
        PROVE  <1>1
    BY <2>1 DEF ExtendLease, Owns, OwnedWhileRunning, TypeOK
  <2>2. CASE LeaseExpires(j) \/ BecomesDue(j)
    BY <2>2 DEF LeaseExpires, BecomesDue, TypeOK
  <2> QED
    BY <2>1, <2>2
<1>2. OwnedWhileRunning'
  BY <1>1 DEF OwnedWhileRunning
<1>3. RunningHasAttempt' /\ WithinRetryBudget' /\ AttemptsWithinBudget'
  BY <1>1 DEF RunningHasAttempt, WithinRetryBudget, AttemptsWithinBudget
<1>4. OneDeadLetter' /\ RequeuedOnce' /\ AbsentIsBlank'
  BY <1>1, RequeuedOnceKept DEF OneDeadLetter, AbsentIsBlank
<1> QED
  BY <1>2, <1>3, <1>4

\* Every transaction, and no transaction, preserves the inductive invariant.
LEMMA NextInv ==
    ASSUME StoreInv, StoreAssumption, [StoreNext]_storeVars
    PROVE  StoreInv'
<1>1. TypeOK'
  BY NextTypeOK DEF StoreInv
<1>2. CASE UNCHANGED storeVars
  <2>1. UNCHANGED <<status, lockedBy, lockedUntil, due, retryCount, maxRetries, source,
                    attempts, deadLetters, events>>
    BY <1>2 DEF storeVars, jobVars
  <2>2. OwnedWhileRunning' /\ RunningHasAttempt' /\ OneDeadLetter'
    BY <2>1 DEF StoreInv, OwnedWhileRunning, RunningHasAttempt, OneDeadLetter
  <2>3. WithinRetryBudget' /\ AttemptsWithinBudget' /\ RequeuedOnce' /\ AbsentIsBlank'
    BY <2>1, RequeuedOnceKept DEF StoreInv, WithinRetryBudget, AttemptsWithinBudget, AbsentIsBlank
  <2> QED
    BY <1>1, <2>2, <2>3 DEF StoreInv
<1>3. ASSUME NEW w \in Workers, NEW S \in SUBSET Jobs, ClaimDueJobs(w, S)
      PROVE  StoreInv'
  BY <1>1, <1>3, ClaimDueJobsInv
<1>4. ASSUME NEW S \in SUBSET Jobs, RecoverExpiredRunningJobs(S)
      PROVE  StoreInv'
  BY <1>1, <1>4, RecoverInv
<1>5. ASSUME NEW j \in Jobs, JobNext(j)
      PROVE  StoreInv'
  BY <1>1, <1>5, CreateInv, CompleteExecutionInv, FailExecutionInv, ReleaseClaimInv,
     TransitionJobInv, RequeueDeadLetterInv, TimeInv DEF JobNext
<1> QED
  BY <1>2, <1>3, <1>4, <1>5 DEF StoreNext

\* The inductive invariant holds in every reachable state of the store.
THEOREM StoreCorrect == StoreSpec => []StoreInv
<1>1. StoreInit => StoreInv
  BY InitInv, StoreAssumption
<1>2. StoreInv /\ [StoreNext]_storeVars => StoreInv'
  BY NextInv, StoreAssumption
<1> QED
  BY <1>1, <1>2, PTL DEF StoreSpec

\* A job has an owner and a lease exactly while it is RUNNING: every transaction
\* that ends a claim clears both lock columns.
THEOREM OwnersRun == StoreSpec => []OwnedWhileRunning
<1>1. StoreInv => OwnedWhileRunning
  BY DEF StoreInv
<1> QED
  BY <1>1, StoreCorrect, PTL

\* A RUNNING job always has a RUNNING newest attempt of its owner: the claim
\* commits both in one transaction and every close of the attempt moves the job.
THEOREM ClaimsAreConsistent == StoreSpec => []RunningHasAttempt
<1>1. StoreInv => RunningHasAttempt
  BY DEF StoreInv
<1> QED
  BY <1>1, StoreCorrect, PTL

\* FailExecution and RecoverExpiredRunningJobs never spend more than the retry
\* budget, for any max_retries and any number of lost leases and lock misses.
THEOREM BudgetKept == StoreSpec => []WithinRetryBudget
<1>1. StoreInv => WithinRetryBudget
  BY DEF StoreInv
<1> QED
  BY <1>1, StoreCorrect, PTL

\* No attempt is numbered beyond max_retries + 1, whoever counted the retries.
THEOREM AttemptNumbersBounded == StoreSpec => []AttemptsWithinBudget
<1>1. StoreInv => AttemptsWithinBudget
  BY DEF StoreInv
<1> QED
  BY <1>1, StoreCorrect, PTL

\* A job is dead-lettered at most once, by a worker or by recovery.
THEOREM DeadLettersAreUnique == StoreSpec => []OneDeadLetter
<1>1. StoreInv => OneDeadLetter
  BY DEF StoreInv
<1> QED
  BY <1>1, StoreCorrect, PTL

\* A dead letter is requeued at most once, and the fresh job names it.
THEOREM RequeuedAtMostOnce == StoreSpec => []RequeuedOnce
<1>1. StoreInv => RequeuedOnce
  BY DEF StoreInv
<1> QED
  BY <1>1, StoreCorrect, PTL
==============================================================================
