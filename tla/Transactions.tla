----------------------------- MODULE Transactions -----------------------------
(***************************************************************************)
(* The transactions of internal/job/repository.go statement by statement,  *)
(* as PostgreSQL runs them at READ COMMITTED. JobStore takes each of them  *)
(* as one step; this module shows that it may.                             *)
(*                                                                         *)
(* A statement locks the rows it writes until the transaction ends. An     *)
(* UPDATE or a SELECT FOR UPDATE that meets a row of another transaction   *)
(* waits, and evaluates its WHERE clause on what that transaction leaves   *)
(* behind; SKIP LOCKED passes such rows by. What a transaction writes is   *)
(* seen by others when it commits. Sessions that wait in a circle are      *)
(* noticed and one of them is rolled back with an error.                   *)
(***************************************************************************)
EXTENDS JobStore

CONSTANTS
    Operators,  \* operations that operators request
    Sessions    \* the pooled connections

VARIABLES      \* besides the committed tables, which are JobStore's variables:
    lock,     \* the session that has locked a row
    txn       \* the open transaction of a session

txnVars == <<storeVars, lock, txn>>

\* Rows that are locked: of jobs, of job_attempts and of dead_letter_jobs.
JobRow(j) == <<j, 0>>
AttemptRow(j, a) == <<j, a>>
LetterRow(j) == <<j, -1>>
Rows == Jobs \X (-1..MaxAttempts)

\* Variant: success closes the attempt first, as failure does.
StatementsAttemptFirst ==
    [claim |-> <<"select">>, recover |-> <<"select", "attempts">>,
     complete |-> <<"attempt", "job">>, fail |-> <<"attempt", "job">>,
     cancel |-> <<"job", "attempts">>, pause |-> <<"job">>,
     resume |-> <<"job">>, retry |-> <<"job">>, requeue |-> <<"letter">>]

\* The order in which each transaction comes to rows it has not locked yet.
Statements ==
    [claim |-> <<"select">>, recover |-> <<"select", "attempts">>,
     complete |-> <<"job", "attempt">>, fail |-> <<"attempt", "job">>,
     cancel |-> <<"job", "attempts">>, pause |-> <<"job">>,
     resume |-> <<"job">>, retry |-> <<"job">>, requeue |-> <<"letter">>]

ExecutionErrors == {"retry", "later", "permanent"}

\* A version of a jobs row that is not committed; run_at is kept or set.
Version == [status : Statuses, lockedBy : Workers \cup {NULL}, lockedUntil : {"null", "live"},
            retryCount : Nat, runAt : {"kept", "past", "future"}]

\* A transaction: by its kind it has as arguments a job, an attempt of that job
\* with the outcome of its execution, a worker, or a fresh job identifier.
Txn == [kind : DOMAIN Statements,
        step : 1..3,   \* of its statements, the next one
        job : Jobs \cup {NULL}, attempt : Nat, worker : Workers \cup {NULL},
        outcome : ExecutionErrors \cup {"none"}, fresh : Jobs \cup {NULL},
        columns : [Jobs -> Version \cup {NULL}],   \* the jobs rows written so far
        closed : SUBSET Rows]                      \* the job_attempts rows closed so far

ASSUME TxnAssumption ==
    /\ NULL \notin Sessions \cup Version \cup Txn
    /\ Operators \subseteq DOMAIN Operations

TxnInit ==
    /\ StoreInit
    /\ lock = [r \in Rows |-> NULL]
    /\ txn = [s \in Sessions |-> NULL]

------------------------------------------------------------------------------
\* Opening a transaction.

New(kind) == [kind |-> kind, step |-> 1, job |-> NULL, attempt |-> 0, worker |-> NULL,
              outcome |-> "none", fresh |-> NULL, columns |-> [j \in Jobs |-> NULL], closed |-> {}]

Open(s, t) ==
    /\ txn[s] = NULL
    /\ txn' = [txn EXCEPT ![s] = t]
    /\ UNCHANGED <<storeVars, lock>>

\* uuid.New() never returns an identifier that is in use.
Unused(n) ==
    status[n] = "ABSENT" /\ \A s \in Sessions : txn[s] # NULL => txn[s].fresh # n

\* The transaction that finalizes a claim, with the worker that has it.
Finalizes(kind, j, a, outcome) ==
    [New(kind) EXCEPT !.job = j, !.attempt = a, !.worker = attempts[j][a].worker, !.outcome = outcome]

Begin(s) ==
    \/ \E w \in Workers : Open(s, [New("claim") EXCEPT !.worker = w])
    \/ Open(s, New("recover"))
    \/ \E j \in Jobs : \E a \in DOMAIN attempts[j] :
          \/ Open(s, Finalizes("complete", j, a, "none"))
          \/ \E error \in ExecutionErrors : Open(s, Finalizes("fail", j, a, error))
    \/ \E j \in Jobs, kind \in Operators : Open(s, [New(kind) EXCEPT !.job = j])
    \/ \E j, n \in Jobs : /\ deadLetters[j] # <<>> /\ Unused(n)
                          /\ Open(s, [New("requeue") EXCEPT !.job = j, !.fresh = n])

------------------------------------------------------------------------------
\* What the statements write.

\* A row that is given up with this status.
Released(newStatus, count, runAt) ==
    [status |-> newStatus, lockedBy |-> NULL, lockedUntil |-> "null",
     retryCount |-> count, runAt |-> runAt]

AfterFailure(decision, outcome) ==
    LET dead == decision.status = "DEAD_LETTERED" \/ outcome = "permanent"
    IN  Released(IF dead THEN "DEAD_LETTERED" ELSE "RETRY_SCHEDULED", decision.nextRetryCount,
                 IF dead THEN "kept"
                 ELSE IF outcome # "later" /\ decision.delay \in Elapsed THEN "past" ELSE "future")

\* The version that the UPDATE of transaction t leaves of the row of j.
NewVersion(t, j) ==
    CASE t.kind = "claim" ->
            [status |-> "RUNNING", lockedBy |-> t.worker, lockedUntil |-> "live",
             retryCount |-> retryCount[j], runAt |-> "kept"]
      [] t.kind = "complete" -> Released("SUCCEEDED", retryCount[j], "kept")
      [] t.kind = "fail" -> AfterFailure(FailureOf(j, t.attempt), t.outcome)
      [] t.kind = "recover" -> AfterFailure(DecideFailure(retryCount[j], maxRetries[j]), "retry")
      [] OTHER -> Released(Operations[t.kind].to, retryCount[j], "kept")

\* The status that closes an attempt.
ClosedAs == [complete |-> "SUCCEEDED", fail |-> "FAILED", recover |-> "FAILED", cancel |-> "CANCELLED"]

------------------------------------------------------------------------------
\* Statements on one row.

\* The jobs whose rows t has written.
WrittenBy(t) == {j \in Jobs : t.columns[j] # NULL}

Statement(t) == Statements[t.kind][t.step]

Stands(s, statements) ==
    /\ txn[s] # NULL /\ txn[s].step <= Len(Statements[txn[s].kind])
    /\ Statement(txn[s]) \in statements

SingleRow == {"job", "attempt", "letter"}

\* The row of the next statement.
Target(t) ==
    CASE Statement(t) = "job" -> JobRow(t.job)
      [] Statement(t) = "attempt" -> AttemptRow(t.job, t.attempt)
      [] Statement(t) = "letter" -> LetterRow(t.job)

\* WHERE of an UPDATE of jobs by ID.
JobMatches(t, j) ==
    IF t.kind \in DOMAIN Operations THEN status[j] \in Operations[t.kind].from ELSE Owns(j, t.worker)

Where(t) ==
    CASE Statement(t) = "job" -> JobMatches(t, t.job)
      [] Statement(t) = "attempt" -> AttemptRunning(t.job, t.attempt)
      [] Statement(t) = "letter" -> deadLetters[t.job] = <<NULL>>

\* The transaction after its next statement, on the row that it locks.
Written(t) ==
    [t EXCEPT !.step = @ + 1,
              !.columns = IF Statement(t) = "job" THEN [@ EXCEPT ![t.job] = NewVersion(t, t.job)] ELSE @,
              !.closed = IF Statement(t) = "attempt" THEN {Target(t)} ELSE @]

Update(s) ==
    /\ Stands(s, SingleRow)
    /\ Where(txn[s])
    /\ lock[Target(txn[s])] \in {NULL, s}
    /\ lock' = [lock EXCEPT ![Target(txn[s])] = s]
    /\ txn' = [txn EXCEPT ![s] = Written(txn[s])]
    /\ UNCHANGED storeVars

\* The transaction is over and its locks are released.
Ends(s) ==
    /\ txn' = [txn EXCEPT ![s] = NULL]
    /\ lock' = [r \in Rows |-> IF lock[r] = s THEN NULL ELSE lock[r]]

\* Variant: the method returns without ending its transaction.
RollbackForgotten(s) ==
    /\ txn' = [txn EXCEPT ![s] = NULL]
    /\ UNCHANGED <<storeVars, lock>>

\* The deferred tx.Rollback: nothing is written.
Rollback(s) == Ends(s) /\ UNCHANGED storeVars

\* RowsAffected is zero, which every caller answers with a conflict.
Conflict(s) ==
    /\ Stands(s, SingleRow)
    /\ ~Where(txn[s])
    /\ Rollback(s)

------------------------------------------------------------------------------
\* Statements on many rows.

\* The rows that SELECT ... FOR UPDATE SKIP LOCKED may return.
Selectable(t, j) ==
    IF t.kind = "claim" THEN Claimable(j) /\ Len(attempts[j]) < MaxAttempts
                        ELSE status[j] = "RUNNING" /\ lockedUntil[j] = "expired"

\* A batch is selected. The UPDATE and INSERT statements of the loop that
\* follows touch only these rows, so their effect is fixed here.
Select(s) ==
    /\ Stands(s, {"select"})
    /\ \E S \in SUBSET {j \in Jobs : Selectable(txn[s], j) /\ lock[JobRow(j)] = NULL} :
          /\ txn[s].kind = "claim" => Cardinality(S) <= BatchSize
          /\ lock' = [r \in Rows |-> IF r \in {JobRow(j) : j \in S} THEN s ELSE lock[r]]
          /\ txn' = [txn EXCEPT ![s].step = @ + 1,
                                ![s].columns = [j \in Jobs |-> IF j \in S THEN NewVersion(txn[s], j) ELSE NULL]]
    /\ UNCHANGED storeVars

\* The attempts that UPDATE ... WHERE job_id = j AND status = 'RUNNING' has yet
\* to close, for the jobs of the transaction.
Unclosed(t) == {r \in Rows \ t.closed : r[1] \in WrittenBy(t) /\ AttemptRunning(r[1], r[2])}

CloseAttempt(s) ==
    /\ Stands(s, {"attempts"})
    /\ \E r \in Unclosed(txn[s]) :
          /\ lock[r] = NULL
          /\ lock' = [lock EXCEPT ![r] = s]
          /\ txn' = [txn EXCEPT ![s].closed = @ \cup {r}]
    /\ UNCHANGED storeVars

\* Variant: locked attempts are skipped like locked jobs.
AttemptsSkipped(s) ==
    /\ Stands(s, {"attempts"})
    /\ \A r \in Unclosed(txn[s]) : lock[r] # NULL
    /\ txn' = [txn EXCEPT ![s].step = @ + 1]
    /\ UNCHANGED <<storeVars, lock>>

AttemptsClosed(s) ==
    /\ Stands(s, {"attempts"})
    /\ Unclosed(txn[s]) = {}
    /\ txn' = [txn EXCEPT ![s].step = @ + 1]
    /\ UNCHANGED <<storeVars, lock>>

------------------------------------------------------------------------------
\* The end of a transaction.

\* The events inserted for a jobs row that t leaves in this status.
EventsOf(t, newStatus) ==
    CASE t.kind = "claim" -> {"job.started"}
      [] t.kind = "complete" -> {"job.completed"}
      [] t.kind \in {"fail", "recover"} ->
            {IF newStatus = "DEAD_LETTERED" THEN "job.dead_lettered" ELSE "job.retry_scheduled"}
            \cup (IF t.kind = "fail" THEN {"job.failed"} ELSE {})
      [] OTHER -> {TransitionEvent[newStatus]}

Done(s) == txn[s] # NULL /\ txn[s].step > Len(Statements[txn[s].kind])

\* The attempts of j with those that t has closed.
RowsClosed(t, j) ==
    [a \in DOMAIN attempts[j] |->
        IF AttemptRow(j, a) \in t.closed
        THEN [attempts[j][a] EXCEPT !.status = ClosedAs[t.kind]] ELSE attempts[j][a]]

\* The attempt that a claim inserts, from the version of the row it selected.
RowStarted(t, j) ==
    [worker |-> t.worker, number |-> t.columns[j].retryCount + 1, status |-> "RUNNING"]

\* COMMIT installs what the statements have written.
Commit(s) ==
    LET t == txn[s]
        new == t.columns
        Wrote(j) == j \in WrittenBy(t)
    IN  /\ Done(s) /\ t.kind # "requeue"
        /\ status' = [j \in Jobs |-> IF Wrote(j) THEN new[j].status ELSE status[j]]
        /\ lockedBy' = [j \in Jobs |-> IF Wrote(j) THEN new[j].lockedBy ELSE lockedBy[j]]
        /\ lockedUntil' = [j \in Jobs |-> IF Wrote(j) THEN new[j].lockedUntil ELSE lockedUntil[j]]
        /\ retryCount' = [j \in Jobs |-> IF Wrote(j) THEN new[j].retryCount ELSE retryCount[j]]
        /\ due' = [j \in Jobs |->
              IF Wrote(j) /\ new[j].runAt # "kept" THEN new[j].runAt = "past" ELSE due[j]]
        /\ attempts' = [j \in Jobs |->
              IF Wrote(j) /\ t.kind = "claim" THEN Append(RowsClosed(t, j), RowStarted(t, j))
                                              ELSE RowsClosed(t, j)]
        /\ deadLetters' = [j \in Jobs |->
              IF Wrote(j) /\ new[j].status = "DEAD_LETTERED"
              THEN Append(deadLetters[j], NULL) ELSE deadLetters[j]]
        /\ events' = [j \in Jobs |->
              IF Wrote(j) THEN EventsOf(t, new[j].status) ELSE events[j]]
        /\ Ends(s)
        /\ UNCHANGED <<maxRetries, source>>

\* The fresh row is one that nobody else can see yet.
CommitRequeue(s) ==
    LET t == txn[s] IN
    /\ Done(s) /\ t.kind = "requeue"
    /\ InsertJob(t.fresh, FALSE, RequeueMaxRetries, t.job, "job.requeued")
    /\ deadLetters' = [deadLetters EXCEPT ![t.job] = <<t.fresh>>]
    /\ Ends(s)

\* A statement fails: the connection, the context or a deadlock.
Abort(s) == txn[s] # NULL /\ Rollback(s)

------------------------------------------------------------------------------
\* Create writes only a row that nobody else can see.
CommitCreate(j) ==
    /\ Unused(j)
    /\ \E future \in BOOLEAN, max \in MaxRetriesChoices : Create(j, future, max)
    /\ UNCHANGED <<lock, txn>>

\* ExtendLease and ReleaseClaim are single statements that commit by themselves:
\* they wait for the row and hold it no longer than they take.
Autocommit(j, w) ==
    /\ lock[JobRow(j)] = NULL
    /\ ExtendLease(j, w) \/ ReleaseClaim(j, w)
    /\ UNCHANGED <<lock, txn>>

TimePasses(j) ==
    /\ LeaseExpires(j) \/ BecomesDue(j)
    /\ UNCHANGED <<lock, txn>>

Step(s) == Update(s) \/ Conflict(s) \/ Select(s) \/ CloseAttempt(s) \/ AttemptsClosed(s)
           \/ Commit(s) \/ CommitRequeue(s)

TxnNext ==
    \/ \E s \in Sessions : Begin(s) \/ Step(s) \/ Abort(s)
    \/ \E j \in Jobs : CommitCreate(j) \/ TimePasses(j) \/ \E w \in Workers : Autocommit(j, w)

TxnSpec == TxnInit /\ [][TxnNext]_txnVars

------------------------------------------------------------------------------
\* Waiting.

\* s waits for a row that u has locked.
WaitsFor(s, u) ==
    /\ s # u
    /\ \/ Stands(s, SingleRow) /\ Where(txn[s]) /\ lock[Target(txn[s])] = u
       \/ Stands(s, {"attempts"}) /\ \E r \in Unclosed(txn[s]) : lock[r] = u

\* The sessions of S wait for each other and for nobody else to go on.
Deadlocked(S) == S # {} /\ \A s \in S : \E u \in S : WaitsFor(s, u)

------------------------------------------------------------------------------
\* Properties.

\* Each transaction takes effect as one step of the job store, at its commit:
\* "Atomic job/attempt/DLQ/event transitions" (README.md). Interleaved with any
\* other statements, what its earlier statements have read or matched still
\* holds when it commits, because the rows stay locked.
ImplementsStore == StoreSpec

\* FailExecution is the one method that locks the attempt before the job; all
\* others go from the job to its attempts. So sessions wait for each other in a
\* circle only if one of them reports a failed execution.
OnlyFailuresDeadlock ==
    \A S \in SUBSET Sessions : Deadlocked(S) => \E s \in S : txn[s].kind = "fail"

\* A transaction keeps the rows it has written locked, and the locks of one
\* that has ended are gone: every path out of a method passes its commit or its
\* deferred rollback. Otherwise the rows would block their writers for ever.
LocksMatchWrites ==
    /\ \A r \in Rows : lock[r] # NULL => txn[lock[r]] # NULL
    /\ \A s \in Sessions : txn[s] # NULL =>
          \A r \in {JobRow(j) : j \in WrittenBy(txn[s])} \cup txn[s].closed : lock[r] = s

------------------------------------------------------------------------------
\* The inductive invariant of the transactions.

\* Locks are held by sessions and transactions are well formed.
TxnTypeOK ==
    /\ lock \in [Rows -> Sessions \cup {NULL}]
    /\ txn \in [Sessions -> Txn \cup {NULL}]

\* How far a transaction has come determines which rows it has written.
Progress(t) ==
    LET written == WrittenBy(t) IN
    /\ t.kind = "claim" => /\ t.worker \in Workers /\ t.closed = {}
                           /\ IF t.step = 1 THEN written = {} ELSE Cardinality(written) <= BatchSize
    /\ t.kind = "recover" /\ t.step = 1 => written = {}
    /\ t.kind \in {"complete", "fail"} =>
          /\ t.job \in Jobs /\ t.attempt \in DOMAIN attempts[t.job]
          /\ t.worker = attempts[t.job][t.attempt].worker
          /\ t.kind = "fail" => t.outcome \in ExecutionErrors
          /\ written = IF t.step > (IF t.kind = "complete" THEN 1 ELSE 2) THEN {t.job} ELSE {}
          /\ t.closed = IF t.step > (IF t.kind = "complete" THEN 2 ELSE 1)
                        THEN {AttemptRow(t.job, t.attempt)} ELSE {}
    /\ t.kind \in DOMAIN Operations =>
          /\ t.job \in Jobs
          /\ written = IF t.step > 1 THEN {t.job} ELSE {}
    /\ t.kind \in {"pause", "resume", "retry"} => t.closed = {}
    /\ t.kind \in {"cancel", "recover"} => /\ \A r \in t.closed : r[1] \in written
                                           /\ t.step = 3 => Unclosed(t) = {}
    /\ t.kind = "requeue" => /\ t.job \in Jobs /\ t.fresh \in Jobs
                             /\ written = {} /\ t.closed = {}
    /\ t.kind # "requeue" => t.fresh = NULL
    /\ t.step <= Len(Statements[t.kind]) + 1

\* What the statements of a transaction have read or matched still holds: the
\* versions it has written are those it would write now, the conditions under
\* which it wrote them are true, and the identifier it has drawn is unused.
ReadsHold(t) ==
    /\ \A j \in WrittenBy(t) :
          /\ t.columns[j] = NewVersion(t, j)
          /\ IF t.kind \in {"claim", "recover"} THEN Selectable(t, j) ELSE JobMatches(t, j)
    /\ \A r \in t.closed : AttemptRunning(r[1], r[2])
    /\ t.kind = "requeue" => /\ status[t.fresh] = "ABSENT"
                             /\ t.step = 2 => deadLetters[t.job] = <<NULL>>

\* A requeue has locked its dead letter, and no two have drawn the same identifier.
RequeuesApart ==
    \A s \in Sessions : txn[s] # NULL /\ txn[s].kind = "requeue" =>
        /\ txn[s].step = 2 => lock[LetterRow(txn[s].job)] = s
        /\ \A u \in Sessions \ {s} : txn[u] # NULL => txn[u].fresh # txn[s].fresh

\* A session has locked nothing but what its transaction has written or selected.
LockedBy(t) ==
    {JobRow(j) : j \in WrittenBy(t)} \cup t.closed
    \cup {r \in {LetterRow(t.job)} : t.kind = "requeue" /\ t.step = 2}

LocksAreWrites ==
    \A r \in Rows, s \in Sessions : lock[r] = s => txn[s] # NULL /\ r \in LockedBy(txn[s])

\* The open transaction of s, if it has one, is as far as its writes say, and
\* what it has read holds.
SessionInv(s) == txn[s] # NULL => Progress(txn[s]) /\ ReadsHold(txn[s])

TxnInv ==
    /\ StoreInv /\ TxnTypeOK /\ LocksMatchWrites /\ RequeuesApart
    /\ \A j \in Jobs : Len(attempts[j]) <= MaxAttempts
    /\ \A s \in Sessions : SessionInv(s)
==============================================================================
