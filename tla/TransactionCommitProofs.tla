----------------------- MODULE TransactionCommitProofs -----------------------
(***************************************************************************)
(* The commit of every transaction of the repository is one step of the    *)
(* job store, or writes nothing, in every state in which what its earlier  *)
(* statements have read or matched still holds.                            *)
(***************************************************************************)
EXTENDS Transactions, SequenceTheorems, TLAPS

------------------------------------------------------------------------------
\* The model's operators.

\* The rows that are locked are different rows.
LEMMA RowsAreApart ==
    ASSUME StoreAssumption, NEW j \in Jobs, NEW a \in Nat \ {0}
    PROVE  /\ JobRow(j) \in Rows /\ LetterRow(j) \in Rows
           /\ a <= MaxAttempts => AttemptRow(j, a) \in Rows
           /\ JobRow(j) # AttemptRow(j, a) /\ JobRow(j) # LetterRow(j)
           /\ LetterRow(j) # AttemptRow(j, a)
           /\ \A i \in Jobs : /\ JobRow(i) = JobRow(j) => i = j
                             /\ LetterRow(i) = LetterRow(j) => i = j
                             /\ JobRow(i) # LetterRow(j) /\ JobRow(i) # AttemptRow(j, a)
                             /\ LetterRow(i) # AttemptRow(j, a)
  BY DEF Rows, JobRow, LetterRow, AttemptRow, StoreAssumption

\* The attempts of a job are numbered from one and are at most MaxAttempts.
LEMMA AttemptRows ==
    ASSUME TypeOK, StoreAssumption, NEW j \in Jobs, Len(attempts[j]) <= MaxAttempts,
           NEW a \in DOMAIN attempts[j]
    PROVE  /\ a \in Nat \ {0} /\ AttemptRow(j, a) \in Rows
           /\ attempts[j][a] \in Attempt
<1>1. attempts[j] \in Seq(Attempt)
  BY DEF TypeOK
<1>2. a \in 1..Len(attempts[j]) /\ Len(attempts[j]) \in Nat /\ attempts[j][a] \in Attempt
  BY <1>1, LenProperties, ElementOfSeq
<1> QED
  BY <1>2, RowsAreApart DEF StoreAssumption

\* An open transaction is well formed and satisfies its part of the invariant.
LEMMA OpenTxn ==
    ASSUME TxnInv, NEW s \in Sessions, txn[s] # NULL
    PROVE  txn[s] \in Txn /\ Progress(txn[s]) /\ ReadsHold(txn[s])
  BY DEF TxnInv, TxnTypeOK, SessionInv

\* How far a transaction that finalizes a claim has come.
LEMMA FinalizerProgress ==
    ASSUME NEW t \in Txn, Progress(t), t.kind \in {"complete", "fail"}
    PROVE  /\ t.job \in Jobs /\ t.attempt \in DOMAIN attempts[t.job]
           /\ t.worker = attempts[t.job][t.attempt].worker
           /\ t.kind = "fail" => t.outcome \in ExecutionErrors
           /\ WrittenBy(t) = IF t.step > (IF t.kind = "complete" THEN 1 ELSE 2) THEN {t.job} ELSE {}
           /\ t.closed = IF t.step > (IF t.kind = "complete" THEN 2 ELSE 1)
                         THEN {AttemptRow(t.job, t.attempt)} ELSE {}
  BY Zenon DEF Progress

\* How far a requeue has come.
LEMMA RequeueProgress ==
    ASSUME NEW t \in Txn, Progress(t), t.kind = "requeue"
    PROVE  /\ t.job \in Jobs /\ t.fresh \in Jobs /\ WrittenBy(t) = {} /\ t.closed = {}
           /\ t.step \in 1..2
<1>1. Len(Statements["requeue"]) = 1
  BY DEF Statements
<1>2. t.step \in 1..3 /\ t.step <= Len(Statements["requeue"]) + 1
  BY Zenon DEF Progress, Txn
<1>3. t.step \in 1..2
  BY <1>1, <1>2
<1> QED
  BY <1>3, Zenon DEF Progress

\* How far an operation on a job has come.
LEMMA OperationProgress ==
    ASSUME NEW t \in Txn, Progress(t), t.kind \in DOMAIN Operations
    PROVE  /\ t.job \in Jobs /\ WrittenBy(t) = IF t.step > 1 THEN {t.job} ELSE {}
           /\ t.kind # "cancel" => t.closed = {}
<1>1. t.kind \in {"cancel", "pause", "resume", "retry"}
  BY DEF Operations
<1> QED
  BY <1>1, Zenon DEF Progress

\* A transaction that has run no statement has read nothing.
LEMMA NewTxn ==
    ASSUME NEW t \in Txn, t.step = 1, WrittenBy(t) = {}, t.closed = {},
           t.kind = "claim" => t.worker \in Workers,
           t.kind \in {"complete", "fail"} =>
              /\ t.job \in Jobs /\ t.attempt \in DOMAIN attempts[t.job]
              /\ t.worker = attempts[t.job][t.attempt].worker
              /\ t.kind = "fail" => t.outcome \in ExecutionErrors,
           t.kind \in DOMAIN Operations => t.job \in Jobs,
           IF t.kind = "requeue" THEN t.job \in Jobs /\ t.fresh \in Jobs /\ status[t.fresh] = "ABSENT"
                                 ELSE t.fresh = NULL
    PROVE  Progress(t) /\ ReadsHold(t)
<1>1. 1 <= Len(Statements[t.kind]) + 1
  BY DEF Txn, Statements
<1>2. ~(t.step > 1) /\ ~(t.step > 2) /\ t.step # 2 /\ t.step # 3
  OBVIOUS
<1>3. Progress(t)
  BY <1>1, <1>2, Zenon DEF Progress
<1>4. ReadsHold(t)
  BY <1>2, Zenon DEF ReadsHold
<1> QED
  BY <1>3, <1>4

\* The place of every statement in its transaction.
LEMMA StandsAt ==
    ASSUME NEW t \in Txn, t.step <= Len(Statements[t.kind])
    PROVE  /\ Statement(t) = "job" =>
                 \/ t.kind = "complete" /\ t.step = 1
                 \/ t.kind = "fail" /\ t.step = 2
                 \/ t.kind \in DOMAIN Operations /\ t.step = 1
           /\ Statement(t) = "attempt" => \/ t.kind = "complete" /\ t.step = 2
                                          \/ t.kind = "fail" /\ t.step = 1
           /\ Statement(t) = "letter" => t.kind = "requeue" /\ t.step = 1
           /\ Statement(t) = "select" => t.kind \in {"claim", "recover"} /\ t.step = 1
           /\ Statement(t) = "attempts" => t.kind \in {"cancel", "recover"} /\ t.step = 2
<1>1. t.kind \in DOMAIN Statements /\ t.step \in 1..3
  BY DEF Txn
<1>2. DOMAIN Operations = {"cancel", "pause", "resume", "retry"}
  BY DEF Operations
<1>3. CASE t.kind = "claim"
  BY <1>1, <1>3 DEF Statement, Statements
<1>4. CASE t.kind = "recover"
  BY <1>1, <1>4 DEF Statement, Statements
<1>5. CASE t.kind = "complete"
  BY <1>1, <1>5 DEF Statement, Statements
<1>6. CASE t.kind = "fail"
  BY <1>1, <1>6 DEF Statement, Statements
<1>7. CASE t.kind = "cancel"
  BY <1>1, <1>2, <1>7 DEF Statement, Statements
<1>8. CASE t.kind \in {"pause", "resume", "retry"}
  BY <1>1, <1>2, <1>8 DEF Statement, Statements
<1>9. CASE t.kind = "requeue"
  BY <1>1, <1>9 DEF Statement, Statements
<1>10. t.kind \in {"claim", "recover", "complete", "fail", "cancel", "pause", "resume", "retry", "requeue"}
  BY <1>1 DEF Statements
<1> QED
  BY <1>3, <1>4, <1>5, <1>6, <1>7, <1>8, <1>9, <1>10, Zenon

\* A transaction that finalizes a claim is as far as its writes say.
LEMMA FinalizerIs ==
    ASSUME NEW t \in Txn, t.kind \in {"complete", "fail"},
           t.job \in Jobs /\ t.attempt \in DOMAIN attempts[t.job],
           t.worker = attempts[t.job][t.attempt].worker,
           t.kind = "fail" => t.outcome \in ExecutionErrors,
           WrittenBy(t) = IF t.step > (IF t.kind = "complete" THEN 1 ELSE 2) THEN {t.job} ELSE {},
           t.closed = IF t.step > (IF t.kind = "complete" THEN 2 ELSE 1)
                      THEN {AttemptRow(t.job, t.attempt)} ELSE {},
           t.fresh = NULL
    PROVE  Progress(t)
<1>1. t.step <= Len(Statements[t.kind]) + 1
  <2>1. Len(Statements[t.kind]) = 2 /\ t.step \in 1..3
    BY DEF Statements, Txn
  <2> QED
    BY <2>1
<1>2. t.kind \notin DOMAIN Operations
  BY DEF Operations
<1> QED
  BY <1>1, <1>2, Zenon DEF Progress

\* So is an operation on a job.
LEMMA OperationIs ==
    ASSUME NEW t \in Txn, t.kind \in DOMAIN Operations, t.job \in Jobs,
           WrittenBy(t) = IF t.step > 1 THEN {t.job} ELSE {},
           t.kind # "cancel" => t.closed = {} /\ t.step < 3,
           \A r \in t.closed : r[1] \in WrittenBy(t),
           t.step = 3 => Unclosed(t) = {},
           t.fresh = NULL
    PROVE  Progress(t)
<1>1. t.kind \in {"cancel", "pause", "resume", "retry"}
  BY DEF Operations
<1>2. t.step <= Len(Statements[t.kind]) + 1
  <2>1. t.step \in 1..3
    BY DEF Txn
  <2>2. CASE t.kind = "cancel"
    BY <2>1, <2>2 DEF Statements
  <2>3. CASE t.kind # "cancel"
    BY <1>1, <2>1, <2>3 DEF Statements
  <2> QED
    BY <2>2, <2>3
<1> QED
  BY <1>1, <1>2, Zenon DEF Progress

\* What a statement writes and matches depends on its arguments alone.
LEMMA SameArguments ==
    ASSUME NEW t, NEW n, n.kind = t.kind, n.worker = t.worker, n.attempt = t.attempt,
           n.outcome = t.outcome, NEW j
    PROVE  /\ NewVersion(n, j) = NewVersion(t, j)
           /\ Selectable(n, j) = Selectable(t, j) /\ JobMatches(n, j) = JobMatches(t, j)
<1>1. NewVersion(n, j) = NewVersion(t, j)
  BY DEF NewVersion
<1>2. Selectable(n, j) = Selectable(t, j) /\ JobMatches(n, j) = JobMatches(t, j)
  BY DEF Selectable, JobMatches
<1> QED
  BY <1>1, <1>2

\* A transaction that has closed an attempt has written its job before, unless
\* it reports a failure.
LEMMA JobBeforeAttempt ==
    ASSUME NEW t \in Txn, Progress(t), t.kind # "fail", NEW r \in t.closed
    PROVE  r[1] \in WrittenBy(t)
<1>1. t.kind \in {"claim", "recover", "complete", "cancel", "pause", "resume", "retry", "requeue"}
  BY DEF Txn, Statements
<1>2. CASE t.kind \in {"claim", "pause", "resume", "retry", "requeue"}
  BY <1>2, Zenon DEF Progress
<1>3. CASE t.kind \in {"cancel", "recover"}
  BY <1>3, Zenon DEF Progress
<1>4. CASE t.kind = "complete"
  <2>1. /\ WrittenBy(t) = IF t.step > 1 THEN {t.job} ELSE {}
        /\ t.closed = IF t.step > 2 THEN {AttemptRow(t.job, t.attempt)} ELSE {}
    BY <1>4, FinalizerProgress
  <2>2. t.step > 2 /\ t.step > 1 /\ r = AttemptRow(t.job, t.attempt)
    BY <2>1 DEF Txn
  <2> QED
    BY <2>1, <2>2 DEF AttemptRow
<1> QED
  BY <1>1, <1>2, <1>3, <1>4

\* A transaction holds nothing while it stands at its first statement.
LEMMA NothingHeldAtFirst ==
    ASSUME NEW t \in Txn, Progress(t), t.step = 1
    PROVE  LockedBy(t) = {}
<1>1. t.kind \in {"claim", "recover", "complete", "fail", "cancel", "pause", "resume", "retry", "requeue"}
  BY DEF Txn, Statements
<1>2. ~(t.step > 1) /\ ~(t.step > 2) /\ t.step # 2
  OBVIOUS
<1>3. WrittenBy(t) = {}
  <2>1. CASE t.kind \in {"claim", "recover", "requeue"}
    BY <2>1, Zenon DEF Progress
  <2>2. CASE t.kind \in {"complete", "fail"}
    BY <1>2, <2>2, FinalizerProgress, Zenon
  <2>3. CASE t.kind \in {"cancel", "pause", "resume", "retry"}
    <3>1. t.kind \in DOMAIN Operations
      BY <2>3 DEF Operations
    <3> QED
      BY <1>2, <3>1, OperationProgress
  <2> QED
    BY <1>1, <2>1, <2>2, <2>3
<1>4. t.closed = {}
  <2>1. CASE t.kind = "fail"
    BY <1>2, <2>1, FinalizerProgress, Zenon
  <2>2. CASE t.kind # "fail"
    BY <1>3, <2>2, JobBeforeAttempt
  <2> QED
    BY <2>1, <2>2
<1> QED
  BY <1>2, <1>3, <1>4 DEF LockedBy

------------------------------------------------------------------------------
\* The rows of a commit.

\* Closing attempts changes their status and nothing else.
LEMMA ClosedRows ==
    ASSUME TypeOK, NEW t \in Txn, Progress(t), NEW j \in Jobs
    PROVE  /\ RowsClosed(t, j) \in Seq(Attempt)
           /\ Len(RowsClosed(t, j)) = Len(attempts[j])
           /\ DOMAIN RowsClosed(t, j) = DOMAIN attempts[j]
           /\ \A a \in DOMAIN attempts[j] :
                 /\ RowsClosed(t, j)[a].worker = attempts[j][a].worker
                 /\ RowsClosed(t, j)[a].number = attempts[j][a].number
                 /\ RowsClosed(t, j)[a].status =
                       IF AttemptRow(j, a) \in t.closed THEN ClosedAs[t.kind] ELSE attempts[j][a].status
           /\ (\A r \in t.closed : r[1] # j) => RowsClosed(t, j) = attempts[j]
<1> DEFINE rows == attempts[j]
<1>1. rows \in Seq(Attempt) /\ Len(rows) \in Nat /\ DOMAIN rows = 1..Len(rows)
  BY LenProperties DEF TypeOK
<1>2. \A a \in 1..Len(rows) : rows[a] \in Attempt
  BY <1>1, ElementOfSeq
<1>3. t.closed # {} => ClosedAs[t.kind] \in AttemptStatuses
  <2>1. t.closed # {} => t.kind \in {"complete", "fail", "recover", "cancel"}
    BY DEF Progress, Txn, Statements
  <2> QED
    BY <2>1 DEF ClosedAs, AttemptStatuses
<1>4. \A a \in 1..Len(rows) :
         /\ RowsClosed(t, j)[a] = IF AttemptRow(j, a) \in t.closed
                                  THEN [rows[a] EXCEPT !.status = ClosedAs[t.kind]] ELSE rows[a]
         /\ RowsClosed(t, j)[a] \in Attempt
  BY <1>1, <1>2, <1>3, Zenon DEF RowsClosed, Attempt
<1>5. RowsClosed(t, j) = [a \in 1..Len(rows) |-> RowsClosed(t, j)[a]]
  BY <1>1 DEF RowsClosed
<1>6. RowsClosed(t, j) \in Seq(Attempt) /\ Len(RowsClosed(t, j)) = Len(rows)
  <2>1. RowsClosed(t, j) \in [1..Len(rows) -> Attempt]
    BY <1>4, <1>5, Zenon
  <2> QED
    BY <1>1, <2>1
<1>7. \A a \in 1..Len(rows) :
         /\ RowsClosed(t, j)[a].worker = rows[a].worker
         /\ RowsClosed(t, j)[a].number = rows[a].number
         /\ RowsClosed(t, j)[a].status =
               IF AttemptRow(j, a) \in t.closed THEN ClosedAs[t.kind] ELSE rows[a].status
  BY <1>2, <1>4, Zenon DEF Attempt
<1>8. ASSUME \A r \in t.closed : r[1] # j
      PROVE  RowsClosed(t, j) = rows
  <2>1. \A a \in 1..Len(rows) : RowsClosed(t, j)[a] = rows[a]
    BY <1>4, <1>8, Zenon DEF AttemptRow
  <2>2. rows = [a \in 1..Len(rows) |-> rows[a]]
    BY <1>1
  <2> QED
    BY <1>5, <2>1, <2>2, Zenon
<1> QED
  BY <1>1, <1>5, <1>6, <1>7, <1>8, Zenon

\* What a transaction that is done has closed belongs to jobs it has written.
LEMMA ClosedAreWritten ==
    ASSUME NEW s \in Sessions, txn[s] \in Txn, Progress(txn[s]), Done(s)
    PROVE  \A r \in txn[s].closed : r[1] \in WrittenBy(txn[s])
<1> DEFINE t == txn[s]
<1>1. t.kind \in DOMAIN Statements /\ t.step \in 1..3
  BY DEF Txn
<1>2. CASE t.kind \in {"claim", "pause", "resume", "retry", "requeue"}
  BY <1>2 DEF Progress
<1>3. CASE t.kind \in {"cancel", "recover"}
  BY <1>3 DEF Progress
<1>4. CASE t.kind \in {"complete", "fail"}
  <2>1. t.step = 3
    BY <1>1, <1>4 DEF Done, Statements
  <2> QED
    BY <1>4, <2>1 DEF Progress, AttemptRow
<1> QED
  BY <1>1, <1>2, <1>3, <1>4 DEF Statements

\* The attempts after a commit: those it has closed, and the one a claim starts.
LEMMA CommittedAttempts ==
    ASSUME TypeOK, NEW s \in Sessions, txn[s] \in Txn, Progress(txn[s]), Commit(s), NEW j \in Jobs
    PROVE  /\ j \notin WrittenBy(txn[s]) => attempts'[j] = attempts[j]
           /\ txn[s].kind # "claim" => attempts'[j] = RowsClosed(txn[s], j)
           /\ j \in WrittenBy(txn[s]) /\ txn[s].kind = "claim" =>
                 attempts'[j] = Append(RowsClosed(txn[s], j), RowStarted(txn[s], j))
           /\ \A a \in DOMAIN attempts[j] : /\ a \in DOMAIN attempts'[j]
                                           /\ attempts'[j][a] = RowsClosed(txn[s], j)[a]
<1> DEFINE t == txn[s]  rows == RowsClosed(t, j)
<1>1. attempts'[j] = IF j \in WrittenBy(t) /\ t.kind = "claim"
                     THEN Append(rows, RowStarted(t, j)) ELSE rows
  BY DEF Commit
<1>2. Done(s)
  BY DEF Commit
<1>3. rows \in Seq(Attempt) /\ DOMAIN rows = DOMAIN attempts[j]
  BY ClosedRows
<1>4. j \notin WrittenBy(t) => rows = attempts[j]
  BY <1>2, ClosedAreWritten, ClosedRows
<1>5. \A a \in DOMAIN rows : /\ a \in DOMAIN Append(rows, RowStarted(t, j))
                             /\ Append(rows, RowStarted(t, j))[a] = rows[a]
  <2> HIDE DEF rows
  <2> QED
    BY <1>3
<1> HIDE DEF rows
<1>6. \A a \in DOMAIN attempts[j] : a \in DOMAIN attempts'[j] /\ attempts'[j][a] = rows[a]
  BY <1>1, <1>3, <1>5
<1> QED
  BY <1>1, <1>4, <1>6 DEF rows

------------------------------------------------------------------------------
\* A commit is one step of the job store.

\* The columns that a commit leaves: of the rows it has written those its
\* statements would write now, of all other rows the old ones.
LEMMA Committed ==
    ASSUME TxnInv, NEW s \in Sessions, Commit(s), NEW j \in Jobs
    PROVE  LET t == txn[s]  new == NewVersion(txn[s], j) IN
           /\ j \notin WrittenBy(t) =>
                 /\ status'[j] = status[j] /\ lockedBy'[j] = lockedBy[j]
                 /\ lockedUntil'[j] = lockedUntil[j] /\ due'[j] = due[j]
                 /\ retryCount'[j] = retryCount[j] /\ attempts'[j] = attempts[j]
                 /\ deadLetters'[j] = deadLetters[j] /\ events'[j] = events[j]
           /\ j \in WrittenBy(t) =>
                 /\ status'[j] = new.status /\ lockedBy'[j] = new.lockedBy
                 /\ lockedUntil'[j] = new.lockedUntil /\ retryCount'[j] = new.retryCount
                 /\ due'[j] = IF new.runAt # "kept" THEN new.runAt = "past" ELSE due[j]
                 /\ deadLetters'[j] = IF new.status = "DEAD_LETTERED"
                                      THEN Append(deadLetters[j], NULL) ELSE deadLetters[j]
                 /\ events'[j] = EventsOf(t, new.status)
<1> DEFINE t == txn[s]
<1>1. t # NULL
  BY DEF Commit, Done
<1>2. t \in Txn /\ Progress(t) /\ TypeOK
  BY <1>1, OpenTxn DEF TxnInv, StoreInv
<1>3. j \in WrittenBy(t) => t.columns[j] = NewVersion(t, j)
  BY <1>1, OpenTxn DEF ReadsHold
<1>4. j \notin WrittenBy(t) => attempts'[j] = attempts[j]
  BY <1>2, CommittedAttempts
<1>5. CASE j \notin WrittenBy(t)
  BY <1>4, <1>5 DEF Commit
<1>6. CASE j \in WrittenBy(t)
  <2>1. /\ status'[j] = t.columns[j].status /\ lockedBy'[j] = t.columns[j].lockedBy
        /\ lockedUntil'[j] = t.columns[j].lockedUntil /\ retryCount'[j] = t.columns[j].retryCount
        /\ due'[j] = IF t.columns[j].runAt # "kept" THEN t.columns[j].runAt = "past" ELSE due[j]
        /\ deadLetters'[j] = IF t.columns[j].status = "DEAD_LETTERED"
                             THEN Append(deadLetters[j], NULL) ELSE deadLetters[j]
        /\ events'[j] = EventsOf(t, t.columns[j].status)
    BY <1>6 DEF Commit
  <2> QED
    BY <1>3, <1>6, <2>1
<1> QED
  BY <1>5, <1>6

\* The tables stay functions of the jobs.
LEMMA CommittedTables ==
    ASSUME NEW s \in Sessions, Commit(s)
    PROVE  /\ status' = [j \in Jobs |-> status'[j]]
           /\ lockedBy' = [j \in Jobs |-> lockedBy'[j]]
           /\ lockedUntil' = [j \in Jobs |-> lockedUntil'[j]]
           /\ due' = [j \in Jobs |-> due'[j]]
           /\ retryCount' = [j \in Jobs |-> retryCount'[j]]
           /\ attempts' = [j \in Jobs |-> attempts'[j]]
           /\ deadLetters' = [j \in Jobs |-> deadLetters'[j]]
           /\ events' = [j \in Jobs |-> events'[j]]
           /\ UNCHANGED <<maxRetries, source>>
  BY DEF Commit

\* A claim or a recovery that has selected no row commits nothing.
LEMMA CommitNothing ==
    ASSUME TxnInv, NEW s \in Sessions, Commit(s), WrittenBy(txn[s]) = {}
    PROVE  UNCHANGED storeVars
<1>1. TypeOK
  BY DEF TxnInv, StoreInv
<1>2. \A j \in Jobs :
         /\ status'[j] = status[j] /\ lockedBy'[j] = lockedBy[j]
         /\ lockedUntil'[j] = lockedUntil[j] /\ due'[j] = due[j]
         /\ retryCount'[j] = retryCount[j] /\ attempts'[j] = attempts[j]
         /\ deadLetters'[j] = deadLetters[j] /\ events'[j] = events[j]
  BY Committed
<1>3. /\ status' = status /\ lockedBy' = lockedBy /\ lockedUntil' = lockedUntil /\ due' = due
      /\ retryCount' = retryCount
  BY <1>1, <1>2, CommittedTables DEF TypeOK
<1>4. attempts' = attempts /\ deadLetters' = deadLetters /\ events' = events
  BY <1>1, <1>2, CommittedTables DEF TypeOK
<1>5. UNCHANGED <<maxRetries, source>>
  BY CommittedTables
<1> QED
  BY <1>3, <1>4, <1>5 DEF storeVars, jobVars

\* ClaimDueJobs takes effect at its commit: the rows that it selected are still
\* claimable, since SKIP LOCKED keeps every other session away from them.
LEMMA CommitClaim ==
    ASSUME TxnInv, NEW s \in Sessions, Commit(s), txn[s].kind = "claim", WrittenBy(txn[s]) # {}
    PROVE  ClaimDueJobs(txn[s].worker, WrittenBy(txn[s])) /\ txn[s].worker \in Workers
<1> DEFINE t == txn[s]  S == WrittenBy(txn[s])
<1>1. t # NULL /\ t.step > 1
  <2>1. Len(Statements["claim"]) = 1
    BY DEF Statements
  <2> QED
    BY <2>1 DEF Commit, Done
<1>2. t \in Txn /\ Progress(t) /\ ReadsHold(t) /\ TypeOK
  BY <1>1, OpenTxn DEF TxnInv, StoreInv
<1>3. t.worker \in Workers /\ t.closed = {} /\ Cardinality(S) <= BatchSize
  BY <1>1, <1>2 DEF Progress
<1>4. \A j \in S : /\ j \in Jobs /\ Claimable(j) /\ Len(attempts[j]) < MaxAttempts
                   /\ t.columns[j] = NewVersion(t, j)
  BY <1>2 DEF ReadsHold, Selectable, WrittenBy
<1>5. \A j \in S :
         /\ NewVersion(t, j).status = "RUNNING" /\ NewVersion(t, j).lockedBy = t.worker
         /\ NewVersion(t, j).lockedUntil = "live" /\ NewVersion(t, j).retryCount = retryCount[j]
         /\ NewVersion(t, j).runAt = "kept" /\ EventsOf(t, "RUNNING") = {"job.started"}
  BY DEF NewVersion, EventsOf
<1>6. ASSUME NEW j \in S
      PROVE  /\ status'[j] = "RUNNING" /\ lockedBy'[j] = t.worker /\ lockedUntil'[j] = "live"
             /\ retryCount'[j] = retryCount[j] /\ due'[j] = due[j]
             /\ deadLetters'[j] = deadLetters[j] /\ events'[j] = {"job.started"}
  BY <1>4, <1>5, Committed
<1>7. \A j \in S : attempts'[j] = Append(attempts[j], NewAttempt(j, t.worker))
  <2>1. ASSUME NEW j \in S
        PROVE  attempts'[j] = Append(RowsClosed(t, j), RowStarted(t, j))
    BY <1>2, <1>4, CommittedAttempts
  <2>2. ASSUME NEW j \in S
        PROVE  RowsClosed(t, j) = attempts[j] /\ RowStarted(t, j) = NewAttempt(j, t.worker)
    <3>1. RowsClosed(t, j) = attempts[j]
      BY <1>2, <1>3, <1>4, ClosedRows
    <3>2. t.columns[j].retryCount = retryCount[j]
      BY <1>4, <1>5
    <3> QED
      BY <3>1, <3>2 DEF RowStarted, NewAttempt
  <2> QED
    BY <2>1, <2>2
<1>8. \A j \in Jobs : j \notin S =>
         /\ status'[j] = status[j] /\ lockedBy'[j] = lockedBy[j]
         /\ lockedUntil'[j] = lockedUntil[j] /\ due'[j] = due[j]
         /\ retryCount'[j] = retryCount[j] /\ attempts'[j] = attempts[j]
         /\ deadLetters'[j] = deadLetters[j] /\ events'[j] = events[j]
  BY Committed
<1> HIDE DEF S
<1>9. /\ due' = due /\ retryCount' = retryCount /\ deadLetters' = deadLetters
      /\ UNCHANGED <<maxRetries, source>>
  BY <1>2, <1>6, <1>8, CommittedTables DEF TypeOK
<1>10. /\ status' = [j \in Jobs |-> IF j \in S THEN "RUNNING" ELSE status[j]]
       /\ lockedBy' = [j \in Jobs |-> IF j \in S THEN t.worker ELSE lockedBy[j]]
       /\ lockedUntil' = [j \in Jobs |-> IF j \in S THEN "live" ELSE lockedUntil[j]]
  BY <1>6, <1>8, CommittedTables
<1>11. attempts' = [j \in Jobs |-> IF j \in S THEN Append(attempts[j], NewAttempt(j, t.worker))
                                   ELSE attempts[j]]
  BY <1>7, <1>8, CommittedTables
<1>12. events' = [j \in Jobs |-> IF j \in S THEN {"job.started"} ELSE events[j]]
  BY <1>6, <1>8, CommittedTables
<1>13. S # {}
  BY DEF S
<1> QED
  BY <1>3, <1>4, <1>9, <1>10, <1>11, <1>12, <1>13 DEF ClaimDueJobs, S

\* Every transaction but a claim gives the rows up that it has written.
LEMMA CommitReleases ==
    ASSUME TxnInv, NEW s \in Sessions, Commit(s), txn[s].kind # "claim"
    PROVE  Unlock(WrittenBy(txn[s]))
<1> DEFINE t == txn[s]
<1>1. \A j \in Jobs : NewVersion(t, j).lockedBy = NULL /\ NewVersion(t, j).lockedUntil = "null"
  BY DEF NewVersion, AfterFailure, Released
<1>2. \A j \in Jobs : /\ lockedBy'[j] = IF j \in WrittenBy(t) THEN NULL ELSE lockedBy[j]
                      /\ lockedUntil'[j] = IF j \in WrittenBy(t) THEN "null" ELSE lockedUntil[j]
  BY <1>1, Committed
<1> QED
  BY <1>2, CommittedTables DEF Unlock

\* The tables after the commit of a transaction that has written one job.
LEMMA CommitOne ==
    ASSUME TxnInv, NEW s \in Sessions, Commit(s), txn[s].kind # "claim", txn[s].job \in Jobs,
           WrittenBy(txn[s]) = {txn[s].job}
    PROVE  LET t == txn[s]  j == txn[s].job  new == NewVersion(txn[s], j) IN
           /\ status' = [status EXCEPT ![j] = new.status]
           /\ retryCount' = [retryCount EXCEPT ![j] = new.retryCount]
           /\ new.runAt = "kept" => due' = due
           /\ new.runAt # "kept" => due' = [due EXCEPT ![j] = (new.runAt = "past")]
           /\ Unlock({j})
           /\ attempts' = [attempts EXCEPT ![j] = RowsClosed(t, j)]
           /\ new.status # "DEAD_LETTERED" => deadLetters' = deadLetters
           /\ new.status = "DEAD_LETTERED" =>
                 deadLetters' = [deadLetters EXCEPT ![j] = Append(@, NULL)]
           /\ events' = [events EXCEPT ![j] = EventsOf(t, new.status)]
           /\ UNCHANGED <<maxRetries, source>>
<1> DEFINE t == txn[s]  j == t.job  new == NewVersion(t, j)
<1>1. /\ status \in [Jobs -> Statuses \cup {"ABSENT"}] /\ retryCount \in [Jobs -> Nat]
      /\ due \in [Jobs -> BOOLEAN] /\ attempts \in [Jobs -> Seq(Attempt)]
      /\ deadLetters \in [Jobs -> Seq(Jobs \cup {NULL})] /\ events \in [Jobs -> SUBSET EventTypes]
  BY DEF TxnInv, StoreInv, TypeOK
<1>2. \A i \in Jobs : i # j =>
         /\ status'[i] = status[i] /\ due'[i] = due[i]
         /\ retryCount'[i] = retryCount[i] /\ attempts'[i] = attempts[i]
         /\ deadLetters'[i] = deadLetters[i] /\ events'[i] = events[i]
  BY Committed, Zenon
<1>3. /\ status'[j] = new.status /\ retryCount'[j] = new.retryCount
      /\ due'[j] = IF new.runAt # "kept" THEN new.runAt = "past" ELSE due[j]
      /\ deadLetters'[j] = IF new.status = "DEAD_LETTERED"
                           THEN Append(deadLetters[j], NULL) ELSE deadLetters[j]
      /\ events'[j] = EventsOf(t, new.status)
  BY Committed
<1>4. attempts'[j] = RowsClosed(t, j)
  BY DEF Commit
<1>5. Unlock({j}) /\ j \in Jobs
  BY CommitReleases
<1> HIDE DEF j, new
<1>6. status' = [status EXCEPT ![j] = new.status] /\ retryCount' = [retryCount EXCEPT ![j] = new.retryCount]
  BY <1>1, <1>2, <1>3, <1>5, CommittedTables
<1>7. /\ new.runAt = "kept" => due' = due
      /\ new.runAt # "kept" => due' = [due EXCEPT ![j] = (new.runAt = "past")]
  BY <1>1, <1>2, <1>3, <1>5, CommittedTables
<1>8. attempts' = [attempts EXCEPT ![j] = RowsClosed(t, j)]
  BY <1>1, <1>2, <1>4, <1>5, CommittedTables
<1>9. /\ new.status # "DEAD_LETTERED" => deadLetters' = deadLetters
      /\ new.status = "DEAD_LETTERED" => deadLetters' = [deadLetters EXCEPT ![j] = Append(@, NULL)]
  <2> DEFINE more == Append(deadLetters[j], NULL)
  <2>1. deadLetters'[j] = IF new.status = "DEAD_LETTERED" THEN more ELSE deadLetters[j]
    BY <1>3
  <2> HIDE DEF more
  <2>2. /\ new.status # "DEAD_LETTERED" => deadLetters' = deadLetters
        /\ new.status = "DEAD_LETTERED" => deadLetters' = [deadLetters EXCEPT ![j] = more]
    BY <1>1, <1>2, <2>1, <1>5, CommittedTables
  <2> QED
    BY <2>2 DEF more
<1>10. events' = [events EXCEPT ![j] = EventsOf(t, new.status)]
  BY <1>1, <1>2, <1>3, <1>5, CommittedTables
<1>11. UNCHANGED <<maxRetries, source>>
  BY CommittedTables
<1> QED
  BY <1>5, <1>6, <1>7, <1>8, <1>9, <1>10, <1>11 DEF j, new

\* A transaction that finalizes a claim and is done has written the job and closed
\* the attempt; the job is still its worker's and the attempt still RUNNING.
LEMMA FinalizerDone ==
    ASSUME TxnInv, NEW s \in Sessions, Commit(s), txn[s].kind \in {"complete", "fail"}
    PROVE  LET t == txn[s] IN
           /\ t.job \in Jobs /\ t.attempt \in DOMAIN attempts[t.job] /\ WrittenBy(t) = {t.job}
           /\ AttemptRunning(t.job, t.attempt) /\ Owns(t.job, attempts[t.job][t.attempt].worker)
           /\ RowsClosed(t, t.job) =
                 [attempts[t.job] EXCEPT ![t.attempt].status = ClosedAs[t.kind]]
           /\ t.kind = "fail" => t.outcome \in ExecutionErrors
<1> DEFINE t == txn[s]
<1>1. t # NULL /\ t.step > 2
  <2>1. Len(Statements["complete"]) = 2 /\ Len(Statements["fail"]) = 2
    BY DEF Statements
  <2> QED
    BY <2>1, Zenon DEF Commit, Done
<1>2. t \in Txn /\ Progress(t) /\ ReadsHold(t) /\ TypeOK
  BY <1>1, OpenTxn DEF TxnInv, StoreInv
<1>3. /\ t.job \in Jobs /\ t.attempt \in DOMAIN attempts[t.job]
      /\ t.worker = attempts[t.job][t.attempt].worker
      /\ WrittenBy(t) = {t.job} /\ t.closed = {AttemptRow(t.job, t.attempt)}
      /\ t.kind = "fail" => t.outcome \in ExecutionErrors
  <2>1. t.step \in 1..3
    BY <1>2 DEF Txn
  <2>2. t.step > 1
    BY <1>1, <2>1
  <2> QED
    BY <1>1, <1>2, <2>2, FinalizerProgress, Zenon
<1>4. AttemptRunning(t.job, t.attempt)
  <2>1. AttemptRow(t.job, t.attempt)[1] = t.job /\ AttemptRow(t.job, t.attempt)[2] = t.attempt
    BY DEF AttemptRow
  <2> QED
    BY <1>2, <1>3, <2>1, Zenon DEF ReadsHold
<1>5. Owns(t.job, attempts[t.job][t.attempt].worker)
  BY <1>2, <1>3 DEF ReadsHold, JobMatches, Operations
<1>6. RowsClosed(t, t.job) = [attempts[t.job] EXCEPT ![t.attempt].status = ClosedAs[t.kind]]
  <2>1. \A a \in DOMAIN attempts[t.job] : AttemptRow(t.job, a) \in t.closed <=> a = t.attempt
    BY <1>3 DEF AttemptRow
  <2>2. attempts[t.job] = [a \in DOMAIN attempts[t.job] |-> attempts[t.job][a]]
    BY <1>2, <1>3 DEF TypeOK
  <2> QED
    BY <1>3, <2>1, <2>2 DEF RowsClosed
<1> QED
  BY <1>3, <1>4, <1>5, <1>6

\* CompleteExecution takes effect at its commit.
LEMMA CommitComplete ==
    ASSUME TxnInv, NEW s \in Sessions, Commit(s), txn[s].kind = "complete"
    PROVE  CompleteExecution(txn[s].job, txn[s].attempt)
<1> DEFINE t == txn[s]  j == t.job  a == t.attempt  new == NewVersion(txn[s], j)
<1>1. /\ j \in Jobs /\ a \in DOMAIN attempts[j] /\ WrittenBy(t) = {j}
      /\ AttemptRunning(j, a) /\ Owns(j, attempts[j][a].worker)
      /\ RowsClosed(t, j) = [attempts[j] EXCEPT ![a].status = ClosedAs[t.kind]]
  BY FinalizerDone, Zenon
<1>2. /\ new.status = "SUCCEEDED" /\ new.retryCount = retryCount[j] /\ new.runAt = "kept"
      /\ EventsOf(t, "SUCCEEDED") = {"job.completed"} /\ ClosedAs[t.kind] = "SUCCEEDED"
  BY DEF NewVersion, Released, EventsOf, ClosedAs
<1>3. /\ status' = [status EXCEPT ![j] = new.status]
      /\ retryCount' = [retryCount EXCEPT ![j] = new.retryCount]
      /\ new.runAt = "kept" => due' = due
      /\ Unlock({j})
      /\ attempts' = [attempts EXCEPT ![j] = RowsClosed(t, j)]
      /\ new.status # "DEAD_LETTERED" => deadLetters' = deadLetters
      /\ events' = [events EXCEPT ![j] = EventsOf(t, new.status)]
      /\ UNCHANGED <<maxRetries, source>>
  <2>1. t.kind # "claim"
    OBVIOUS
  <2> QED
    BY <1>1, <2>1, CommitOne, Zenon
<1> HIDE DEF t, j, a, new
<1>4. retryCount' = retryCount
  BY <1>1, <1>2, <1>3 DEF TxnInv, StoreInv, TypeOK
<1>5. attempts' = [attempts EXCEPT ![j][a].status = "SUCCEEDED"]
  BY <1>1, <1>2, <1>3, Zenon DEF TxnInv, StoreInv, TypeOK
<1>6. CompleteExecution(j, a)
  BY <1>1, <1>2, <1>3, <1>4, <1>5, Zenon DEF CompleteExecution
<1> QED
  BY <1>6 DEF j, a, t

\* FailExecution takes effect at its commit, with the decision that the worker
\* took from its copy of the row.
LEMMA CommitFail ==
    ASSUME TxnInv, NEW s \in Sessions, Commit(s), txn[s].kind = "fail"
    PROVE  FailExecution(txn[s].job, txn[s].attempt,
                         txn[s].outcome # "permanent", txn[s].outcome = "later")
<1> DEFINE t == txn[s]  j == t.job  a == t.attempt  new == NewVersion(txn[s], j)
           decision == FailureOf(j, a)
           dead == decision.status = "DEAD_LETTERED" \/ ~(t.outcome # "permanent")
           after == t.outcome = "later"
<1>1. /\ j \in Jobs /\ a \in DOMAIN attempts[j] /\ WrittenBy(t) = {j}
      /\ AttemptRunning(j, a) /\ Owns(j, attempts[j][a].worker)
      /\ RowsClosed(t, j) = [attempts[j] EXCEPT ![a].status = ClosedAs[t.kind]]
  BY FinalizerDone, Zenon
<1>2. new = AfterFailure(decision, t.outcome) /\ ClosedAs[t.kind] = "FAILED"
  BY DEF NewVersion, ClosedAs
<1>3. /\ status' = [status EXCEPT ![j] = new.status]
      /\ retryCount' = [retryCount EXCEPT ![j] = new.retryCount]
      /\ new.runAt = "kept" => due' = due
      /\ new.runAt # "kept" => due' = [due EXCEPT ![j] = (new.runAt = "past")]
      /\ Unlock({j})
      /\ attempts' = [attempts EXCEPT ![j] = RowsClosed(t, j)]
      /\ new.status # "DEAD_LETTERED" => deadLetters' = deadLetters
      /\ new.status = "DEAD_LETTERED" => deadLetters' = [deadLetters EXCEPT ![j] = Append(@, NULL)]
      /\ events' = [events EXCEPT ![j] = EventsOf(t, new.status)]
      /\ UNCHANGED <<maxRetries, source>>
  <2>1. t.kind # "claim"
    OBVIOUS
  <2> QED
    BY <1>1, <2>1, CommitOne, Zenon
<1>4. EventsOf(t, new.status) =
         {"job.failed", IF new.status = "DEAD_LETTERED" THEN "job.dead_lettered" ELSE "job.retry_scheduled"}
  BY DEF EventsOf
<1>5. /\ new.status = IF dead THEN "DEAD_LETTERED" ELSE "RETRY_SCHEDULED"
      /\ new.retryCount = decision.nextRetryCount
      /\ new.runAt = IF dead THEN "kept"
                     ELSE IF ~after /\ decision.delay \in Elapsed THEN "past" ELSE "future"
  BY <1>2 DEF AfterFailure, Released
<1> HIDE DEF t, j, a, new, decision, dead, after
<1>6. attempts' = [attempts EXCEPT ![j][a].status = "FAILED"]
  BY <1>1, <1>2, <1>3, Zenon DEF TxnInv, StoreInv, TypeOK
<1>7. due' = [due EXCEPT ![j] = IF dead THEN due[j] ELSE ~after /\ decision.delay \in Elapsed]
  <2>1. due \in [Jobs -> BOOLEAN]
    BY DEF TxnInv, StoreInv, TypeOK
  <2>2. CASE dead
    BY <1>1, <1>3, <1>5, <2>1, <2>2
  <2>3. CASE ~dead /\ ~after /\ decision.delay \in Elapsed
    BY <1>1, <1>3, <1>5, <2>1, <2>3
  <2>4. CASE ~dead /\ ~(~after /\ decision.delay \in Elapsed)
    BY <1>1, <1>3, <1>5, <2>1, <2>4
  <2> QED
    BY <2>2, <2>3, <2>4
<1>8. deadLetters' = [deadLetters EXCEPT ![j] = IF dead THEN Append(@, NULL) ELSE @]
  <2>1. deadLetters \in [Jobs -> Seq(Jobs \cup {NULL})]
    BY DEF TxnInv, StoreInv, TypeOK
  <2>2. CASE dead
    BY <1>3, <1>5, <2>2
  <2>3. CASE ~dead
    BY <1>1, <1>3, <1>5, <2>1, <2>3
  <2> QED
    BY <2>2, <2>3
<1>9. /\ status' = [status EXCEPT ![j] = IF dead THEN "DEAD_LETTERED" ELSE "RETRY_SCHEDULED"]
      /\ retryCount' = [retryCount EXCEPT ![j] = decision.nextRetryCount]
      /\ events' = [events EXCEPT ![j] =
            {"job.failed", IF dead THEN "job.dead_lettered" ELSE "job.retry_scheduled"}]
  BY <1>3, <1>4, <1>5, Zenon
<1>10. FailExecution(j, a, t.outcome # "permanent", t.outcome = "later")
  BY <1>1, <1>3, <1>6, <1>7, <1>8, <1>9, Zenon DEF FailExecution, dead, after, decision
<1> QED
  BY <1>10 DEF j, a, t

\* The attempts of a job when a transaction that closes them all is done.
LEMMA AllClosed ==
    ASSUME TxnInv, StoreAssumption, NEW t \in Txn, Progress(t), ReadsHold(t),
           t.kind \in {"cancel", "recover"}, t.step = 3, NEW j \in WrittenBy(t)
    PROVE  RowsClosed(t, j) = CloseRunning(attempts[j], ClosedAs[t.kind])
<1>1. j \in Jobs /\ Unclosed(t) = {} /\ TypeOK /\ Len(attempts[j]) <= MaxAttempts
  BY DEF WrittenBy, Progress, TxnInv, StoreInv
<1>2. ASSUME NEW a \in DOMAIN attempts[j]
      PROVE  AttemptRow(j, a) \in t.closed <=> attempts[j][a].status = "RUNNING"
  <2>1. AttemptRow(j, a) \in Rows
    BY <1>1, AttemptRows
  <2>2. AttemptRow(j, a) \in t.closed => attempts[j][a].status = "RUNNING"
    BY DEF ReadsHold, AttemptRunning, AttemptRow
  <2>3. attempts[j][a].status = "RUNNING" /\ AttemptRow(j, a) \notin t.closed =>
           AttemptRow(j, a) \in Unclosed(t)
    BY <2>1 DEF Unclosed, AttemptRow, AttemptRunning
  <2> QED
    BY <1>1, <2>2, <2>3
<1> QED
  BY <1>2 DEF RowsClosed, CloseRunning

\* An operator's TransitionJob takes effect at its commit.
LEMMA CommitOperation ==
    ASSUME TxnInv, StoreAssumption, NEW s \in Sessions, Commit(s), txn[s].kind \in DOMAIN Operations
    PROVE  TransitionJob(txn[s].job, Operations[txn[s].kind].from, Operations[txn[s].kind].to)
<1> DEFINE t == txn[s]  j == t.job  new == NewVersion(txn[s], j)  to == Operations[t.kind].to
<1>1. t # NULL /\ t.step > 1 /\ (t.kind = "cancel" => t.step > 2)
  <2>1. /\ Len(Statements["cancel"]) = 2 /\ Len(Statements["pause"]) = 1
        /\ Len(Statements["resume"]) = 1 /\ Len(Statements["retry"]) = 1
    BY DEF Statements
  <2>2. t.kind \in {"cancel", "pause", "resume", "retry"}
    BY DEF Operations
  <2>3. t # NULL /\ t.step > Len(Statements[t.kind])
    BY DEF Commit, Done
  <2>4. t.step \in 1..3
    BY <2>3, OpenTxn DEF Txn
  <2>5. CASE t.kind = "cancel"
    <3>1. t.step > 2
      BY <2>1, <2>3, <2>5, Zenon
    <3>2. t.step > 1
      BY <2>4, <3>1
    <3> QED
      BY <2>3, <3>1, <3>2
  <2>6. CASE t.kind \in {"pause", "resume", "retry"}
    BY <2>1, <2>3, <2>4, <2>6, Zenon
  <2> QED
    BY <2>2, <2>5, <2>6
<1>2. t \in Txn /\ Progress(t) /\ ReadsHold(t)
  BY <1>1, OpenTxn
<1>3. j \in Jobs /\ WrittenBy(t) = {j} /\ status[j] \in Operations[t.kind].from
  BY <1>1, <1>2 DEF Progress, ReadsHold, JobMatches, Operations
<1>4. /\ new.status = to /\ new.retryCount = retryCount[j] /\ new.runAt = "kept"
      /\ EventsOf(t, to) = {TransitionEvent[to]} /\ to # "DEAD_LETTERED"
      /\ t.kind # "claim" /\ (to = "CANCELLED" <=> t.kind = "cancel")
  <2>1. t.kind \in {"cancel", "pause", "resume", "retry"}
    BY DEF Operations
  <2>2. to # "DEAD_LETTERED" /\ (to = "CANCELLED" <=> t.kind = "cancel")
    <3>1. CASE t.kind = "cancel"
      BY <3>1 DEF Operations
    <3>2. CASE t.kind = "pause"
      BY <3>2 DEF Operations
    <3>3. CASE t.kind = "resume"
      BY <3>3 DEF Operations
    <3>4. CASE t.kind = "retry"
      BY <3>4 DEF Operations
    <3> QED
      BY <2>1, <3>1, <3>2, <3>3, <3>4
  <2>3. t.kind \notin {"claim", "complete", "fail", "recover"}
    BY <2>1
  <2>4. new = Released(to, retryCount[j], "kept") /\ EventsOf(t, to) = {TransitionEvent[to]}
    BY <2>3 DEF NewVersion, EventsOf
  <2> HIDE DEF new, to
  <2>5. new.status = to /\ new.retryCount = retryCount[j] /\ new.runAt = "kept"
    BY <2>4 DEF Released
  <2> QED
    BY <2>2, <2>3, <2>4, <2>5, Zenon
<1>5. RowsClosed(t, j) = IF to = "CANCELLED" THEN CloseRunning(attempts[j], "CANCELLED") ELSE attempts[j]
  <2>1. CASE t.kind = "cancel"
    <3>1. t.step \in 1..3
      BY <1>2 DEF Txn
    <3>2. t.step = 3
      BY <1>1, <2>1, <3>1
    <3>3. ClosedAs[t.kind] = "CANCELLED"
      BY <2>1 DEF ClosedAs
    <3> QED
      BY <1>2, <1>3, <1>4, <2>1, <3>2, <3>3, AllClosed
  <2>2. CASE t.kind # "cancel"
    <3>1. t.closed = {} /\ TypeOK
      BY <1>2, <2>2, OperationProgress DEF TxnInv, StoreInv
    <3> QED
      BY <1>2, <1>3, <1>4, <2>2, <3>1, ClosedRows
  <2> QED
    BY <2>1, <2>2
<1>6. /\ status' = [status EXCEPT ![j] = new.status]
      /\ retryCount' = [retryCount EXCEPT ![j] = new.retryCount]
      /\ new.runAt = "kept" => due' = due
      /\ Unlock({j})
      /\ attempts' = [attempts EXCEPT ![j] = RowsClosed(t, j)]
      /\ new.status # "DEAD_LETTERED" => deadLetters' = deadLetters
      /\ events' = [events EXCEPT ![j] = EventsOf(t, new.status)]
      /\ UNCHANGED <<maxRetries, source>>
  BY <1>3, <1>4, CommitOne, Zenon
<1> HIDE DEF t, j, new, to
<1>7. retryCount' = retryCount
  BY <1>3, <1>4, <1>6 DEF TxnInv, StoreInv, TypeOK
<1>8. TransitionJob(j, Operations[t.kind].from, to)
  BY <1>3, <1>4, <1>5, <1>6, <1>7, Zenon DEF TransitionJob
<1> QED
  BY <1>8 DEF t, j, to

\* RecoverExpiredRunningJobs takes effect at its commit.
LEMMA CommitRecover ==
    ASSUME TxnInv, StoreAssumption, NEW s \in Sessions, Commit(s), txn[s].kind = "recover",
           WrittenBy(txn[s]) # {}
    PROVE  RecoverExpiredRunningJobs(WrittenBy(txn[s]))
<1> DEFINE t == txn[s]  S == WrittenBy(txn[s])
           decision(j) == DecideFailure(retryCount[j], maxRetries[j])
           dead(j) == decision(j).status = "DEAD_LETTERED"
<1>1. t # NULL /\ t.step > 2
  <2>1. Len(Statements["recover"]) = 2
    BY DEF Statements
  <2> QED
    BY <2>1 DEF Commit, Done
<1>2. t \in Txn /\ Progress(t) /\ ReadsHold(t) /\ TypeOK
  BY <1>1, OpenTxn DEF TxnInv, StoreInv
<1>3. t.step = 3 /\ ClosedAs[t.kind] = "FAILED" /\ t.kind # "claim"
  BY <1>1, <1>2 DEF Txn, ClosedAs
<1>4. \A j \in S : j \in Jobs /\ status[j] = "RUNNING" /\ lockedUntil[j] = "expired"
  BY <1>2 DEF ReadsHold, Selectable, WrittenBy
<1>5. \A j \in S : RowsClosed(t, j) = CloseRunning(attempts[j], "FAILED")
  BY <1>2, <1>3, AllClosed
<1>6. \A j \in Jobs : decision(j).status \in {"DEAD_LETTERED", "RETRY_SCHEDULED"}
  BY DEF DecideFailure
<1>7. ASSUME NEW j \in S
      PROVE  /\ NewVersion(t, j).status = decision(j).status
             /\ NewVersion(t, j).retryCount = decision(j).nextRetryCount
             /\ NewVersion(t, j).runAt = IF dead(j) THEN "kept"
                   ELSE IF decision(j).delay \in Elapsed THEN "past" ELSE "future"
  <2>1. NewVersion(t, j) = AfterFailure(decision(j), "retry")
    BY DEF NewVersion
  <2>2. decision(j).status \in {"DEAD_LETTERED", "RETRY_SCHEDULED"}
    BY <1>4, <1>6
  <2> HIDE DEF decision
  <2> QED
    BY <2>1, <2>2 DEF AfterFailure, Released
<1>8. \A x : EventsOf(t, x) = {IF x = "DEAD_LETTERED" THEN "job.dead_lettered" ELSE "job.retry_scheduled"}
  BY DEF EventsOf
<1> HIDE DEF decision
<1>9. ASSUME NEW j \in S
      PROVE  /\ status'[j] = decision(j).status /\ retryCount'[j] = decision(j).nextRetryCount
             /\ due'[j] = IF ~dead(j) THEN decision(j).delay \in Elapsed ELSE due[j]
             /\ deadLetters'[j] = IF dead(j) THEN Append(deadLetters[j], NULL) ELSE deadLetters[j]
             /\ events'[j] = {IF dead(j) THEN "job.dead_lettered" ELSE "job.retry_scheduled"}
             /\ attempts'[j] = CloseRunning(attempts[j], "FAILED")
  <2> DEFINE new == NewVersion(t, j)
  <2>1. /\ status'[j] = new.status /\ retryCount'[j] = new.retryCount
        /\ due'[j] = IF new.runAt # "kept" THEN new.runAt = "past" ELSE due[j]
        /\ deadLetters'[j] = IF new.status = "DEAD_LETTERED"
                             THEN Append(deadLetters[j], NULL) ELSE deadLetters[j]
        /\ events'[j] = EventsOf(t, new.status)
    <3>1. j \in Jobs /\ j \in WrittenBy(t)
      BY <1>4
    <3> QED
      BY <3>1, Committed, Zenon
  <2>2. attempts'[j] = RowsClosed(t, j)
    BY <1>3, <1>4 DEF Commit
  <2>3. /\ new.status = decision(j).status /\ new.retryCount = decision(j).nextRetryCount
        /\ new.runAt = IF dead(j) THEN "kept"
                       ELSE IF decision(j).delay \in Elapsed THEN "past" ELSE "future"
    BY <1>7
  <2> HIDE DEF new
  <2>4. due'[j] = IF ~dead(j) THEN decision(j).delay \in Elapsed ELSE due[j]
    <3>1. CASE dead(j)
      BY <2>1, <2>3, <3>1
    <3>2. CASE ~dead(j) /\ decision(j).delay \in Elapsed
      BY <2>1, <2>3, <3>2
    <3>3. CASE ~dead(j) /\ decision(j).delay \notin Elapsed
      BY <2>1, <2>3, <3>3
    <3> QED
      BY <3>1, <3>2, <3>3
  <2> QED
    BY <1>5, <1>8, <2>1, <2>2, <2>3, <2>4
<1>10. ASSUME NEW j \in Jobs, j \notin S
       PROVE  /\ status'[j] = status[j] /\ due'[j] = due[j]
              /\ retryCount'[j] = retryCount[j] /\ attempts'[j] = attempts[j]
              /\ deadLetters'[j] = deadLetters[j] /\ events'[j] = events[j]
  BY <1>10, Committed, Zenon
<1>11. Unlock(S)
  BY <1>3, CommitReleases
<1>12. S # {} /\ S \subseteq Jobs
  BY DEF WrittenBy
<1> HIDE DEF S
<1>13. /\ attempts' = [j \in Jobs |-> IF j \in S THEN CloseRunning(attempts[j], "FAILED") ELSE attempts[j]]
       /\ status' = [j \in Jobs |-> IF j \in S THEN decision(j).status ELSE status[j]]
       /\ retryCount' = [j \in Jobs |-> IF j \in S THEN decision(j).nextRetryCount ELSE retryCount[j]]
  BY <1>9, <1>10, CommittedTables
<1>14. due' = [j \in Jobs |-> IF j \in S /\ ~dead(j) THEN decision(j).delay \in Elapsed ELSE due[j]]
  BY <1>9, <1>10, CommittedTables
<1>15. deadLetters' = [j \in Jobs |->
          IF j \in S /\ dead(j) THEN Append(deadLetters[j], NULL) ELSE deadLetters[j]]
  BY <1>9, <1>10, CommittedTables, Zenon
<1>16. events' = [j \in Jobs |->
          IF j \in S THEN {IF dead(j) THEN "job.dead_lettered" ELSE "job.retry_scheduled"} ELSE events[j]]
  BY <1>9, <1>10, CommittedTables
<1>17. UNCHANGED <<maxRetries, source>>
  BY CommittedTables
<1>18. RecoverExpiredRunningJobs(S)
  BY <1>4, <1>11, <1>12, <1>13, <1>14, <1>15, <1>16, <1>17, Zenon DEF RecoverExpiredRunningJobs, decision
<1> QED
  BY <1>18 DEF S

\* RequeueDeadLetter takes effect at its commit: the dead letter that it locked is
\* not requeued yet and the identifier that it drew is still unused.
LEMMA CommitRequeueStep ==
    ASSUME TxnInv, NEW s \in Sessions, CommitRequeue(s)
    PROVE  /\ txn[s].job \in Jobs /\ txn[s].fresh \in Jobs /\ 1 \in DOMAIN deadLetters[txn[s].job]
           /\ RequeueDeadLetter(txn[s].job, 1, txn[s].fresh)
<1> DEFINE t == txn[s]
<1>1. /\ t # NULL /\ t.kind = "requeue" /\ t.step > 1
      /\ InsertJob(t.fresh, FALSE, RequeueMaxRetries, t.job, "job.requeued")
      /\ deadLetters' = [deadLetters EXCEPT ![t.job] = <<t.fresh>>]
  <2>1. Len(Statements["requeue"]) = 1
    BY DEF Statements
  <2> QED
    BY <2>1, Zenon DEF CommitRequeue, Done
<1>2. t \in Txn /\ Progress(t) /\ ReadsHold(t)
  BY <1>1, OpenTxn
<1>3. t.job \in Jobs /\ t.fresh \in Jobs /\ t.step \in 1..2
  BY <1>1, <1>2, RequeueProgress, Zenon
<1>4. deadLetters[t.job] = <<NULL>>
  <2>1. t.step = 2
    BY <1>1, <1>3
  <2> QED
    BY <1>1, <1>2, <2>1, Zenon DEF ReadsHold
<1>5. 1 \in DOMAIN deadLetters[t.job] /\ deadLetters[t.job][1] = NULL
  BY <1>4
<1>6. [deadLetters[t.job] EXCEPT ![1] = t.fresh] = <<t.fresh>>
  BY <1>4
<1>7. deadLetters' = [deadLetters EXCEPT ![t.job][1] = t.fresh]
  BY <1>1, <1>6, Zenon
<1> QED
  BY <1>1, <1>3, <1>5, <1>7, Zenon DEF RequeueDeadLetter

\* Every commit is a step of the job store, or writes nothing.
LEMMA CommitIsStep ==
    ASSUME TxnInv, StoreAssumption, NEW s \in Sessions, Commit(s)
    PROVE  [StoreNext]_storeVars
<1> DEFINE t == txn[s]
<1>1. t \in Txn /\ t.kind # "requeue"
  BY OpenTxn DEF Commit, Done
<1>2. WrittenBy(t) \in SUBSET Jobs
  BY DEF WrittenBy
<1>3. CASE t.kind = "claim"
  <2>1. CASE WrittenBy(t) = {}
    BY <2>1, CommitNothing
  <2>2. CASE WrittenBy(t) # {}
    BY <1>2, <1>3, <2>2, CommitClaim DEF StoreNext
  <2> QED
    BY <2>1, <2>2
<1>4. CASE t.kind = "recover"
  <2>1. CASE WrittenBy(t) = {}
    BY <2>1, CommitNothing
  <2>2. CASE WrittenBy(t) # {}
    BY <1>2, <1>4, <2>2, CommitRecover DEF StoreNext
  <2> QED
    BY <2>1, <2>2
<1>5. CASE t.kind = "complete"
  <2>1. t.job \in Jobs /\ t.attempt \in DOMAIN attempts[t.job]
    BY <1>5, FinalizerDone, Zenon
  <2>2. CompleteExecution(t.job, t.attempt)
    BY <1>5, CommitComplete
  <2> QED
    BY <2>1, <2>2 DEF StoreNext, JobNext
<1>6. CASE t.kind = "fail"
  <2>1. t.job \in Jobs /\ t.attempt \in DOMAIN attempts[t.job]
    BY <1>6, FinalizerDone, Zenon
  <2>2. /\ FailExecution(t.job, t.attempt, t.outcome # "permanent", t.outcome = "later")
        /\ (t.outcome # "permanent") \in BOOLEAN /\ (t.outcome = "later") \in BOOLEAN
    BY <1>6, CommitFail
  <2>3. \E a \in DOMAIN attempts[t.job], retryable, retryAfter \in BOOLEAN :
           FailExecution(t.job, a, retryable, retryAfter)
    BY <2>1, <2>2, Zenon
  <2>4. JobNext(t.job)
    BY <2>3, Zenon DEF JobNext
  <2> QED
    BY <2>1, <2>4 DEF StoreNext
<1>7. CASE t.kind \in DOMAIN Operations
  <2>1. t.job \in Jobs
    BY <1>7, OpenTxn, Zenon DEF Progress, Commit, Done
  <2>2. TransitionJob(t.job, Operations[t.kind].from, Operations[t.kind].to)
    BY <1>7, CommitOperation
  <2> QED
    BY <1>7, <2>1, <2>2 DEF StoreNext, JobNext
<1> QED
  BY <1>1, <1>3, <1>4, <1>5, <1>6, <1>7 DEF Txn, Statements, Operations

\* So is every other step.
LEMMA TxnStepIsStoreStep ==
    ASSUME TxnInv, StoreAssumption, [TxnNext]_txnVars
    PROVE  [StoreNext]_storeVars
<1>1. CASE UNCHANGED txnVars
  BY <1>1 DEF txnVars
<1>2. ASSUME NEW s \in Sessions, Begin(s) \/ Step(s) \/ Abort(s)
      PROVE  [StoreNext]_storeVars
  <2>1. CASE Commit(s)
    BY <2>1, CommitIsStep
  <2>2. CASE CommitRequeue(s)
    BY <2>2, CommitRequeueStep DEF StoreNext, JobNext
  <2>3. CASE Begin(s) \/ Abort(s) \/ Conflict(s)
    BY <2>3, Zenon DEF Begin, Open, Abort, Conflict, Rollback
  <2>4. CASE Update(s) \/ Select(s) \/ CloseAttempt(s) \/ AttemptsClosed(s)
    BY <2>4 DEF Update, Select, CloseAttempt, AttemptsClosed
  <2> QED
    BY <1>2, <2>1, <2>2, <2>3, <2>4 DEF Step
<1>3. ASSUME NEW j \in Jobs, CommitCreate(j)
      PROVE  [StoreNext]_storeVars
  BY <1>3 DEF CommitCreate, StoreNext, JobNext
<1>4. ASSUME NEW j \in Jobs, TimePasses(j)
      PROVE  [StoreNext]_storeVars
  BY <1>4 DEF TimePasses, StoreNext, JobNext
<1>5. ASSUME NEW j \in Jobs, NEW w \in Workers, Autocommit(j, w)
      PROVE  [StoreNext]_storeVars
  BY <1>5 DEF Autocommit, StoreNext, JobNext
<1> QED
  BY <1>1, <1>2, <1>3, <1>4, <1>5 DEF TxnNext
==============================================================================
