-------------------------- MODULE TransactionProofs --------------------------
(***************************************************************************)
(* Proofs about the repository's transactions, for any number of jobs,     *)
(* workers and sessions: the statements of one method, interleaved with    *)
(* those of any others, take effect as one step of the job store.          *)
(***************************************************************************)
EXTENDS TransactionIsolationProofs, JobStoreProofs

------------------------------------------------------------------------------
\* The own steps of a session.

\* A statement on one row keeps the invariant.
LEMMA UpdateInv ==
    ASSUME TxnInv, NEW s \in Sessions, Update(s)
    PROVE  SessionsInv'
<1> DEFINE t == txn[s]  n == Written(txn[s])  row == Target(txn[s])
<1>1. /\ t # NULL /\ t.step <= Len(Statements[t.kind]) /\ Statement(t) \in {"job", "attempt", "letter"}
      /\ Where(t) /\ lock[row] \in {NULL, s}
      /\ lock' = [lock EXCEPT ![row] = s] /\ txn' = [txn EXCEPT ![s] = n] /\ UNCHANGED storeVars
  BY DEF Update, Stands, SingleRow
<1>2. t \in Txn /\ Progress(t) /\ ReadsHold(t) /\ TxnTypeOK
  BY <1>1, OpenTxn DEF TxnInv
<1>3. HoldsLocks(s)
  BY LocksBySession DEF TxnInv
<1>4. \A j \in Jobs : JobRow(j) \in Rows /\ LetterRow(j) \in Rows
  <2>1. 1 \in Nat \ {0}
    OBVIOUS
  <2> QED
    BY <2>1, StoreAssumption, RowsAreApart
<1>5. ASSUME n \in Txn, Progress(n), ReadsHold(n), row \in Rows,
             \A j \in WrittenBy(n) : JobRow(j) = row \/ lock[JobRow(j)] = s,
             \A r \in n.closed : r = row \/ lock[r] = s,
             n.kind = "requeue" => /\ LetterRow(n.job) = row
                                   /\ \A u \in Sessions \ {s} : txn[u] # NULL => txn[u].fresh # n.fresh
      PROVE  SessionsInv'
  <2>1. lock' = [r \in Rows |-> IF r \in {row} THEN s ELSE lock[r]]
    <3>1. lock \in [Rows -> Sessions \cup {NULL}] /\ lock' = [lock EXCEPT ![row] = s]
      BY <1>1, <1>2 DEF TxnTypeOK
    <3> HIDE DEF row
    <3> QED
      BY <1>5, <3>1, LockOne, Zenon
  <2>2. {row} \in SUBSET Rows /\ \A r \in {row} : lock[r] \in {NULL, s}
    BY <1>1, <1>5
  <2> HIDE DEF n, row
  <2> QED
    BY <1>1, <1>5, <2>1, <2>2, OwnStep, Zenon
<1>6. CASE Statement(t) = "job"
  <2>1. row = JobRow(t.job) /\ JobMatches(t, t.job)
    BY <1>1, <1>6 DEF Target, Where
  <2>2. /\ n \in Txn /\ Progress(n) /\ ReadsHold(n) /\ n.kind # "requeue"
        /\ t.job \in Jobs /\ WrittenBy(n) = {t.job} /\ n.closed = t.closed
    BY <1>1, <1>2, <1>6, <2>1, UpdateJob, Zenon
  <2>3. \A r \in t.closed : lock[r] = s
    BY <1>1, <1>3 DEF HoldsLocks
  <2> QED
    BY <1>4, <1>5, <2>1, <2>2, <2>3, Zenon
<1>7. CASE Statement(t) = "attempt"
  <2>1. row = AttemptRow(t.job, t.attempt) /\ AttemptRunning(t.job, t.attempt)
    BY <1>1, <1>7 DEF Target, Where
  <2>2. /\ n \in Txn /\ Progress(n) /\ ReadsHold(n) /\ n.kind # "requeue"
        /\ WrittenBy(n) = WrittenBy(t) /\ n.closed = {row} /\ row \in Rows
    BY <1>1, <1>2, <1>7, <2>1, UpdateAttempt, Zenon
  <2>3. \A j \in WrittenBy(t) : lock[JobRow(j)] = s
    BY <1>1, <1>3 DEF HoldsLocks
  <2> QED
    BY <1>5, <2>2, <2>3, Zenon
<1>8. CASE Statement(t) = "letter"
  <2>1. row = LetterRow(t.job) /\ deadLetters[t.job] = <<NULL>>
    BY <1>1, <1>8 DEF Target, Where
  <2>2. /\ n \in Txn /\ Progress(n) /\ ReadsHold(n) /\ n.kind = "requeue" /\ n.job = t.job
        /\ WrittenBy(n) = {} /\ n.closed = {} /\ n.fresh = t.fresh /\ t.job \in Jobs
    BY <1>1, <1>2, <1>8, <2>1, UpdateLetter, Zenon
  <2>3. \A u \in Sessions \ {s} : txn[u] # NULL => txn[u].fresh # t.fresh
    <3>1. t.kind = "requeue"
      BY <1>1, <1>2, <1>8, StandsAt, Zenon
    <3> QED
      BY <1>1, <3>1 DEF TxnInv, RequeuesApart
  <2> QED
    BY <1>4, <1>5, <2>1, <2>2, <2>3, Zenon
<1> QED
  BY <1>1, <1>6, <1>7, <1>8

\* SELECT FOR UPDATE SKIP LOCKED keeps the invariant.
LEMMA SelectInv ==
    ASSUME TxnInv, NEW s \in Sessions, Select(s)
    PROVE  SessionsInv'
<1> DEFINE t == txn[s]
<1>1. t # NULL /\ t.step <= Len(Statements[t.kind]) /\ Statement(t) = "select" /\ UNCHANGED storeVars
  BY DEF Select, Stands
<1>2. PICK S \in SUBSET {j \in Jobs : Selectable(t, j) /\ lock[JobRow(j)] = NULL} :
          /\ t.kind = "claim" => Cardinality(S) <= BatchSize
          /\ lock' = [r \in Rows |-> IF r \in {JobRow(j) : j \in S} THEN s ELSE lock[r]]
          /\ txn' = [txn EXCEPT ![s].step = @ + 1,
                                ![s].columns = [j \in Jobs |-> IF j \in S THEN NewVersion(t, j) ELSE NULL]]
  BY DEF Select
<1> DEFINE columns == [j \in Jobs |-> IF j \in S THEN NewVersion(t, j) ELSE NULL]
           n == [t EXCEPT !.step = t.step + 1, !.columns = columns]
           R == {JobRow(j) : j \in S}
<1>3. t \in Txn /\ Progress(t) /\ TypeOK /\ TxnTypeOK
  BY <1>1, OpenTxn DEF TxnInv, StoreInv
<1>4. t.kind \in {"claim", "recover"} /\ t.step = 1
  BY <1>1, <1>3, StandsAt, Zenon
<1>5. /\ t.fresh = NULL /\ t.closed = {} /\ (t.kind = "claim" => t.worker \in Workers)
      /\ t.kind \notin DOMAIN Operations \cup {"requeue", "complete", "fail", "cancel", "pause", "resume", "retry"}
  <2>1. t.kind \notin DOMAIN Operations \cup {"requeue", "complete", "fail", "cancel", "pause", "resume", "retry"}
    BY <1>4 DEF Operations
  <2>2. t.kind = "recover" => t.closed = {}
    BY <1>3, <1>4, Zenon DEF Progress
  <2> QED
    BY <1>3, <1>4, <2>1, <2>2, Zenon DEF Progress
<1>6. \A j \in S : j \in Jobs /\ Selectable(t, j) /\ lock[JobRow(j)] = NULL
  OBVIOUS
<1>7. \A j \in S : NewVersion(t, j) \in Version /\ NewVersion(t, j) # NULL
  <2>1. \A j \in S : NewVersion(t, j) \in Version
    BY <1>3, <1>4, <1>5, <1>6, VersionType
  <2> QED
    BY <2>1, TxnAssumption
<1>8. columns \in [Jobs -> Version \cup {NULL}] /\ t.step + 1 \in 1..3
  BY <1>4, <1>7
<1>9. \A j \in Jobs : columns[j] # NULL <=> j \in S
  BY <1>7
<1>10. \A j \in S : columns[j] = NewVersion(t, j)
  BY <1>6
<1>11. txn' = [txn EXCEPT ![s] = n]
  BY <1>2, <1>3, Zenon DEF TxnTypeOK
<1> HIDE DEF columns
<1>12. n \in Txn
  BY <1>3, <1>8, Zenon DEF Txn
<1>13. /\ n.kind = t.kind /\ n.step = 2 /\ n.worker = t.worker /\ n.attempt = t.attempt
       /\ n.outcome = t.outcome /\ n.fresh = NULL /\ n.closed = {} /\ n.columns = columns
  BY <1>3, <1>4, <1>5 DEF Txn
<1> HIDE DEF n
<1>14. WrittenBy(n) = S
  BY <1>6, <1>9, <1>13 DEF WrittenBy
<1>15. Progress(n)
  <2>1. n.step <= Len(Statements[n.kind]) + 1 /\ n.step # 1 /\ n.step # 3
    BY <1>4, <1>13 DEF Statements
  <2> QED
    BY <1>2, <1>4, <1>5, <1>13, <1>14, <2>1, Zenon DEF Progress
<1>16. ReadsHold(n)
  <2>1. \A j : NewVersion(n, j) = NewVersion(t, j) /\ Selectable(n, j) = Selectable(t, j)
    BY <1>13, SameArguments
  <2>2. \A j \in S : n.columns[j] = NewVersion(n, j) /\ Selectable(n, j)
    BY <1>6, <1>10, <1>13, <2>1
  <2> QED
    BY <1>4, <1>5, <1>13, <1>14, <2>2, Zenon DEF ReadsHold
<1>17. R \in SUBSET Rows /\ \A r \in R : lock[r] \in {NULL, s}
  <2>1. 1 \in Nat \ {0}
    OBVIOUS
  <2> QED
    BY <1>6, <2>1, StoreAssumption, RowsAreApart
<1>18. (\A j \in WrittenBy(n) : JobRow(j) \in R) /\ lock' = [r \in Rows |-> IF r \in R THEN s ELSE lock[r]]
  BY <1>2, <1>14
<1> HIDE DEF R
<1> QED
  BY <1>1, <1>5, <1>11, <1>12, <1>13, <1>15, <1>16, <1>17, <1>18, OwnStep, Zenon

\* Closing one of them keeps the invariant.
LEMMA CloseAttemptInv ==
    ASSUME TxnInv, NEW s \in Sessions, CloseAttempt(s)
    PROVE  SessionsInv'
<1> DEFINE t == txn[s]
<1>1. t # NULL /\ t.step <= Len(Statements[t.kind]) /\ Statement(t) = "attempts" /\ UNCHANGED storeVars
  BY DEF CloseAttempt, Stands
<1>2. PICK r \in Unclosed(t) : /\ lock[r] = NULL /\ lock' = [lock EXCEPT ![r] = s]
                               /\ txn' = [txn EXCEPT ![s].closed = @ \cup {r}]
  BY Zenon DEF CloseAttempt
<1> DEFINE closed == t.closed \cup {r}
           n == [t EXCEPT !.closed = closed]
<1>3. t \in Txn /\ Progress(t) /\ ReadsHold(t) /\ TxnTypeOK
  BY <1>1, OpenTxn DEF TxnInv
<1>4. t.kind \in {"cancel", "recover"} /\ t.step = 2
  BY <1>1, <1>3, StandsAt, Zenon
<1>5. r \in Rows /\ r[1] \in WrittenBy(t) /\ AttemptRunning(r[1], r[2])
  BY DEF Unclosed
<1>6. closed \in SUBSET Rows /\ \A q \in closed : r = q \/ q \in t.closed
  BY <1>3, <1>5 DEF Txn
<1>7. txn' = [txn EXCEPT ![s] = n]
  BY <1>2, <1>3, Zenon DEF TxnTypeOK
<1>8. \A q \in closed : q[1] \in WrittenBy(t) /\ AttemptRunning(q[1], q[2])
  BY <1>3, <1>4, <1>5, <1>6, ClosedSoFar, Zenon
<1> HIDE DEF closed
<1>9. n \in Txn
  BY <1>3, <1>6, Zenon DEF Txn
<1>10. /\ n.kind = t.kind /\ n.step = 2 /\ n.job = t.job /\ n.worker = t.worker /\ n.attempt = t.attempt
       /\ n.outcome = t.outcome /\ n.fresh = t.fresh /\ n.closed = closed /\ n.columns = t.columns
  BY <1>3, <1>4 DEF Txn
<1> HIDE DEF n
<1>11. n.step \in {2, 3} /\ n.step # 3
  BY <1>10
<1>12. Progress(n) /\ ReadsHold(n) /\ WrittenBy(n) = WrittenBy(t) /\ n.kind # "requeue"
  BY <1>3, <1>4, <1>8, <1>9, <1>10, <1>11, CloserIs, Zenon
<1>13. HoldsLocks(s)
  BY LocksBySession DEF TxnInv
<1>14. /\ \A j \in WrittenBy(n) : lock[JobRow(j)] = s
       /\ \A q \in n.closed : q \in {r} \/ lock[q] = s
  BY <1>1, <1>6, <1>10, <1>12, <1>13 DEF HoldsLocks
<1>15. lock' = [q \in Rows |-> IF q \in {r} THEN s ELSE lock[q]] /\ {r} \in SUBSET Rows
  <2>1. lock \in [Rows -> Sessions \cup {NULL}] /\ lock' = [lock EXCEPT ![r] = s]
    BY <1>2, <1>3 DEF TxnTypeOK
  <2>2. r \in Rows
    BY <1>5
  <2> QED
    BY <2>1, <2>2, LockOne, Zenon
<1>16. \A q \in {r} : lock[q] \in {NULL, s}
  BY <1>2
<1> QED
  BY <1>1, <1>7, <1>9, <1>12, <1>14, <1>15, <1>16, OwnStep, Zenon

\* When none is left the statement is over.
LEMMA AttemptsClosedInv ==
    ASSUME TxnInv, NEW s \in Sessions, AttemptsClosed(s)
    PROVE  SessionsInv'
<1> DEFINE t == txn[s]  n == [t EXCEPT !.step = 3]
<1>1. /\ t # NULL /\ t.step <= Len(Statements[t.kind]) /\ Statement(t) = "attempts"
      /\ UNCHANGED <<storeVars, lock>> /\ Unclosed(t) = {} /\ txn' = [txn EXCEPT ![s].step = @ + 1]
  BY DEF AttemptsClosed, Stands
<1>2. t \in Txn /\ Progress(t) /\ ReadsHold(t) /\ TxnTypeOK
  BY <1>1, OpenTxn DEF TxnInv
<1>3. t.kind \in {"cancel", "recover"} /\ t.step = 2
  BY <1>1, <1>2, StandsAt, Zenon
<1>4. txn' = [txn EXCEPT ![s] = n]
  BY <1>1, <1>2, <1>3 DEF TxnTypeOK
<1>5. n \in Txn
  <2>1. 3 \in 1..3
    OBVIOUS
  <2> QED
    BY <1>2, <2>1, Zenon DEF Txn
<1>6. /\ n.kind = t.kind /\ n.step = 3 /\ n.job = t.job /\ n.worker = t.worker /\ n.attempt = t.attempt
      /\ n.outcome = t.outcome /\ n.fresh = t.fresh /\ n.closed = t.closed /\ n.columns = t.columns
  BY <1>2 DEF Txn
<1> HIDE DEF n
<1>7. Unclosed(n) = {}
  BY <1>1, <1>6 DEF Unclosed, WrittenBy
<1>8. n.step \in {2, 3} /\ \A r \in n.closed : r[1] \in WrittenBy(t) /\ AttemptRunning(r[1], r[2])
  BY <1>2, <1>3, <1>6, ClosedSoFar
<1>9. Progress(n) /\ ReadsHold(n) /\ WrittenBy(n) = WrittenBy(t) /\ n.kind # "requeue"
  BY <1>2, <1>3, <1>5, <1>6, <1>7, <1>8, CloserIs, Zenon
<1>10. HoldsLocks(s)
  BY LocksBySession DEF TxnInv
<1>11. /\ \A j \in WrittenBy(n) : lock[JobRow(j)] = s
       /\ \A r \in n.closed : lock[r] = s
  BY <1>1, <1>6, <1>9, <1>10 DEF HoldsLocks
<1>12. lock' = [r \in Rows |-> IF r \in {} THEN s ELSE lock[r]] /\ {} \in SUBSET Rows
  BY <1>1, <1>2 DEF TxnTypeOK
<1> QED
  BY <1>1, <1>4, <1>5, <1>9, <1>11, <1>12, OwnStep, Zenon

------------------------------------------------------------------------------
\* The inductive invariant.

\* A step that ends the transaction of s keeps the others' part of the invariant.
LEMMA EndsInv ==
    ASSUME TxnInv, NEW s \in Sessions, Ends(s),
           \A u \in Sessions \ {s} : txn[u] # NULL => Kept(u)
    PROVE  SessionsInv'
<1>1. TxnTypeOK' /\ LocksMatchWrites' /\ RequeuesApart'
  BY EndsLocks
<1>2. txn'[s] = NULL /\ \A u \in Sessions : u # s => txn'[u] = txn[u]
  BY DEF TxnInv, TxnTypeOK, Ends
<1>3. ASSUME NEW u \in Sessions
      PROVE  SessionInv(u)'
  <2>1. CASE u = s
    BY <1>2, <2>1 DEF SessionInv
  <2>2. CASE u # s
    BY <1>2, <2>2, SessionStays
  <2> QED
    BY <2>1, <2>2
<1> QED
  BY <1>1, <1>3 DEF SessionsInv

\* So does a step of no session.
LEMMA NoSessionInv ==
    ASSUME TxnInv, UNCHANGED <<lock, txn>>, \A u \in Sessions : txn[u] # NULL => Kept(u)
    PROVE  SessionsInv'
<1>1. TxnTypeOK /\ LocksMatchWrites /\ RequeuesApart
  BY DEF TxnInv
<1>2. TxnTypeOK'
  BY <1>1 DEF TxnTypeOK
<1>3. /\ \A r \in Rows : lock[r] # NULL => txn[lock[r]] # NULL
      /\ \A s \in Sessions : HoldsLocks(s)
      /\ \A s, u \in Sessions : txn[s] # NULL /\ txn[u] # NULL /\ s # u /\ txn[s].kind = "requeue"
            => txn[u].fresh # txn[s].fresh
  BY <1>1, LocksBySession
<1>4. \A s \in Sessions : HoldsLocks(s)'
  <2>1. \A s \in Sessions : WrittenBy(txn[s])' = WrittenBy(txn[s])
    BY DEF WrittenBy
  <2> QED
    BY <1>3, <2>1 DEF HoldsLocks
<1>5. LocksMatchWrites' /\ RequeuesApart'
  BY <1>3, <1>4, LocksFromSessions
<1>6. \A u \in Sessions : SessionInv(u)'
  BY SessionStays
<1> QED
  BY <1>2, <1>5, <1>6 DEF SessionsInv

\* Every step of a session, and every other step, keeps it.
LEMMA NextSessions ==
    ASSUME TxnInv, TxnNext
    PROVE  SessionsInv'
<1>1. ASSUME NEW s \in Sessions, Begin(s) \/ Step(s) \/ Abort(s)
      PROVE  SessionsInv'
  <2>1. CASE Begin(s)
    BY <2>1, BeginInv
  <2>2. CASE Update(s) \/ Select(s) \/ CloseAttempt(s) \/ AttemptsClosed(s)
    BY <2>2, UpdateInv, SelectInv, CloseAttemptInv, AttemptsClosedInv
  <2>3. CASE Abort(s) \/ Conflict(s)
    <3>1. Ends(s) /\ UNCHANGED storeVars
      BY <2>3 DEF Abort, Conflict, Rollback
    <3> QED
      BY <3>1, KeptUnchanged, EndsInv
  <2>4. CASE Commit(s)
    <3>1. Ends(s)
      BY <2>4 DEF Commit
    <3> QED
      BY <2>4, <3>1, KeptByCommit, EndsInv
  <2>5. CASE CommitRequeue(s)
    <3>1. Ends(s)
      BY <2>5 DEF CommitRequeue
    <3> QED
      BY <2>5, <3>1, StoreAssumption, KeptByRequeue, EndsInv
  <2> QED
    BY <1>1, <2>1, <2>2, <2>3, <2>4, <2>5 DEF Step
<1>2. ASSUME NEW j \in Jobs, CommitCreate(j)
      PROVE  SessionsInv'
  <2>1. UNCHANGED <<lock, txn>>
    BY <1>2 DEF CommitCreate
  <2> QED
    BY <1>2, <2>1, KeptByCreate, NoSessionInv
<1>3. ASSUME NEW j \in Jobs, TimePasses(j)
      PROVE  SessionsInv'
  <2>1. UNCHANGED <<lock, txn>>
    BY <1>3 DEF TimePasses
  <2> QED
    BY <1>3, <2>1, KeptByTime, NoSessionInv
<1>4. ASSUME NEW j \in Jobs, NEW w \in Workers, Autocommit(j, w)
      PROVE  SessionsInv'
  <2>1. UNCHANGED <<lock, txn>>
    BY <1>4 DEF Autocommit
  <2> QED
    BY <1>4, <2>1, KeptByAutocommit, NoSessionInv
<1> QED
  BY <1>1, <1>2, <1>3, <1>4 DEF TxnNext

\* Only the commit of a claim inserts attempts, at most one of each job, and the
\* jobs that it has selected had room for it.
LEMMA NextAttempts ==
    ASSUME TxnInv, TxnNext, NEW j \in Jobs
    PROVE  Len(attempts'[j]) <= MaxAttempts
<1>1. Len(attempts[j]) <= MaxAttempts /\ TypeOK
  BY DEF TxnInv, StoreInv
<1>2. ASSUME NEW s \in Sessions, Commit(s)
      PROVE  Len(attempts'[j]) <= MaxAttempts
  <2> DEFINE t == txn[s]
  <2>1. t # NULL
    BY <1>2 DEF Commit, Done
  <2>2. t \in Txn /\ Progress(t) /\ ReadsHold(t)
    BY <2>1, OpenTxn
  <2>3. RowsClosed(t, j) \in Seq(Attempt) /\ Len(RowsClosed(t, j)) = Len(attempts[j])
    BY <1>1, <2>2, ClosedRows, Zenon
  <2>4. CASE t.kind = "claim" /\ j \in WrittenBy(t)
    <3>1. attempts'[j] = Append(RowsClosed(t, j), RowStarted(t, j))
      BY <1>1, <1>2, <2>2, <2>4, CommittedAttempts, Zenon
    <3>2. Len(attempts'[j]) = Len(attempts[j]) + 1 /\ Len(attempts[j]) \in Nat
      BY <2>3, <3>1, LenProperties
    <3>3. Selectable(t, j)
      BY <2>2, <2>4, Zenon DEF ReadsHold
    <3>4. Len(attempts[j]) < MaxAttempts
      BY <2>4, <3>3 DEF Selectable
    <3> QED
      BY <3>2, <3>4, StoreAssumption DEF StoreAssumption
  <2>5. CASE ~(t.kind = "claim" /\ j \in WrittenBy(t))
    <3>1. attempts'[j] \in {attempts[j], RowsClosed(t, j)}
      BY <1>1, <1>2, <2>2, <2>5, CommittedAttempts, Zenon
    <3> QED
      BY <1>1, <2>3, <3>1
  <2> QED
    BY <2>4, <2>5
<1>3. CASE UNCHANGED attempts
  BY <1>1, <1>3
<1>4. ASSUME NEW s \in Sessions, Begin(s) \/ Step(s) \/ Abort(s), ~Commit(s)
      PROVE  UNCHANGED attempts
  <2>1. CASE Begin(s)
    BY <2>1, Zenon DEF Begin, Open, storeVars
  <2>2. CASE Update(s) \/ Select(s) \/ CloseAttempt(s) \/ AttemptsClosed(s)
    BY <2>2, Zenon DEF Update, Select, CloseAttempt, AttemptsClosed, storeVars
  <2>3. CASE Abort(s) \/ Conflict(s)
    BY <2>3, Zenon DEF Abort, Conflict, Rollback, storeVars
  <2>4. CASE CommitRequeue(s)
    BY <2>4, Zenon DEF CommitRequeue, InsertJob
  <2> QED
    BY <1>4, <2>1, <2>2, <2>3, <2>4, Zenon DEF Step
<1>5. ASSUME NEW i \in Jobs, CommitCreate(i) \/ TimePasses(i) \/ \E w \in Workers : Autocommit(i, w)
      PROVE  UNCHANGED attempts
  <2>1. CASE CommitCreate(i)
    BY <2>1, Zenon DEF CommitCreate, Create, InsertJob
  <2>2. CASE TimePasses(i)
    BY <2>2, Zenon DEF TimePasses, LeaseExpires, BecomesDue
  <2>3. CASE \E w \in Workers : Autocommit(i, w)
    BY <2>3, Zenon DEF Autocommit, ExtendLease, ReleaseClaim
  <2> QED
    BY <1>5, <2>1, <2>2, <2>3
<1> QED
  BY <1>2, <1>3, <1>4, <1>5, Zenon DEF TxnNext

\* The empty tables, with no transaction open, satisfy the inductive invariant.
LEMMA TxnInitInv == TxnInit => TxnInv
<1> SUFFICES ASSUME TxnInit PROVE TxnInv
  OBVIOUS
<1>1. StoreInv
  BY StoreAssumption, InitInv DEF TxnInit
<1>2. \A r \in Rows : lock[r] = NULL
  BY DEF TxnInit
<1>3. \A s \in Sessions : txn[s] = NULL
  BY DEF TxnInit
<1>4. TxnTypeOK
  BY DEF TxnInit, TxnTypeOK
<1>5. LocksMatchWrites /\ RequeuesApart
  BY <1>2, <1>3, Zenon DEF LocksMatchWrites, RequeuesApart
<1>6. \A s \in Sessions : SessionInv(s)
  BY <1>3 DEF SessionInv
<1>7. \A j \in Jobs : Len(attempts[j]) <= MaxAttempts
  <2>1. MaxAttempts \in Nat
    BY StoreAssumption DEF StoreAssumption
  <2>2. \A j \in Jobs : attempts[j] = <<>>
    BY DEF TxnInit, StoreInit
  <2> QED
    BY <2>1, <2>2
<1> QED
  BY <1>1, <1>4, <1>5, <1>6, <1>7 DEF TxnInv

\* Every statement, every commit and rollback, and every step of the clock
\* preserves it.
LEMMA TxnNextInv ==
    ASSUME TxnInv, [TxnNext]_txnVars
    PROVE  TxnInv'
<1>1. [StoreNext]_storeVars
  BY StoreAssumption, TxnStepIsStoreStep
<1>2. StoreInv'
  BY <1>1, StoreAssumption, NextInv DEF TxnInv
<1>3. SessionsInv'
  <2>1. CASE UNCHANGED txnVars
    <3>1. UNCHANGED storeVars /\ UNCHANGED <<lock, txn>>
      BY <2>1 DEF txnVars
    <3> QED
      BY <3>1, KeptUnchanged, NoSessionInv
  <2> QED
    BY <2>1, NextSessions
<1>4. ASSUME NEW j \in Jobs
      PROVE  Len(attempts'[j]) <= MaxAttempts
  <2>1. CASE UNCHANGED txnVars
    BY <2>1 DEF TxnInv, txnVars, storeVars
  <2> QED
    BY <2>1, NextAttempts
<1> QED
  BY <1>2, <1>3, <1>4 DEF TxnInv, SessionsInv

------------------------------------------------------------------------------
\* The theorems.

\* In every interleaving of statements the tables satisfy the invariant of the job
\* store, and what the earlier statements of an open transaction have read or
\* matched holds until it ends.
THEOREM TransactionsCorrect == TxnSpec => []TxnInv
  BY TxnInitInv, TxnNextInv, PTL DEF TxnSpec

\* Every path out of a repository method releases its locks, and no transaction
\* loses one before it ends, for any number of sessions, jobs and workers.
THEOREM LocksAreReleased == TxnSpec => []LocksMatchWrites
<1>1. TxnInv => LocksMatchWrites
  BY DEF TxnInv
<1> QED
  BY <1>1, TransactionsCorrect, PTL

\* The repository's transactions at READ COMMITTED implement the job store: each
\* takes effect as one step, at its commit, whatever the other sessions do between
\* its statements.
THEOREM TransactionsImplementStore == TxnSpec => ImplementsStore
<1>1. TxnInit => StoreInit
  BY DEF TxnInit
<1>2. TxnInv /\ [TxnNext]_txnVars => [StoreNext]_storeVars
  BY StoreAssumption, TxnStepIsStoreStep
<1> QED
  BY <1>1, <1>2, TransactionsCorrect, PTL DEF TxnSpec, ImplementsStore, StoreSpec

------------------------------------------------------------------------------
\* Deadlocks.

\* A session that goes on from its transaction to t keeps what it has locked.
LEMMA LocksGrow ==
    ASSUME TxnTypeOK, LocksAreWrites, NEW s \in Sessions, NEW t, t # NULL, NEW R \in SUBSET Rows,
           txn' = [txn EXCEPT ![s] = t],
           lock' = [r \in Rows |-> IF r \in R THEN s ELSE lock[r]],
           R \subseteq LockedBy(t), txn[s] # NULL => LockedBy(txn[s]) \subseteq LockedBy(t)
    PROVE  LocksAreWrites'
<1>1. txn'[s] = t /\ \A u \in Sessions : u # s => txn'[u] = txn[u]
  BY DEF TxnTypeOK
<1>2. \A u \in Sessions : LockedBy(txn[u])' = LockedBy(txn'[u])
  BY DEF LockedBy, WrittenBy
<1>3. ASSUME NEW r \in Rows, NEW u \in Sessions, lock'[r] = u
      PROVE  txn'[u] # NULL /\ r \in LockedBy(txn'[u])
  <2>1. lock[r] = u => txn[u] # NULL /\ r \in LockedBy(txn[u])
    BY DEF LocksAreWrites
  <2>2. CASE u = s
    BY <1>1, <1>3, <2>1, <2>2
  <2>3. CASE u # s
    BY <1>1, <1>3, <2>1, <2>3
  <2> QED
    BY <2>2, <2>3
<1> QED
  BY <1>2, <1>3 DEF LocksAreWrites

\* The end of a transaction leaves none of its locks.
LEMMA LocksEnd ==
    ASSUME TxnTypeOK, LocksAreWrites, NEW s \in Sessions, Ends(s)
    PROVE  LocksAreWrites'
<1>1. /\ \A u \in Sessions : u # s => txn'[u] = txn[u]
      /\ lock' = [r \in Rows |-> IF lock[r] = s THEN NULL ELSE lock[r]]
  BY DEF TxnTypeOK, Ends
<1>2. \A u \in Sessions : LockedBy(txn[u])' = LockedBy(txn'[u])
  BY DEF LockedBy, WrittenBy
<1>3. ASSUME NEW r \in Rows, NEW u \in Sessions, lock'[r] = u
      PROVE  txn'[u] # NULL /\ r \in LockedBy(txn'[u])
  <2>1. u # NULL /\ u # s /\ lock[r] = u
    BY <1>1, <1>3, TxnAssumption
  <2> QED
    BY <1>1, <2>1 DEF LocksAreWrites
<1> QED
  BY <1>2, <1>3 DEF LocksAreWrites

\* A statement on one row locks the row it writes or selects.
LEMMA UpdateLocks ==
    ASSUME TxnInv, LocksAreWrites, NEW s \in Sessions, Update(s)
    PROVE  LocksAreWrites'
<1> DEFINE t == txn[s]  n == Written(txn[s])  row == Target(txn[s])
<1>1. /\ t # NULL /\ t.step <= Len(Statements[t.kind]) /\ Statement(t) \in {"job", "attempt", "letter"}
      /\ Where(t) /\ lock' = [lock EXCEPT ![row] = s] /\ txn' = [txn EXCEPT ![s] = n]
  BY DEF Update, Stands, SingleRow
<1>2. t \in Txn /\ Progress(t) /\ ReadsHold(t) /\ TxnTypeOK
  BY <1>1, OpenTxn DEF TxnInv
<1>3. \A j \in Jobs : JobRow(j) \in Rows /\ LetterRow(j) \in Rows
  <2>1. 1 \in Nat \ {0}
    OBVIOUS
  <2> QED
    BY <2>1, StoreAssumption, RowsAreApart
<1>4. n \in Txn /\ row \in Rows /\ row \in LockedBy(n) /\ LockedBy(t) \subseteq LockedBy(n)
  <2>1. CASE Statement(t) = "job"
    <3>1. row = JobRow(t.job) /\ JobMatches(t, t.job)
      BY <1>1, <2>1 DEF Target, Where
    <3>2. /\ n \in Txn /\ n.kind # "requeue" /\ t.job \in Jobs
          /\ WrittenBy(n) = {t.job} /\ n.closed = t.closed /\ WrittenBy(t) = {}
      BY <1>1, <1>2, <2>1, <3>1, UpdateJob, Zenon
    <3>3. t.kind # "requeue"
      <4>1. "requeue" \notin DOMAIN Operations
        BY DEF Operations
      <4> QED
        BY <1>1, <1>2, <2>1, <4>1, StandsAt, Zenon
    <3> HIDE DEF t, n, row
    <3> QED
      BY <1>3, <3>1, <3>2, <3>3 DEF LockedBy
  <2>2. CASE Statement(t) = "attempt"
    <3>1. row = AttemptRow(t.job, t.attempt) /\ AttemptRunning(t.job, t.attempt)
      BY <1>1, <2>2 DEF Target, Where
    <3>2. /\ n \in Txn /\ n.kind # "requeue" /\ WrittenBy(n) = WrittenBy(t)
          /\ n.closed = {row} /\ row \in Rows /\ t.closed = {}
      BY <1>1, <1>2, <2>2, <3>1, UpdateAttempt, Zenon
    <3>3. t.kind # "requeue"
      BY <1>1, <1>2, <2>2, StandsAt, Zenon
    <3> HIDE DEF t, n, row
    <3> QED
      BY <3>2, <3>3 DEF LockedBy
  <2>3. CASE Statement(t) = "letter"
    <3>1. row = LetterRow(t.job) /\ deadLetters[t.job] = <<NULL>>
      BY <1>1, <2>3 DEF Target, Where
    <3>2. /\ n \in Txn /\ n.kind = "requeue" /\ n.job = t.job /\ n.step = 2 /\ t.job \in Jobs
          /\ WrittenBy(t) = {} /\ t.closed = {} /\ t.step = 1
      BY <1>1, <1>2, <2>3, <3>1, UpdateLetter, Zenon
    <3> HIDE DEF t, n, row
    <3> QED
      BY <1>3, <3>1, <3>2 DEF LockedBy
  <2> QED
    BY <1>1, <2>1, <2>2, <2>3
<1>5. lock' = [r \in Rows |-> IF r \in {row} THEN s ELSE lock[r]]
  <2>1. lock \in [Rows -> Sessions \cup {NULL}] /\ lock' = [lock EXCEPT ![row] = s]
    BY <1>1, <1>2 DEF TxnTypeOK
  <2> HIDE DEF row
  <2> QED
    BY <1>4, <2>1, LockOne, Zenon
<1>6. n # NULL /\ {row} \in SUBSET Rows /\ {row} \subseteq LockedBy(n)
  BY <1>4, TxnAssumption
<1> HIDE DEF n, row
<1> QED
  BY <1>1, <1>2, <1>4, <1>5, <1>6, LocksGrow, Zenon

\* SELECT FOR UPDATE SKIP LOCKED locks what it selects.
LEMMA SelectLocks ==
    ASSUME TxnInv, LocksAreWrites, NEW s \in Sessions, Select(s)
    PROVE  LocksAreWrites'
<1> DEFINE t == txn[s]
<1>1. t # NULL /\ t.step <= Len(Statements[t.kind]) /\ Statement(t) = "select"
  BY DEF Select, Stands
<1>2. PICK S \in SUBSET {j \in Jobs : Selectable(t, j) /\ lock[JobRow(j)] = NULL} :
          /\ lock' = [r \in Rows |-> IF r \in {JobRow(j) : j \in S} THEN s ELSE lock[r]]
          /\ txn' = [txn EXCEPT ![s].step = @ + 1,
                                ![s].columns = [j \in Jobs |-> IF j \in S THEN NewVersion(t, j) ELSE NULL]]
  BY Zenon DEF Select
<1> DEFINE columns == [j \in Jobs |-> IF j \in S THEN NewVersion(t, j) ELSE NULL]
           n == [t EXCEPT !.step = t.step + 1, !.columns = columns]
           R == {JobRow(j) : j \in S}
<1>3. t \in Txn /\ Progress(t) /\ TypeOK /\ TxnTypeOK
  BY <1>1, OpenTxn DEF TxnInv, StoreInv
<1>4. t.kind \in {"claim", "recover"} /\ t.step = 1
  BY <1>1, <1>3, StandsAt, Zenon
<1>5. WrittenBy(t) = {} /\ (t.kind = "claim" => t.worker \in Workers)
  BY <1>3, <1>4, Zenon DEF Progress
<1>6. t.kind = "recover" => t.closed = {}
  BY <1>3, <1>4, <1>5, Zenon DEF Progress
<1>7. t.kind = "claim" => t.closed = {}
  BY <1>3, Zenon DEF Progress
<1>8. LockedBy(t) = {}
  BY <1>4, <1>5, <1>6, <1>7 DEF LockedBy
<1>9. \A j \in S : j \in Jobs /\ NewVersion(t, j) \in Version /\ NewVersion(t, j) # NULL
  <2>1. t.kind # "fail" /\ t.kind # "requeue"
    BY <1>4
  <2>2. \A j \in S : NewVersion(t, j) \in Version
    BY <1>3, <1>5, <2>1, VersionType
  <2> QED
    BY <2>2, TxnAssumption
<1>10. /\ \A j \in S : columns[j] # NULL
       /\ columns \in [Jobs -> Version \cup {NULL}] /\ t.step + 1 \in 1..3
  BY <1>4, <1>9
<1>11. txn' = [txn EXCEPT ![s] = n]
  BY <1>2, <1>3, Zenon DEF TxnTypeOK
<1> HIDE DEF columns
<1>12. n \in Txn
  BY <1>3, <1>10, Zenon DEF Txn
<1>13. n.columns = columns
  BY <1>3 DEF Txn
<1> HIDE DEF n
<1>14. R \in SUBSET Rows
  <2>1. 1 \in Nat \ {0}
    OBVIOUS
  <2> QED
    BY <1>9, <2>1, StoreAssumption, RowsAreApart
<1>15. R \subseteq LockedBy(n)
  BY <1>9, <1>10, <1>13 DEF LockedBy, WrittenBy
<1>16. n # NULL /\ LockedBy(t) \subseteq LockedBy(n)
  BY <1>8, <1>12, TxnAssumption
<1>17. lock' = [r \in Rows |-> IF r \in R THEN s ELSE lock[r]]
  BY <1>2
<1> HIDE DEF R
<1> QED
  BY <1>3, <1>11, <1>14, <1>15, <1>16, <1>17, LocksGrow, Zenon

\* So does the UPDATE that closes the attempts of jobs.
LEMMA CloseLocks ==
    ASSUME TxnInv, LocksAreWrites, NEW s \in Sessions, CloseAttempt(s) \/ AttemptsClosed(s)
    PROVE  LocksAreWrites'
<1> DEFINE t == txn[s]
<1>1. t # NULL /\ t.step <= Len(Statements[t.kind]) /\ Statement(t) = "attempts"
  BY DEF CloseAttempt, AttemptsClosed, Stands
<1>2. t \in Txn /\ TxnTypeOK
  BY <1>1, OpenTxn DEF TxnInv
<1>3. t.kind \in {"cancel", "recover"} /\ t.step = 2
  BY <1>1, <1>2, StandsAt, Zenon
<1>4. ASSUME NEW n \in Txn, NEW R \in SUBSET Rows,
             n.kind = t.kind, n.columns = t.columns, n.closed = t.closed \cup R,
             txn' = [txn EXCEPT ![s] = n],
             lock' = [r \in Rows |-> IF r \in R THEN s ELSE lock[r]]
      PROVE  LocksAreWrites'
  <2>1. n # NULL
    BY TxnAssumption
  <2>2. WrittenBy(n) = WrittenBy(t) /\ t.kind # "requeue"
    BY <1>3, <1>4 DEF WrittenBy
  <2>3. R \subseteq LockedBy(n) /\ LockedBy(t) \subseteq LockedBy(n)
    BY <1>4, <2>2 DEF LockedBy
  <2> QED
    BY <1>2, <1>4, <2>1, <2>3, LocksGrow, Zenon
<1>5. CASE CloseAttempt(s)
  <2>1. PICK r \in Unclosed(t) : /\ lock' = [lock EXCEPT ![r] = s]
                                 /\ txn' = [txn EXCEPT ![s].closed = @ \cup {r}]
    BY <1>5, Zenon DEF CloseAttempt
  <2> DEFINE closed == t.closed \cup {r}  n == [t EXCEPT !.closed = closed]
  <2>2. r \in Rows /\ {r} \in SUBSET Rows /\ closed \in SUBSET Rows
    BY <1>2 DEF Unclosed, Txn
  <2>3. txn' = [txn EXCEPT ![s] = n]
    BY <1>2, <2>1, Zenon DEF TxnTypeOK
  <2>4. n \in Txn
    <3> HIDE DEF closed
    <3> QED
      BY <1>2, <2>2, Zenon DEF Txn
  <2>5. n.kind = t.kind /\ n.columns = t.columns /\ n.closed = t.closed \cup {r}
    BY <1>2 DEF Txn
  <2>6. lock' = [q \in Rows |-> IF q \in {r} THEN s ELSE lock[q]]
    <3>1. lock \in [Rows -> Sessions \cup {NULL}] /\ lock' = [lock EXCEPT ![r] = s]
      BY <1>2, <2>1 DEF TxnTypeOK
    <3> QED
      BY <2>2, <3>1, LockOne, Zenon
  <2> HIDE DEF n
  <2> QED
    BY <1>4, <2>2, <2>3, <2>4, <2>5, <2>6, Zenon
<1>6. CASE AttemptsClosed(s)
  <2> DEFINE n == [t EXCEPT !.step = 3]
  <2>1. txn' = [txn EXCEPT ![s] = n] /\ UNCHANGED lock
    BY <1>2, <1>3, <1>6 DEF TxnTypeOK, AttemptsClosed
  <2>2. n \in Txn
    <3>1. 3 \in 1..3
      OBVIOUS
    <3> QED
      BY <1>2, <3>1, Zenon DEF Txn
  <2>3. n.kind = t.kind /\ n.columns = t.columns /\ n.closed = t.closed \cup {}
    BY <1>2 DEF Txn
  <2>4. lock' = [r \in Rows |-> IF r \in {} THEN s ELSE lock[r]] /\ {} \in SUBSET Rows
    BY <1>2, <2>1 DEF TxnTypeOK
  <2> HIDE DEF n
  <2> QED
    BY <1>4, <2>1, <2>2, <2>3, <2>4, Zenon
<1> QED
  BY <1>5, <1>6

\* No step locks a row that its transaction does not write or select.
LEMMA NextLocks ==
    ASSUME TxnInv, LocksAreWrites, [TxnNext]_txnVars
    PROVE  LocksAreWrites'
<1>1. TxnTypeOK
  BY DEF TxnInv
<1>2. CASE UNCHANGED <<lock, txn>>
  BY <1>2 DEF LocksAreWrites, LockedBy, WrittenBy
<1>3. ASSUME NEW s \in Sessions, Begin(s)
      PROVE  LocksAreWrites'
  <2>1. PICK t : Open(s, t)
    BY <1>3, Zenon DEF Begin
  <2>2. txn[s] = NULL /\ txn' = [txn EXCEPT ![s] = t] /\ lock' = lock
    BY <2>1 DEF Open
  <2>3. \A r \in Rows : lock[r] # s
    BY <2>2 DEF LocksAreWrites
  <2>4. \A u \in Sessions : u # s => txn'[u] = txn[u]
    BY <1>1, <2>2 DEF TxnTypeOK
  <2> QED
    BY <2>2, <2>3, <2>4 DEF LocksAreWrites, LockedBy, WrittenBy
<1>4. ASSUME NEW s \in Sessions, Step(s) \/ Abort(s)
      PROVE  LocksAreWrites'
  <2>1. CASE Update(s) \/ Select(s) \/ CloseAttempt(s) \/ AttemptsClosed(s)
    BY <2>1, UpdateLocks, SelectLocks, CloseLocks, Zenon
  <2>2. CASE Conflict(s) \/ Commit(s) \/ CommitRequeue(s) \/ Abort(s)
    <3>1. Ends(s)
      BY <2>2, Zenon DEF Conflict, Commit, CommitRequeue, Abort, Rollback
    <3> QED
      BY <1>1, <3>1, LocksEnd
  <2> QED
    BY <1>4, <2>1, <2>2, Zenon DEF Step
<1>5. ASSUME NEW j \in Jobs, CommitCreate(j) \/ TimePasses(j) \/ \E w \in Workers : Autocommit(j, w)
      PROVE  UNCHANGED <<lock, txn>>
  BY <1>5, Zenon DEF CommitCreate, TimePasses, Autocommit
<1>6. UNCHANGED txnVars => UNCHANGED <<lock, txn>>
  BY DEF txnVars
<1> QED
  BY <1>2, <1>3, <1>4, <1>5, <1>6, Zenon DEF TxnNext

\* A session waits for a row that the other one has locked; past its first
\* statement, and unless it reports a failure, for an attempt of a job that it
\* has written.
LEMMA WaitsForRow ==
    ASSUME TxnInv, NEW s \in Sessions, NEW u \in Sessions, WaitsFor(s, u)
    PROVE  /\ txn[s] # NULL
           /\ \E r \in Rows : lock[r] = u
           /\ txn[s].step # 1 /\ txn[s].kind # "fail" =>
                 \E r \in Rows : /\ lock[r] = u /\ r[1] \in WrittenBy(txn[s]) /\ r[2] \in Nat \ {0}
<1> DEFINE t == txn[s]
<1>1. /\ t # NULL /\ t.step <= Len(Statements[t.kind])
      /\ \/ Statement(t) \in SingleRow /\ Where(t) /\ lock[Target(t)] = u
         \/ Statement(t) = "attempts" /\ \E r \in Unclosed(t) : lock[r] = u
  BY DEF WaitsFor, Stands
<1>2. t \in Txn /\ Progress(t) /\ TypeOK
  BY <1>1, OpenTxn DEF TxnInv, StoreInv
<1>3. \A j \in Jobs : JobRow(j) \in Rows /\ LetterRow(j) \in Rows
  <2>1. 1 \in Nat \ {0}
    OBVIOUS
  <2> QED
    BY <2>1, StoreAssumption, RowsAreApart
<1>4. CASE Statement(t) = "job" /\ lock[Target(t)] = u
  <2>1. Target(t) = JobRow(t.job)
    BY <1>4 DEF Target
  <2>2. \/ t.kind = "complete" /\ t.step = 1
        \/ t.kind = "fail" /\ t.step = 2
        \/ t.kind \in DOMAIN Operations /\ t.step = 1
    BY <1>1, <1>2, <1>4, StandsAt, Zenon
  <2>3. t.job \in Jobs
    BY <1>2, <2>2, FinalizerProgress, OperationProgress, Zenon
  <2> QED
    BY <1>1, <1>3, <1>4, <2>1, <2>2, <2>3
<1>5. CASE Statement(t) = "attempt" /\ lock[Target(t)] = u
  <2>1. Target(t) = AttemptRow(t.job, t.attempt)
    BY <1>5 DEF Target
  <2>2. \/ t.kind = "complete" /\ t.step = 2
        \/ t.kind = "fail" /\ t.step = 1
    BY <1>1, <1>2, <1>5, StandsAt, Zenon
  <2>6. t.kind = "complete" => t.step > 1
    BY <2>2
  <2>3. /\ t.job \in Jobs /\ t.attempt \in DOMAIN attempts[t.job]
        /\ t.kind = "complete" => WrittenBy(t) = {t.job}
    BY <1>2, <2>2, <2>6, FinalizerProgress, Zenon
  <2>4. t.attempt \in Nat \ {0} /\ Target(t) \in Rows
    BY <1>2, <2>1, <2>3, AttemptRows, StoreAssumption DEF TxnInv
  <2>5. Target(t)[1] = t.job /\ Target(t)[2] = t.attempt
    BY <2>1 DEF AttemptRow
  <2> QED
    BY <1>1, <1>5, <2>2, <2>3, <2>4, <2>5
<1>6. CASE Statement(t) = "letter" /\ lock[Target(t)] = u
  <2>1. Target(t) = LetterRow(t.job)
    BY <1>6 DEF Target
  <2>2. t.kind = "requeue" /\ t.step = 1
    BY <1>1, <1>2, <1>6, StandsAt, Zenon
  <2>3. t.job \in Jobs
    BY <1>2, <2>2, RequeueProgress
  <2> QED
    BY <1>1, <1>3, <1>6, <2>1, <2>2, <2>3
<1>7. CASE \E r \in Unclosed(t) : lock[r] = u
  <2>1. PICK r \in Unclosed(t) : lock[r] = u
    BY <1>7
  <2>2. r \in Rows /\ r[1] \in WrittenBy(t) /\ r[2] \in DOMAIN attempts[r[1]] /\ r[1] \in Jobs
    BY DEF Unclosed, AttemptRunning, WrittenBy
  <2>3. r[2] \in Nat \ {0}
    BY <1>2, <2>2, AttemptRows, StoreAssumption DEF TxnInv
  <2> QED
    BY <1>1, <2>1, <2>2, <2>3
<1> QED
  BY <1>1, <1>4, <1>5, <1>6, <1>7, Zenon DEF SingleRow

\* Two sessions that report no failure cannot wait one behind the other: the one
\* that is waited for has locked a job, so it waits for an attempt of its own job,
\* and only a failure locks such an attempt without the job.
LEMMA NoChain ==
    ASSUME TxnInv, LocksAreWrites, NEW s \in Sessions, NEW u \in Sessions, NEW v \in Sessions,
           WaitsFor(s, u), WaitsFor(u, v), txn[u].kind # "fail"
    PROVE  txn[v].kind = "fail"
<1>1. txn[u] # NULL /\ txn[u] \in Txn /\ Progress(txn[u])
  BY WaitsForRow, OpenTxn, Zenon
<1>2. txn[u].step # 1
  <2>1. PICK r \in Rows : lock[r] = u
    BY WaitsForRow, Zenon
  <2>2. r \in LockedBy(txn[u])
    BY <2>1 DEF LocksAreWrites
  <2> QED
    BY <1>1, <2>2, NothingHeldAtFirst
<1>3. PICK r \in Rows : lock[r] = v /\ r[1] \in WrittenBy(txn[u]) /\ r[2] \in Nat \ {0}
  BY <1>2, WaitsForRow, Zenon
<1>4. txn[v] # NULL /\ r \in LockedBy(txn[v]) /\ txn[v] \in Txn /\ Progress(txn[v])
  BY <1>3, OpenTxn DEF LocksAreWrites
<1>5. r \in txn[v].closed
  BY <1>3, <1>4 DEF LockedBy, JobRow, LetterRow
<1>6. r[1] \notin WrittenBy(txn[v])
  <2>1. u # v
    BY DEF WaitsFor
  <2>2. \A j \in WrittenBy(txn[u]) : lock[JobRow(j)] = u
    BY <1>1, LocksBySession DEF TxnInv, HoldsLocks
  <2>3. \A j \in WrittenBy(txn[v]) : lock[JobRow(j)] = v
    BY <1>4, LocksBySession DEF TxnInv, HoldsLocks
  <2> QED
    BY <1>3, <2>1, <2>2, <2>3
<1> QED
  BY <1>4, <1>5, <1>6, JobBeforeAttempt

\* Sessions deadlock only if one of them is in FailExecution, the one method that
\* locks an attempt before its job, for any number of sessions, jobs and workers.
THEOREM DeadlocksInvolveFailure == TxnSpec => []OnlyFailuresDeadlock
<1>1. TxnInit => LocksAreWrites
  BY TxnAssumption DEF TxnInit, LocksAreWrites
<1>2. TxnInv /\ LocksAreWrites /\ [TxnNext]_txnVars => LocksAreWrites'
  BY NextLocks
<1>3. TxnInv /\ LocksAreWrites => OnlyFailuresDeadlock
  <2> SUFFICES ASSUME TxnInv, LocksAreWrites, NEW S \in SUBSET Sessions, Deadlocked(S)
               PROVE  \E s \in S : txn[s].kind = "fail"
    BY DEF OnlyFailuresDeadlock
  <2>1. PICK s \in S : TRUE
    BY DEF Deadlocked
  <2>2. PICK u \in S : WaitsFor(s, u)
    BY DEF Deadlocked
  <2>3. PICK v \in S : WaitsFor(u, v)
    BY DEF Deadlocked
  <2> QED
    BY <2>2, <2>3, NoChain, Zenon
<1> QED
  BY <1>1, <1>2, <1>3, TransactionsCorrect, PTL DEF TxnSpec
==============================================================================
