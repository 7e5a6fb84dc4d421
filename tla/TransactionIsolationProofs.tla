---------------------- MODULE TransactionIsolationProofs ----------------------
(***************************************************************************)
(* What the steps of the other sessions and of the clock leave to an open  *)
(* transaction: the rows that it has written or closed are locked, so what *)
(* its statements have read or matched still holds.                        *)
(***************************************************************************)
EXTENDS TransactionCommitProofs

------------------------------------------------------------------------------
\* The model's operators.

\* An attempt has a worker of its own and a number that starts at one.
LEMMA FailureDecision ==
    ASSUME TypeOK, NEW j \in Jobs, NEW a \in DOMAIN attempts[j]
    PROVE  /\ FailureOf(j, a).nextRetryCount \in Nat
           /\ FailureOf(j, a).status \in {"DEAD_LETTERED", "RETRY_SCHEDULED"}
<1>1. attempts[j] \in Seq(Attempt) /\ maxRetries[j] \in Nat
  BY DEF TypeOK
<1>2. attempts[j][a] \in Attempt
  BY <1>1, LenProperties, ElementOfSeq
<1>3. attempts[j][a].number - 1 \in Nat
  BY <1>2 DEF Attempt
<1> HIDE <1>2
<1> QED
  BY <1>1, <1>3 DEF FailureOf, DecideFailure

\* The columns written after a failure are well typed.
LEMMA FailureVersion ==
    ASSUME NEW d, d.nextRetryCount \in Nat, NEW outcome
    PROVE  AfterFailure(d, outcome) \in Version
  BY DEF AfterFailure, Released, Version, Statuses

\* A version of a jobs row that a statement writes is well typed.
LEMMA VersionType ==
    ASSUME TypeOK, NEW t \in Txn, NEW j \in Jobs, t.kind # "requeue",
           t.kind = "claim" => t.worker \in Workers,
           t.kind = "fail" => t.attempt \in DOMAIN attempts[j]
    PROVE  NewVersion(t, j) \in Version
<1>1. t.kind \in {"claim", "recover", "complete", "fail", "cancel", "pause", "resume", "retry"}
  BY DEF Txn, Statements
<1>2. retryCount[j] \in Nat /\ maxRetries[j] \in Nat
  BY DEF TypeOK
<1>3. CASE t.kind = "claim"
  BY <1>2, <1>3 DEF NewVersion, Version, Statuses
<1>4. CASE t.kind = "complete"
  BY <1>2, <1>4 DEF NewVersion, Version, Statuses, Released
<1>5. CASE t.kind = "fail"
  <2>1. NewVersion(t, j) = AfterFailure(FailureOf(j, t.attempt), t.outcome)
    BY <1>5 DEF NewVersion
  <2> QED
    BY <1>5, <2>1, FailureDecision, FailureVersion
<1>6. CASE t.kind = "recover"
  <2>1. NewVersion(t, j) = AfterFailure(DecideFailure(retryCount[j], maxRetries[j]), "retry")
    BY <1>6 DEF NewVersion
  <2>2. DecideFailure(retryCount[j], maxRetries[j]).nextRetryCount \in Nat
    BY <1>2 DEF DecideFailure
  <2> QED
    BY <2>1, <2>2, FailureVersion
<1>7. CASE t.kind \in {"cancel", "pause", "resume", "retry"}
  BY <1>2, <1>7 DEF NewVersion, Version, Statuses, Released, Operations
<1> QED
  BY <1>1, <1>3, <1>4, <1>5, <1>6, <1>7

------------------------------------------------------------------------------
\* What a step of another session leaves to an open transaction.

\* The transaction of s relies on nothing that this step changes: of the rows it
\* has written only the clock moves on, the attempts that it has closed stay as
\* they are, no attempt is reopened or renamed, the dead letter that it has
\* locked is not requeued and the identifier that it has drawn is not used.
Kept(s) ==
    LET t == txn[s] IN
    /\ \A j \in WrittenBy(t) :
          /\ status'[j] = status[j] /\ lockedBy'[j] = lockedBy[j]
          /\ retryCount'[j] = retryCount[j] /\ maxRetries'[j] = maxRetries[j]
          /\ lockedUntil[j] # "live" => lockedUntil'[j] = lockedUntil[j]
          /\ due[j] => due'[j]
          /\ DOMAIN attempts'[j] = DOMAIN attempts[j] /\ Len(attempts'[j]) = Len(attempts[j])
    /\ \A j \in Jobs : \A a \in DOMAIN attempts[j] :
          /\ a \in DOMAIN attempts'[j]
          /\ attempts'[j][a].worker = attempts[j][a].worker
          /\ attempts'[j][a].number = attempts[j][a].number
          /\ attempts'[j][a].status = "RUNNING" => attempts[j][a].status = "RUNNING"
          /\ AttemptRow(j, a) \in t.closed => attempts'[j][a].status = attempts[j][a].status
    /\ t.kind = "requeue" =>
          /\ status[t.fresh] = "ABSENT" => status'[t.fresh] = "ABSENT"
          /\ t.step = 2 /\ deadLetters[t.job] = <<NULL>> => deadLetters'[t.job] = <<NULL>>

\* Then the transaction of s is still as far as its writes say.
LEMMA ProgressStays ==
    ASSUME NEW s \in Sessions, txn[s] \in Txn, Progress(txn[s]), Kept(s), txn'[s] = txn[s]
    PROVE  Progress(txn[s])'
<1> DEFINE t == txn[s]
<1>1. t' = t /\ WrittenBy(txn[s])' = WrittenBy(txn[s])
  BY DEF WrittenBy
<1>2. ASSUME t.kind \in {"complete", "fail"}
      PROVE  /\ t.job \in Jobs /\ t.attempt \in DOMAIN attempts'[t.job]
             /\ t.worker = attempts'[t.job][t.attempt].worker
  <2>1. /\ t.job \in Jobs /\ t.attempt \in DOMAIN attempts[t.job]
        /\ t.worker = attempts[t.job][t.attempt].worker
    BY <1>2, FinalizerProgress, Zenon
  <2>2. \A j \in Jobs : \A a \in DOMAIN attempts[j] :
           a \in DOMAIN attempts'[j] /\ attempts'[j][a].worker = attempts[j][a].worker
    BY Zenon DEF Kept
  <2> QED
    BY <2>1, <2>2
<1>3. ASSUME t.kind \in {"cancel", "recover"}, t.step = 3
      PROVE  Unclosed(txn[s])' = {}
  <2>1. Unclosed(t) = {}
    BY <1>3 DEF Progress
  <2>2. ASSUME NEW r \in Rows, r \notin t.closed, r[1] \in WrittenBy(t),
               r[2] \in DOMAIN attempts'[r[1]], attempts'[r[1]][r[2]].status = "RUNNING"
        PROVE  r \in Unclosed(t)
    <3>1. r[1] \in Jobs /\ r[2] \in DOMAIN attempts[r[1]]
      BY <2>2 DEF Kept, WrittenBy
    <3>2. attempts[r[1]][r[2]].status = "RUNNING"
      BY <2>2, <3>1 DEF Kept
    <3> QED
      BY <2>2, <3>1, <3>2 DEF Unclosed, AttemptRunning
  <2> QED
    BY <1>1, <2>1, <2>2 DEF Unclosed, AttemptRunning
<1> QED
  BY <1>1, <1>2, <1>3, Zenon DEF Progress

\* And the versions that it has written are those it would write now.
LEMMA VersionsStay ==
    ASSUME NEW s \in Sessions, txn[s] \in Txn, Progress(txn[s]), Kept(s), txn'[s] = txn[s],
           NEW j \in WrittenBy(txn[s])
    PROVE  NewVersion(txn[s], j)' = NewVersion(txn[s], j)
<1> DEFINE t == txn[s]
<1>1. t' = t /\ retryCount'[j] = retryCount[j] /\ maxRetries'[j] = maxRetries[j] /\ j \in Jobs
  BY DEF Kept, WrittenBy
<1>2. ASSUME t.kind = "fail"
      PROVE  FailureOf(j, txn[s].attempt)' = FailureOf(j, t.attempt)
  <2>1. j = t.job /\ t.attempt \in DOMAIN attempts[j]
    <3>1. t.kind \in {"complete", "fail"}
      BY <1>2
    <3>2. t.job \in Jobs /\ t.attempt \in DOMAIN attempts[t.job] /\ WrittenBy(t) \in {{t.job}, {}}
      BY <3>1, FinalizerProgress, Zenon
    <3> QED
      BY <3>2
  <2>2. attempts'[j][t.attempt].number = attempts[j][t.attempt].number
    BY <1>1, <2>1 DEF Kept
  <2> QED
    BY <1>1, <2>2 DEF FailureOf
<1> QED
  BY <1>1, <1>2 DEF NewVersion

\* And the conditions under which it wrote them are true.
LEMMA ReadsStay ==
    ASSUME NEW s \in Sessions, txn[s] \in Txn, Progress(txn[s]), ReadsHold(txn[s]), Kept(s),
           txn'[s] = txn[s]
    PROVE  ReadsHold(txn[s])'
<1> DEFINE t == txn[s]
<1>1. t' = t /\ WrittenBy(txn[s])' = WrittenBy(txn[s])
  BY DEF WrittenBy
<1>2. ASSUME NEW j \in WrittenBy(t)
      PROVE  /\ t.columns[j] = NewVersion(txn[s], j)'
             /\ IF t.kind \in {"claim", "recover"} THEN Selectable(txn[s], j)'
                                                  ELSE JobMatches(txn[s], j)'
  <2>1. /\ t.columns[j] = NewVersion(t, j)
        /\ IF t.kind \in {"claim", "recover"} THEN Selectable(t, j) ELSE JobMatches(t, j)
    BY DEF ReadsHold
  <2>2. /\ status'[j] = status[j] /\ lockedBy'[j] = lockedBy[j]
        /\ lockedUntil[j] # "live" => lockedUntil'[j] = lockedUntil[j]
        /\ due[j] => due'[j]
        /\ Len(attempts'[j]) = Len(attempts[j])
    BY DEF Kept
  <2>3. Selectable(t, j) => Selectable(txn[s], j)'
    BY <1>1, <2>2 DEF Selectable, Claimable
  <2>4. JobMatches(t, j) => JobMatches(txn[s], j)'
    BY <1>1, <2>2 DEF JobMatches, Owns
  <2> QED
    BY <2>1, <2>3, <2>4, VersionsStay
<1>3. ASSUME NEW r \in t.closed
      PROVE  AttemptRunning(r[1], r[2])'
  <2>1. r \in Rows /\ AttemptRunning(r[1], r[2])
    BY DEF Txn, ReadsHold
  <2>2. r[1] \in Jobs /\ r = AttemptRow(r[1], r[2])
    BY <2>1 DEF Rows, AttemptRow
  <2> QED
    BY <2>1, <2>2 DEF AttemptRunning, Kept
<1>4. t.kind = "requeue" => /\ status'[t.fresh] = "ABSENT"
                            /\ t.step = 2 => deadLetters'[t.job] = <<NULL>>
  BY DEF ReadsHold, Kept
<1> QED
  BY <1>1, <1>2, <1>3, <1>4 DEF ReadsHold

------------------------------------------------------------------------------
\* The steps of the others.

\* Two transactions have written different jobs and closed different attempts.
LEMMA WritesApart ==
    ASSUME TxnInv, NEW s \in Sessions, NEW u \in Sessions, s # u, txn[s] # NULL, txn[u] # NULL
    PROVE  /\ \A j \in WrittenBy(txn[u]) : j \notin WrittenBy(txn[s])
           /\ \A r \in txn[u].closed : r \notin txn[s].closed
<1>1. \A v \in Sessions : txn[v] # NULL =>
         /\ \A j \in WrittenBy(txn[v]) : lock[JobRow(j)] = v
         /\ \A r \in txn[v].closed : lock[r] = v
  <2>1. LocksMatchWrites
    BY DEF TxnInv
  <2> QED
    BY <2>1, Zenon DEF LocksMatchWrites
<1> QED
  BY <1>1

\* A row that a transaction has written is in the table.
LEMMA WrittenPresent ==
    ASSUME TxnInv, NEW s \in Sessions, txn[s] # NULL, NEW j \in WrittenBy(txn[s])
    PROVE  status[j] # "ABSENT"
<1> DEFINE t == txn[s]
<1>1. IF t.kind \in {"claim", "recover"} THEN Selectable(t, j) ELSE JobMatches(t, j)
  BY OpenTxn DEF ReadsHold
<1>2. Selectable(t, j) => status[j] # "ABSENT"
  BY DEF Selectable, Claimable
<1>3. JobMatches(t, j) => status[j] # "ABSENT"
  BY DEF JobMatches, Owns, Operations
<1> QED
  BY <1>1, <1>2, <1>3

\* A dead letter that is not requeued is a row.
LEMMA NotEmpty ==
    ASSUME NEW letters, Len(letters) = 0
    PROVE  letters # <<NULL>>
  OBVIOUS

\* Only the transactions of failures and of the recovery leave dead letters, and
\* the jobs that they give up are still RUNNING, so they have none.
LEMMA DeadVersions ==
    ASSUME TxnInv, NEW s \in Sessions, txn[s] # NULL, NEW j \in WrittenBy(txn[s]),
           txn[s].columns[j].status = "DEAD_LETTERED"
    PROVE  txn[s].kind \in {"fail", "recover"} /\ status[j] = "RUNNING" /\ deadLetters[j] # <<NULL>>
<1> DEFINE t == txn[s]
<1>1. /\ t \in Txn /\ t.columns[j] = NewVersion(t, j) /\ j \in Jobs
      /\ IF t.kind \in {"claim", "recover"} THEN Selectable(t, j) ELSE JobMatches(t, j)
  BY OpenTxn DEF ReadsHold, WrittenBy
<1>2. t.kind \in DOMAIN Statements
  BY <1>1 DEF Txn
<1>3. NewVersion(t, j).status = "DEAD_LETTERED"
  BY <1>1
<1>4. t.kind \notin DOMAIN Operations \cup {"claim", "complete", "requeue"}
  <2>1. t.kind # "claim" /\ t.kind # "complete"
    BY <1>3 DEF NewVersion, Released
  <2>2. t.kind \notin DOMAIN Operations
    BY <1>3 DEF NewVersion, Released, Operations
  <2>3. t.kind # "requeue"
    BY OpenTxn, RequeueProgress, Zenon
  <2> QED
    BY <2>1, <2>2, <2>3
<1>5. t.kind \in {"fail", "recover"}
  BY <1>2, <1>4 DEF Statements, Operations
<1>6. status[j] = "RUNNING"
  BY <1>1, <1>4, <1>5 DEF Selectable, JobMatches, Owns
<1>7. Len(deadLetters[j]) = 0
  BY <1>1, <1>6 DEF TxnInv, StoreInv, OneDeadLetter
<1>8. deadLetters[j] # <<NULL>>
  BY <1>7, NotEmpty
<1> QED
  BY <1>5, <1>6, <1>7, <1>8

\* A step that writes no table keeps what everybody relies on.
LEMMA KeptUnchanged ==
    ASSUME UNCHANGED storeVars, NEW u \in Sessions
    PROVE  Kept(u)
<1>1. UNCHANGED <<status, lockedBy, lockedUntil, due, retryCount, maxRetries, attempts, deadLetters>>
  BY DEF storeVars, jobVars
<1>2. \A j \in WrittenBy(txn[u]) :
         /\ status'[j] = status[j] /\ lockedBy'[j] = lockedBy[j]
         /\ retryCount'[j] = retryCount[j] /\ maxRetries'[j] = maxRetries[j]
         /\ lockedUntil'[j] = lockedUntil[j] /\ due'[j] = due[j] /\ attempts'[j] = attempts[j]
  BY <1>1
<1>3. \A j \in Jobs : attempts'[j] = attempts[j]
  BY <1>1
<1> QED
  BY <1>1, <1>2, <1>3 DEF Kept

\* A commit of one session keeps what the others rely on.
LEMMA KeptByCommit ==
    ASSUME TxnInv, NEW s \in Sessions, NEW u \in Sessions, s # u, Commit(s), txn[u] # NULL
    PROVE  Kept(u)
<1> DEFINE t == txn[s]  v == txn[u]
<1>1. txn[s] # NULL /\ UNCHANGED maxRetries
  BY DEF Commit, Done
<1>2. t \in Txn /\ Progress(t) /\ v \in Txn /\ Progress(v) /\ TypeOK
  BY <1>1, OpenTxn DEF TxnInv, StoreInv
<1>3. \A j \in Jobs : j \notin WrittenBy(t) =>
         /\ status'[j] = status[j] /\ lockedBy'[j] = lockedBy[j] /\ retryCount'[j] = retryCount[j]
         /\ lockedUntil'[j] = lockedUntil[j] /\ due'[j] = due[j] /\ deadLetters'[j] = deadLetters[j]
         /\ attempts'[j] = attempts[j]
  <2>1. \A j \in Jobs : j \notin WrittenBy(t) => attempts'[j] = attempts[j]
    BY <1>2, CommittedAttempts
  <2> QED
    BY <2>1 DEF Commit
<1>4. \A j \in WrittenBy(v) : j \in Jobs /\ j \notin WrittenBy(t)
  BY <1>1, WritesApart DEF WrittenBy
<1>5. ASSUME NEW j \in Jobs, NEW a \in DOMAIN attempts[j]
      PROVE  /\ a \in DOMAIN attempts'[j]
             /\ attempts'[j][a].worker = attempts[j][a].worker
             /\ attempts'[j][a].number = attempts[j][a].number
             /\ attempts'[j][a].status = "RUNNING" => attempts[j][a].status = "RUNNING"
             /\ AttemptRow(j, a) \in v.closed => attempts'[j][a].status = attempts[j][a].status
  <2>1. a \in DOMAIN attempts'[j] /\ attempts'[j][a] = RowsClosed(t, j)[a]
    BY <1>2, CommittedAttempts
  <2>2. /\ RowsClosed(t, j)[a].worker = attempts[j][a].worker
        /\ RowsClosed(t, j)[a].number = attempts[j][a].number
        /\ RowsClosed(t, j)[a].status =
              IF AttemptRow(j, a) \in t.closed THEN ClosedAs[t.kind] ELSE attempts[j][a].status
    BY <1>2, ClosedRows
  <2>3. AttemptRow(j, a) \in v.closed => AttemptRow(j, a) \notin t.closed
    BY <1>1, WritesApart
  <2>4. AttemptRow(j, a) \in t.closed => attempts[j][a].status = "RUNNING"
    <3>1. \A r \in t.closed : AttemptRunning(r[1], r[2])
      BY <1>1, OpenTxn DEF ReadsHold
    <3> QED
      BY <3>1 DEF AttemptRunning, AttemptRow
  <2> QED
    BY <2>1, <2>2, <2>3, <2>4
<1>6. ASSUME v.kind = "requeue"
      PROVE  /\ status[v.fresh] = "ABSENT" => status'[v.fresh] = "ABSENT"
             /\ v.step = 2 /\ deadLetters[v.job] = <<NULL>> => deadLetters'[v.job] = <<NULL>>
  <2>1. v.job \in Jobs /\ v.fresh \in Jobs
    BY <1>2, <1>6, RequeueProgress
  <2>2. status[v.fresh] = "ABSENT" => v.fresh \notin WrittenBy(t)
    BY <1>1, WrittenPresent
  <2>3. \A j \in WrittenBy(t) : deadLetters[j] = <<NULL>> => t.columns[j].status # "DEAD_LETTERED"
    BY <1>1, DeadVersions
  <2>4. \A j \in Jobs : deadLetters[j] = <<NULL>> => deadLetters'[j] = deadLetters[j]
    BY <2>3 DEF Commit
  <2> QED
    BY <1>3, <2>1, <2>2, <2>4
<1>7. \A j \in WrittenBy(v) : maxRetries'[j] = maxRetries[j]
  BY <1>1
<1> QED
  BY <1>3, <1>4, <1>5, <1>6, <1>7 DEF Kept

\* An insert of a fresh row keeps what the others rely on.
LEMMA KeptByInsert ==
    ASSUME TxnInv, NEW n \in Jobs, NEW future \in BOOLEAN, NEW max, NEW src, NEW event,
           InsertJob(n, future, max, src, event),
           NEW u \in Sessions, txn[u] # NULL, txn[u].fresh # n,
           txn[u].kind = "requeue" /\ txn[u].step = 2 /\ deadLetters[txn[u].job] = <<NULL>> =>
              deadLetters'[txn[u].job] = <<NULL>>
    PROVE  Kept(u)
<1> DEFINE v == txn[u]
<1>1. TypeOK /\ v \in Txn /\ Progress(v)
  BY OpenTxn DEF TxnInv, StoreInv
<1>2. /\ status[n] = "ABSENT" /\ UNCHANGED <<lockedBy, lockedUntil, retryCount, attempts>>
      /\ \A j \in Jobs \ {n} : status'[j] = status[j] /\ due'[j] = due[j] /\ maxRetries'[j] = maxRetries[j]
  BY <1>1 DEF InsertJob, TypeOK
<1>3. \A j \in WrittenBy(v) : j \in Jobs \ {n}
  BY <1>2, WrittenPresent DEF WrittenBy
<1>4. v.kind = "requeue" => v.fresh \in Jobs \ {n}
  BY <1>1, RequeueProgress
<1> QED
  BY <1>2, <1>3, <1>4 DEF Kept

\* The commit of a requeue keeps what the others rely on: the fresh row is not
\* one that they have written or drawn, and the dead letter is not theirs.
LEMMA KeptByRequeue ==
    ASSUME TxnInv, StoreAssumption, NEW s \in Sessions, NEW u \in Sessions, s # u, CommitRequeue(s),
           txn[u] # NULL
    PROVE  Kept(u)
<1> DEFINE t == txn[s]  v == txn[u]
<1>1. /\ t # NULL /\ t.kind = "requeue" /\ t.step > 1
      /\ InsertJob(t.fresh, FALSE, RequeueMaxRetries, t.job, "job.requeued")
      /\ deadLetters' = [deadLetters EXCEPT ![t.job] = <<t.fresh>>]
  <2>1. Len(Statements["requeue"]) = 1
    BY DEF Statements
  <2> QED
    BY <2>1, Zenon DEF CommitRequeue, Done
<1>2. t \in Txn /\ t.step = 2 /\ t.job \in Jobs /\ t.fresh \in Jobs
  <2>1. t \in Txn /\ Progress(t)
    BY <1>1, OpenTxn
  <2>2. t.job \in Jobs /\ t.fresh \in Jobs /\ t.step \in 1..2
    BY <1>1, <2>1, RequeueProgress, Zenon
  <2> QED
    BY <1>1, <2>1, <2>2
<1>3. v.fresh # t.fresh /\ lock[LetterRow(t.job)] = s
  BY <1>1, <1>2 DEF TxnInv, RequeuesApart
<1>4. ASSUME v.kind = "requeue", v.step = 2, deadLetters[v.job] = <<NULL>>
      PROVE  deadLetters'[v.job] = <<NULL>>
  <2>1. lock[LetterRow(v.job)] = u
    BY <1>4 DEF TxnInv, RequeuesApart
  <2>2. v.job # t.job
    BY <1>3, <2>1
  <2> QED
    BY <1>1, <1>4, <2>2 DEF TxnInv, StoreInv, TypeOK
<1>5. FALSE \in BOOLEAN
  OBVIOUS
<1> QED
  BY <1>1, <1>2, <1>3, <1>4, <1>5, KeptByInsert, Zenon

\* Create keeps what everybody relies on.
LEMMA KeptByCreate ==
    ASSUME TxnInv, NEW j \in Jobs, CommitCreate(j), NEW u \in Sessions, txn[u] # NULL
    PROVE  Kept(u)
<1>1. PICK future \in BOOLEAN, max \in MaxRetriesChoices : Create(j, future, max)
  BY DEF CommitCreate
<1>2. InsertJob(j, future, max, NULL, "job.created") /\ UNCHANGED deadLetters
  BY <1>1 DEF Create
<1>3. txn[u].fresh # j
  BY DEF CommitCreate, Unused
<1> QED
  BY <1>2, <1>3, KeptByInsert, Zenon

\* The single statements wait for the row, so they keep what everybody relies on.
LEMMA KeptByAutocommit ==
    ASSUME TxnInv, NEW j \in Jobs, NEW w \in Workers, Autocommit(j, w), NEW u \in Sessions,
           txn[u] # NULL
    PROVE  Kept(u)
<1> DEFINE v == txn[u]
<1>1. TypeOK /\ v \in Txn /\ Progress(v)
  BY OpenTxn DEF TxnInv, StoreInv
<1>2. /\ status[j] = "RUNNING" /\ UNCHANGED <<due, retryCount, maxRetries, attempts, deadLetters>>
      /\ \A i \in Jobs \ {j} : /\ status'[i] = status[i] /\ lockedBy'[i] = lockedBy[i]
                              /\ lockedUntil'[i] = lockedUntil[i]
  BY <1>1 DEF Autocommit, ExtendLease, ReleaseClaim, Owns, Unlock, TypeOK
<1>3. ASSUME NEW i \in WrittenBy(v)
      PROVE  i \in Jobs \ {j}
  <2>1. lock[JobRow(i)] = u
    BY Zenon DEF TxnInv, LocksMatchWrites
  <2>2. lock[JobRow(j)] = NULL
    BY DEF Autocommit
  <2>3. u # NULL
    BY TxnAssumption
  <2> QED
    BY <2>1, <2>2, <2>3 DEF WrittenBy
<1>4. v.kind = "requeue" => v.fresh \in Jobs
  BY <1>1, RequeueProgress
<1>5. \A i \in Jobs : status[i] = "ABSENT" => status'[i] = "ABSENT"
  BY <1>2
<1> QED
  BY <1>2, <1>3, <1>4, <1>5 DEF Kept

\* The clock only makes leases expire and jobs due.
LEMMA KeptByTime ==
    ASSUME TxnInv, NEW j \in Jobs, TimePasses(j), NEW u \in Sessions
    PROVE  Kept(u)
<1>1. TypeOK
  BY DEF TxnInv, StoreInv
<1>2. /\ UNCHANGED <<status, lockedBy, retryCount, maxRetries, attempts, deadLetters>>
      /\ \A i \in Jobs : /\ lockedUntil[i] # "live" => lockedUntil'[i] = lockedUntil[i]
                         /\ due[i] => due'[i]
  BY <1>1, Zenon DEF TimePasses, LeaseExpires, BecomesDue, TypeOK
<1>3. \A i \in WrittenBy(txn[u]) : i \in Jobs
  BY DEF WrittenBy
<1> QED
  BY <1>2, <1>3 DEF Kept

------------------------------------------------------------------------------
\* The locks.

\* What LocksMatchWrites and RequeuesApart say of one session.
HoldsLocks(s) ==
    LET t == txn[s] IN
    t # NULL =>
        /\ \A j \in WrittenBy(t) : lock[JobRow(j)] = s
        /\ \A r \in t.closed : lock[r] = s
        /\ t.kind = "requeue" /\ t.step = 2 => lock[LetterRow(t.job)] = s

\* They are rows.
LEMMA RowsOfTxn ==
    ASSUME NEW t \in Txn, Progress(t)
    PROVE  /\ \A j \in WrittenBy(t) : JobRow(j) \in Rows
           /\ \A r \in t.closed : r \in Rows
           /\ t.kind = "requeue" => LetterRow(t.job) \in Rows
<1>1. \A j \in Jobs : JobRow(j) \in Rows /\ LetterRow(j) \in Rows
  <2>1. 1 \in Nat \ {0}
    OBVIOUS
  <2> QED
    BY <2>1, StoreAssumption, RowsAreApart
<1> QED
  BY <1>1, RequeueProgress DEF WrittenBy, Txn

\* The two read session by session.
LEMMA LocksBySession ==
    ASSUME LocksMatchWrites, RequeuesApart
    PROVE  /\ \A r \in Rows : lock[r] # NULL => txn[lock[r]] # NULL
           /\ \A s \in Sessions : HoldsLocks(s)
           /\ \A s, u \in Sessions : txn[s] # NULL /\ txn[u] # NULL /\ s # u /\ txn[s].kind = "requeue"
                 => txn[u].fresh # txn[s].fresh
<1>1. ASSUME NEW s \in Sessions, txn[s] # NULL
      PROVE  \A r \in {JobRow(j) : j \in WrittenBy(txn[s])} \cup txn[s].closed : lock[r] = s
  BY <1>1, Zenon DEF LocksMatchWrites
<1>2. \A s \in Sessions : HoldsLocks(s)
  BY <1>1 DEF HoldsLocks, RequeuesApart
<1>3. \A r \in Rows : lock[r] # NULL => txn[lock[r]] # NULL
  BY Zenon DEF LocksMatchWrites
<1>4. \A s, u \in Sessions : txn[s] # NULL /\ txn[u] # NULL /\ s # u /\ txn[s].kind = "requeue"
         => txn[u].fresh # txn[s].fresh
  BY DEF RequeuesApart
<1> QED
  BY <1>2, <1>3, <1>4

\* And so they are shown.
LEMMA LocksFromSessions ==
    ASSUME \A r \in Rows : lock'[r] # NULL => txn'[lock'[r]] # NULL,
           \A s \in Sessions : HoldsLocks(s)',
           \A s, u \in Sessions : txn'[s] # NULL /\ txn'[u] # NULL /\ s # u /\ txn'[s].kind = "requeue"
              => txn'[u].fresh # txn'[s].fresh
    PROVE  LocksMatchWrites' /\ RequeuesApart'
<1>1. ASSUME NEW s \in Sessions, txn'[s] # NULL
      PROVE  \A r \in {JobRow(j) : j \in WrittenBy(txn[s])'} \cup txn'[s].closed : lock'[r] = s
  BY <1>1 DEF HoldsLocks
<1>2. LocksMatchWrites'
  BY <1>1, Zenon DEF LocksMatchWrites
<1>3. RequeuesApart'
  BY Zenon DEF RequeuesApart, HoldsLocks
<1> QED
  BY <1>2, <1>3

\* The transaction of s ends and releases its locks.
LEMMA EndsLocks ==
    ASSUME TxnInv, NEW s \in Sessions, Ends(s)
    PROVE  TxnTypeOK' /\ LocksMatchWrites' /\ RequeuesApart'
<1>1. /\ TxnTypeOK /\ txn' = [txn EXCEPT ![s] = NULL]
      /\ lock' = [r \in Rows |-> IF lock[r] = s THEN NULL ELSE lock[r]]
  BY DEF TxnInv, Ends
<1>2. TxnTypeOK'
  BY <1>1 DEF TxnTypeOK
<1>3. txn'[s] = NULL /\ \A u \in Sessions : u # s => txn'[u] = txn[u]
  BY <1>1 DEF TxnTypeOK
<1>4. \A r \in Rows : lock'[r] = IF lock[r] = s THEN NULL ELSE lock[r]
  BY <1>1
<1>5. /\ \A r \in Rows : lock[r] # NULL => txn[lock[r]] # NULL
      /\ \A u \in Sessions : HoldsLocks(u)
      /\ \A v, u \in Sessions : txn[v] # NULL /\ txn[u] # NULL /\ v # u /\ txn[v].kind = "requeue"
            => txn[u].fresh # txn[v].fresh
  BY LocksBySession DEF TxnInv
<1>6. \A r \in Rows : lock'[r] # NULL => txn'[lock'[r]] # NULL
  BY <1>1, <1>3, <1>4, <1>5 DEF TxnTypeOK
<1>7. ASSUME NEW u \in Sessions
      PROVE  HoldsLocks(u)'
  <2>1. CASE u = s
    BY <1>3, <2>1 DEF HoldsLocks
  <2>2. CASE u # s /\ txn[u] # NULL
    <3>1. txn'[u] = txn[u] /\ WrittenBy(txn[u])' = WrittenBy(txn[u]) /\ txn[u] \in Txn /\ Progress(txn[u])
      BY <1>3, <2>2, OpenTxn DEF WrittenBy
    <3>2. \A r \in Rows : lock[r] = u => lock'[r] = u
      BY <1>4, <2>2
    <3>3. /\ \A j \in WrittenBy(txn[u]) : JobRow(j) \in Rows
          /\ \A r \in txn[u].closed : r \in Rows
          /\ txn[u].kind = "requeue" => LetterRow(txn[u].job) \in Rows
      BY <3>1, RowsOfTxn, Zenon
    <3> QED
      BY <1>5, <2>2, <3>1, <3>2, <3>3 DEF HoldsLocks
  <2>3. CASE u # s /\ txn[u] = NULL
    BY <1>3, <2>3 DEF HoldsLocks
  <2> QED
    BY <2>1, <2>2, <2>3
<1>8. \A v, u \in Sessions : txn'[v] # NULL /\ txn'[u] # NULL /\ v # u /\ txn'[v].kind = "requeue"
         => txn'[u].fresh # txn'[v].fresh
  BY <1>3, <1>5
<1> QED
  BY <1>2, <1>6, <1>7, <1>8, LocksFromSessions

\* The transaction of s goes on and locks more rows, which nobody else has locked.
LEMMA MoreLocks ==
    ASSUME TxnInv, NEW s \in Sessions, NEW t \in Txn, NEW R \in SUBSET Rows,
           txn' = [txn EXCEPT ![s] = t],
           lock' = [r \in Rows |-> IF r \in R THEN s ELSE lock[r]],
           \A r \in R : lock[r] \in {NULL, s},
           \A j \in WrittenBy(t) : JobRow(j) \in R \/ lock[JobRow(j)] = s,
           \A r \in t.closed : r \in R \/ lock[r] = s,
           t.kind = "requeue" /\ t.step = 2 => LetterRow(t.job) \in R,
           t.kind = "requeue" => t.job \in Jobs,
           t.fresh # NULL => \A u \in Sessions \ {s} : txn[u] # NULL => txn[u].fresh # t.fresh,
           t.kind = "requeue" => t.fresh # NULL
    PROVE  TxnTypeOK' /\ LocksMatchWrites' /\ RequeuesApart'
<1>1. TxnTypeOK
  BY DEF TxnInv
<1>2. TxnTypeOK'
  BY <1>1 DEF TxnTypeOK
<1>3. t # NULL /\ s # NULL
  BY TxnAssumption
<1>4. txn'[s] = t /\ \A u \in Sessions : u # s => txn'[u] = txn[u]
  BY <1>1 DEF TxnTypeOK
<1>5. \A r \in Rows : lock'[r] = IF r \in R THEN s ELSE lock[r]
  OBVIOUS
<1>6. /\ \A r \in Rows : lock[r] # NULL => txn[lock[r]] # NULL
      /\ \A u \in Sessions : HoldsLocks(u)
      /\ \A v, u \in Sessions : txn[v] # NULL /\ txn[u] # NULL /\ v # u /\ txn[v].kind = "requeue"
            => txn[u].fresh # txn[v].fresh
  BY <1>1, LocksBySession DEF TxnInv
<1>7. \A r \in Rows : lock'[r] # NULL => txn'[lock'[r]] # NULL
  BY <1>1, <1>3, <1>4, <1>5, <1>6 DEF TxnTypeOK
<1>8. \A j \in Jobs : JobRow(j) \in Rows /\ LetterRow(j) \in Rows
  <2>1. 1 \in Nat \ {0}
    OBVIOUS
  <2> QED
    BY <2>1, StoreAssumption, RowsAreApart
<1>9. HoldsLocks(s)'
  <2>1. WrittenBy(txn[s])' = WrittenBy(t)
    BY <1>4 DEF WrittenBy
  <2>2. \A r \in Rows : r \in R \/ lock[r] = s => lock'[r] = s
    BY <1>5
  <2>3. /\ \A j \in WrittenBy(t) : JobRow(j) \in Rows
        /\ \A r \in t.closed : r \in Rows
    BY <1>8 DEF WrittenBy, Txn
  <2>4. t.kind = "requeue" /\ t.step = 2 => lock'[LetterRow(t.job)] = s
    BY <1>8, <2>2
  <2> QED
    BY <1>4, <2>1, <2>2, <2>3, <2>4 DEF HoldsLocks
<1>10. ASSUME NEW u \in Sessions, u # s
       PROVE  HoldsLocks(u)'
  <2>1. CASE txn[u] # NULL
    <3>1. txn'[u] = txn[u] /\ WrittenBy(txn[u])' = WrittenBy(txn[u]) /\ txn[u] \in Txn /\ Progress(txn[u])
      BY <1>4, <1>10, <2>1, OpenTxn DEF WrittenBy
    <3>2. \A r \in Rows : lock[r] = u => lock'[r] = u
      <4>1. u # NULL
        BY TxnAssumption
      <4> QED
        BY <1>5, <1>10, <4>1
    <3>3. /\ \A j \in WrittenBy(txn[u]) : JobRow(j) \in Rows
          /\ \A r \in txn[u].closed : r \in Rows
          /\ txn[u].kind = "requeue" => LetterRow(txn[u].job) \in Rows
      BY <3>1, RowsOfTxn, Zenon
    <3> QED
      BY <1>6, <2>1, <3>1, <3>2, <3>3 DEF HoldsLocks
  <2>2. CASE txn[u] = NULL
    BY <1>4, <1>10, <2>2 DEF HoldsLocks
  <2> QED
    BY <2>1, <2>2
<1>11. ASSUME NEW v \in Sessions, NEW u \in Sessions, txn'[v] # NULL, txn'[u] # NULL, v # u,
              txn'[v].kind = "requeue"
       PROVE  txn'[u].fresh # txn'[v].fresh
  <2>1. CASE v = s
    BY <1>4, <1>11, <2>1
  <2>2. CASE v # s /\ u # s
    BY <1>4, <1>6, <1>11, <2>2
  <2>3. CASE v # s /\ u = s
    <3>1. txn[v] # NULL /\ txn[v].kind = "requeue" /\ txn'[v] = txn[v] /\ txn'[u] = t
      BY <1>4, <1>11, <2>3
    <3>2. txn[v].fresh \in Jobs
      BY <3>1, OpenTxn, RequeueProgress, Zenon
    <3>3. NULL \notin Jobs
      BY StoreAssumption DEF StoreAssumption
    <3>4. CASE t.fresh = NULL
      BY <3>1, <3>2, <3>3, <3>4
    <3>5. CASE t.fresh # NULL
      BY <2>3, <3>1, <3>5
    <3> QED
      BY <3>4, <3>5
  <2> QED
    BY <2>1, <2>2, <2>3
<1>12. \A u \in Sessions : HoldsLocks(u)'
  BY <1>9, <1>10
<1> QED
  BY <1>2, <1>7, <1>11, <1>12, LocksFromSessions

------------------------------------------------------------------------------
\* The steps of one session.

\* What a step leaves to a transaction that takes no part in it.
LEMMA SessionStays ==
    ASSUME TxnInv, NEW u \in Sessions, txn'[u] = txn[u], txn[u] # NULL => Kept(u)
    PROVE  SessionInv(u)'
<1>1. CASE txn[u] = NULL
  BY <1>1 DEF SessionInv
<1>2. CASE txn[u] # NULL
  BY <1>2, OpenTxn, ProgressStays, ReadsStay DEF SessionInv
<1> QED
  BY <1>1, <1>2

\* A transaction that is as it should be in the state before a step that writes no
\* table is as it should be after it.
LEMMA SessionAfter ==
    ASSUME NEW s \in Sessions, NEW t \in Txn, Progress(t), ReadsHold(t), txn'[s] = t,
           UNCHANGED storeVars
    PROVE  SessionInv(s)'
<1>1. UNCHANGED <<status, lockedBy, lockedUntil, due, retryCount, maxRetries, attempts, deadLetters>>
  BY DEF storeVars, jobVars
<1>2. WrittenBy(txn[s])' = WrittenBy(t)
  BY DEF WrittenBy
<1>3. Unclosed(txn[s])' = Unclosed(t)
  BY <1>1, <1>2 DEF Unclosed, AttemptRunning
<1>4. Progress(txn[s])'
  BY <1>1, <1>2, <1>3 DEF Progress
<1>5. ASSUME NEW j
      PROVE  /\ NewVersion(txn[s], j)' = NewVersion(t, j)
             /\ Selectable(txn[s], j)' = Selectable(t, j) /\ JobMatches(txn[s], j)' = JobMatches(t, j)
  <2>1. NewVersion(txn[s], j)' = NewVersion(t, j)
    BY <1>1 DEF NewVersion, FailureOf
  <2>2. Selectable(txn[s], j)' = Selectable(t, j)
    BY <1>1 DEF Selectable, Claimable
  <2>3. JobMatches(txn[s], j)' = JobMatches(t, j)
    BY <1>1 DEF JobMatches, Owns
  <2> QED
    BY <2>1, <2>2, <2>3
<1>6. ReadsHold(txn[s])'
  BY <1>1, <1>2, <1>5 DEF ReadsHold, AttemptRunning
<1> QED
  BY <1>4, <1>6 DEF SessionInv

\* The part of the invariant that a step of a session may disturb while no table
\* changes.
SessionsInv == TxnTypeOK /\ LocksMatchWrites /\ RequeuesApart /\ \A u \in Sessions : SessionInv(u)

\* The transaction of s is now t, and has locked the rows R besides.
LEMMA OwnStep ==
    ASSUME TxnInv, NEW s \in Sessions, NEW t \in Txn, Progress(t), ReadsHold(t),
           NEW R \in SUBSET Rows,
           txn' = [txn EXCEPT ![s] = t],
           lock' = [r \in Rows |-> IF r \in R THEN s ELSE lock[r]],
           UNCHANGED storeVars,
           \A r \in R : lock[r] \in {NULL, s},
           \A j \in WrittenBy(t) : JobRow(j) \in R \/ lock[JobRow(j)] = s,
           \A r \in t.closed : r \in R \/ lock[r] = s,
           t.kind = "requeue" /\ t.step = 2 => LetterRow(t.job) \in R,
           t.kind = "requeue" => \A u \in Sessions \ {s} : txn[u] # NULL => txn[u].fresh # t.fresh
    PROVE  SessionsInv'
<1>1. t.kind # "requeue" => t.fresh = NULL
  BY Zenon DEF Progress
<1>2. t.kind = "requeue" => t.job \in Jobs /\ t.fresh # NULL
  BY RequeueProgress, StoreAssumption DEF StoreAssumption
<1>3. t.fresh # NULL => \A u \in Sessions \ {s} : txn[u] # NULL => txn[u].fresh # t.fresh
  BY <1>1
<1>4. TxnTypeOK' /\ LocksMatchWrites' /\ RequeuesApart'
  BY <1>2, <1>3, MoreLocks, Zenon
<1>5. txn'[s] = t /\ \A u \in Sessions : u # s => txn'[u] = txn[u]
  BY DEF TxnInv, TxnTypeOK
<1>6. ASSUME NEW u \in Sessions
      PROVE  SessionInv(u)'
  <2>1. CASE u = s
    BY <1>5, <2>1, SessionAfter
  <2>2. CASE u # s
    BY <1>5, <2>2, KeptUnchanged, SessionStays
  <2> QED
    BY <2>1, <2>2
<1> QED
  BY <1>4, <1>6 DEF SessionsInv

\* Opening such a transaction keeps the invariant.
LEMMA OpenInv ==
    ASSUME TxnInv, NEW s \in Sessions, NEW t \in Txn, Open(s, t), Progress(t), ReadsHold(t),
           WrittenBy(t) = {}, t.closed = {}, t.step = 1,
           t.kind = "requeue" => Unused(t.fresh)
    PROVE  SessionsInv'
<1>1. lock' = [r \in Rows |-> IF r \in {} THEN s ELSE lock[r]]
  BY DEF Open, TxnInv, TxnTypeOK
<1>2. txn' = [txn EXCEPT ![s] = t] /\ UNCHANGED storeVars
  BY DEF Open
<1>3. t.kind = "requeue" => \A u \in Sessions \ {s} : txn[u] # NULL => txn[u].fresh # t.fresh
  BY DEF Unused
<1>4. t.step # 2 /\ {} \in SUBSET Rows
  OBVIOUS
<1> QED
  BY <1>1, <1>2, <1>3, <1>4, OwnStep, Zenon

\* A new transaction is well formed.
LEMMA NewType ==
    ASSUME NEW kind \in DOMAIN Statements
    PROVE  New(kind) \in Txn /\ \A t \in Txn : t.columns = New(kind).columns => WrittenBy(t) = {}
<1>1. New(kind) \in Txn
  <2>1. 1 \in 1..3 /\ 0 \in Nat
    OBVIOUS
  <2> QED
    BY <2>1, Zenon DEF New, Txn
<1>2. \A j \in Jobs : New(kind).columns[j] = NULL
  BY DEF New
<1> QED
  BY <1>1, <1>2 DEF WrittenBy

\* Every method opens its transaction so.
LEMMA BeginInv ==
    ASSUME TxnInv, NEW s \in Sessions, Begin(s)
    PROVE  SessionsInv'
<1>1. DOMAIN Statements = {"claim", "recover", "complete", "fail", "cancel", "pause", "resume", "retry", "requeue"}
  BY DEF Statements
<1>2. DOMAIN Operations = {"cancel", "pause", "resume", "retry"}
  BY DEF Operations
<1>3. \A kind \in DOMAIN Statements : New(kind) \in Txn
  BY NewType
<1>4. ASSUME NEW t \in Txn, NEW kind \in DOMAIN Statements, Open(s, t),
             t.kind = kind, t.step = 1, t.closed = {}, t.columns = New(kind).columns,
             kind = "claim" => t.worker \in Workers,
             kind \in {"complete", "fail"} =>
                /\ t.job \in Jobs /\ t.attempt \in DOMAIN attempts[t.job]
                /\ t.worker = attempts[t.job][t.attempt].worker
                /\ kind = "fail" => t.outcome \in ExecutionErrors,
             kind \in DOMAIN Operations => t.job \in Jobs,
             IF kind = "requeue" THEN t.job \in Jobs /\ t.fresh \in Jobs /\ Unused(t.fresh)
                                 ELSE t.fresh = NULL
      PROVE  SessionsInv'
  <2>1. WrittenBy(t) = {}
    BY <1>4, NewType, Zenon
  <2>2. kind = "requeue" => status[t.fresh] = "ABSENT"
    BY <1>4 DEF Unused
  <2>3. Progress(t) /\ ReadsHold(t)
    BY <1>4, <2>1, <2>2, NewTxn, Zenon
  <2> QED
    BY <1>4, <2>1, <2>3, OpenInv, Zenon
<1>5. ASSUME NEW w \in Workers, Open(s, [New("claim") EXCEPT !.worker = w])
      PROVE  SessionsInv'
  <2> DEFINE t == [New("claim") EXCEPT !.worker = w]
  <2>1. /\ t \in Txn /\ t.kind = "claim" /\ t.step = 1 /\ t.closed = {} /\ t.columns = New("claim").columns
        /\ t.worker \in Workers /\ t.fresh = NULL /\ "claim" \in DOMAIN Statements
    BY <1>1, <1>3 DEF New, Txn
  <2>2. Open(s, t)
    BY <1>5
  <2> HIDE DEF t
  <2> QED
    BY <1>2, <1>4, <2>1, <2>2, Zenon
<1>6. ASSUME Open(s, New("recover"))
      PROVE  SessionsInv'
  <2> DEFINE t == New("recover")
  <2>1. /\ t \in Txn /\ t.kind = "recover" /\ t.step = 1 /\ t.closed = {} /\ t.fresh = NULL
        /\ "recover" \in DOMAIN Statements
    BY <1>1, <1>3 DEF New, Txn
  <2> QED
    BY <1>2, <1>4, <1>6, <2>1
<1>7. ASSUME NEW j \in Jobs, NEW a \in DOMAIN attempts[j], NEW kind \in {"complete", "fail"},
             NEW outcome \in ExecutionErrors \cup {"none"}, kind = "fail" => outcome \in ExecutionErrors,
             Open(s, Finalizes(kind, j, a, outcome))
      PROVE  SessionsInv'
  <2> DEFINE t == Finalizes(kind, j, a, outcome)
  <2>1. a \in Nat /\ attempts[j][a].worker \in Workers /\ kind \in DOMAIN Statements
    <3>1. attempts[j] \in Seq(Attempt)
      BY DEF TxnInv, StoreInv, TypeOK
    <3>2. a \in Nat /\ attempts[j][a] \in Attempt
      BY <3>1, LenProperties, ElementOfSeq
    <3> QED
      BY <1>1, <3>2 DEF Attempt
  <2>2. /\ t \in Txn /\ t.kind = kind /\ t.step = 1 /\ t.closed = {} /\ t.columns = New(kind).columns
        /\ t.job = j /\ t.attempt = a /\ t.worker = attempts[j][a].worker /\ t.outcome = outcome
        /\ t.fresh = NULL
    <3> DEFINE new == New(kind)  w == attempts[j][a].worker
    <3>1. new \in Txn /\ new.kind = kind /\ new.step = 1 /\ new.closed = {} /\ new.fresh = NULL
      BY <1>3, <2>1 DEF New
    <3>2. t = [new EXCEPT !.job = j, !.attempt = a, !.worker = w, !.outcome = outcome]
      BY DEF Finalizes
    <3>3. w \in Workers
      BY <2>1
    <3> HIDE DEF t, new, w
    <3>4. [new EXCEPT !.job = j, !.attempt = a, !.worker = w, !.outcome = outcome] \in Txn
      BY <2>1, <3>1, <3>3, Zenon DEF Txn
    <3>5. /\ t.kind = kind /\ t.step = 1 /\ t.closed = {} /\ t.columns = new.columns
          /\ t.job = j /\ t.attempt = a /\ t.worker = w /\ t.outcome = outcome /\ t.fresh = NULL
      BY <3>1, <3>2 DEF Txn
    <3> QED
      BY <3>2, <3>4, <3>5 DEF w, new
  <2>3. Open(s, t)
    BY <1>7
  <2> HIDE DEF t
  <2> QED
    BY <1>2, <1>4, <1>7, <2>1, <2>2, <2>3, Zenon
<1>8. ASSUME NEW j \in Jobs, NEW kind \in Operators, Open(s, [New(kind) EXCEPT !.job = j])
      PROVE  SessionsInv'
  <2> DEFINE t == [New(kind) EXCEPT !.job = j]
  <2>1. kind \in DOMAIN Operations /\ kind \in DOMAIN Statements /\ kind \in {"cancel", "pause", "resume", "retry"}
    BY <1>1, <1>2, TxnAssumption
  <2>2. /\ t \in Txn /\ t.kind = kind /\ t.step = 1 /\ t.closed = {} /\ t.columns = New(kind).columns
        /\ t.job = j /\ t.fresh = NULL
    BY <1>3, <2>1 DEF New, Txn
  <2>3. Open(s, t)
    BY <1>8
  <2> HIDE DEF t
  <2> QED
    BY <1>4, <2>1, <2>2, <2>3, Zenon
<1>9. ASSUME NEW j \in Jobs, NEW n \in Jobs, Unused(n),
             Open(s, [New("requeue") EXCEPT !.job = j, !.fresh = n])
      PROVE  SessionsInv'
  <2> DEFINE t == [New("requeue") EXCEPT !.job = j, !.fresh = n]
  <2>1. /\ t \in Txn /\ t.kind = "requeue" /\ t.step = 1 /\ t.closed = {} /\ t.columns = New("requeue").columns
        /\ t.job = j /\ t.fresh = n /\ "requeue" \in DOMAIN Statements
    <3> DEFINE new == New("requeue")
    <3>1. new \in Txn /\ new.kind = "requeue" /\ new.step = 1 /\ new.closed = {} /\ "requeue" \in DOMAIN Statements
      BY <1>1, <1>3 DEF New
    <3>2. t = [new EXCEPT !.job = j, !.fresh = n]
      OBVIOUS
    <3> HIDE DEF t, new
    <3>3. [new EXCEPT !.job = j, !.fresh = n] \in Txn
      BY <3>1, Zenon DEF Txn
    <3>4. /\ t.kind = "requeue" /\ t.step = 1 /\ t.closed = {} /\ t.columns = new.columns
          /\ t.job = j /\ t.fresh = n
      BY <3>1, <3>2 DEF Txn
    <3> QED
      BY <3>1, <3>2, <3>3, <3>4 DEF new
  <2>2. Open(s, t)
    BY <1>9
  <2> HIDE DEF t
  <2> QED
    BY <1>2, <1>4, <1>9, <2>1, <2>2, Zenon
<1>10. ASSUME NEW j \in Jobs, NEW a \in DOMAIN attempts[j],
              \/ Open(s, Finalizes("complete", j, a, "none"))
              \/ \E error \in ExecutionErrors : Open(s, Finalizes("fail", j, a, error))
       PROVE  SessionsInv'
  BY <1>7, <1>10, Zenon
<1> QED
  BY <1>5, <1>6, <1>8, <1>9, <1>10, Zenon DEF Begin

\* The UPDATE of a jobs row by its identifier.
LEMMA UpdateJob ==
    ASSUME TxnInv, NEW t \in Txn, Progress(t), ReadsHold(t), t.step <= Len(Statements[t.kind]),
           Statement(t) = "job", JobMatches(t, t.job)
    PROVE  LET n == Written(t) IN
           /\ n \in Txn /\ Progress(n) /\ ReadsHold(n) /\ n.kind # "requeue"
           /\ t.job \in Jobs /\ WrittenBy(n) = {t.job} /\ n.closed = t.closed /\ WrittenBy(t) = {}
<1> DEFINE j == t.job  version == NewVersion(t, t.job)
           n == [t EXCEPT !.step = t.step + 1, !.columns = [t.columns EXCEPT ![j] = version],
                          !.closed = t.closed]
<1>1. \/ t.kind = "complete" /\ t.step = 1
      \/ t.kind = "fail" /\ t.step = 2
      \/ t.kind \in DOMAIN Operations /\ t.step = 1
  BY StandsAt, Zenon
<1>2. DOMAIN Operations = {"cancel", "pause", "resume", "retry"}
  BY DEF Operations
<1>3. t.fresh = NULL /\ t.kind \notin {"claim", "recover", "requeue"}
  BY <1>1, <1>2, Zenon DEF Progress
<1>4. j \in Jobs /\ WrittenBy(t) = {} /\ (t.kind = "fail" => t.attempt \in DOMAIN attempts[j])
  <2>1. CASE t.kind \in {"complete", "fail"}
    <3>1. ~(t.step > (IF t.kind = "complete" THEN 1 ELSE 2))
      BY <1>1, <1>2, <2>1
    <3> QED
      BY <2>1, <3>1, FinalizerProgress, Zenon
  <2>2. CASE t.kind \in DOMAIN Operations
    <3>1. ~(t.step > 1)
      BY <1>1, <1>2, <2>2
    <3> QED
      BY <1>2, <2>2, <3>1, OperationProgress, Zenon
  <2> QED
    BY <1>1, <2>1, <2>2
<1>5. version \in Version /\ version # NULL
  <2>1. version \in Version
    BY <1>3, <1>4, VersionType DEF TxnInv, StoreInv
  <2> QED
    BY <2>1, TxnAssumption
<1>6. t.step + 1 \in 1..3 /\ t.columns \in [Jobs -> Version \cup {NULL}]
  BY <1>1 DEF Txn
<1> HIDE DEF version
<1>7. [t.columns EXCEPT ![j] = version] \in [Jobs -> Version \cup {NULL}]
  BY <1>4, <1>5, <1>6
<1>8. n \in Txn
  <2>1. t.closed \in SUBSET Rows
    BY DEF Txn
  <2> QED
    BY <1>6, <1>7, <2>1, Zenon DEF Txn
<1>9. /\ n.kind = t.kind /\ n.step = t.step + 1 /\ n.job = j /\ n.attempt = t.attempt /\ n.worker = t.worker
      /\ n.outcome = t.outcome /\ n.fresh = t.fresh /\ n.closed = t.closed
      /\ n.columns = [t.columns EXCEPT ![j] = version]
  BY DEF Txn
<1> HIDE DEF n
<1>10. WrittenBy(n) = {j} /\ n.columns[j] = version
  <2>1. n.columns[j] = version /\ \A i \in Jobs \ {j} : n.columns[i] = t.columns[i]
    BY <1>4, <1>6, <1>9
  <2>2. \A i \in Jobs : t.columns[i] = NULL
    BY <1>4 DEF WrittenBy
  <2> QED
    BY <1>4, <1>5, <2>1, <2>2 DEF WrittenBy
<1>11. Progress(n)
  <2>1. CASE t.kind \in {"complete", "fail"}
    <3>1. n.step > (IF t.kind = "complete" THEN 1 ELSE 2)
      BY <1>1, <1>2, <1>9, <2>1
    <3>2. (n.step > (IF t.kind = "complete" THEN 2 ELSE 1)) <=> (t.step > (IF t.kind = "complete" THEN 2 ELSE 1))
      BY <1>1, <1>2, <1>9, <2>1
    <3> QED
      BY <1>3, <1>8, <1>9, <1>10, <2>1, <3>1, <3>2, FinalizerProgress, FinalizerIs, Zenon
  <2>2. CASE t.kind \in DOMAIN Operations
    <3>1. n.step = 2
      BY <1>1, <1>2, <1>9, <2>2
    <3>2. n.step > 1 /\ n.step < 3 /\ n.step # 3
      BY <3>1
    <3>3. t.closed = {}
      BY <1>2, <1>4, <2>2, Zenon DEF Progress
    <3> QED
      BY <1>3, <1>4, <1>8, <1>9, <1>10, <2>2, <3>2, <3>3, OperationIs, Zenon
  <2> QED
    BY <1>1, <2>1, <2>2
<1>12. ReadsHold(n)
  <2>1. NewVersion(n, j) = version /\ JobMatches(n, j)
    <3>1. n.kind = t.kind /\ n.worker = t.worker /\ n.attempt = t.attempt /\ n.outcome = t.outcome
      BY <1>9
    <3>2. \A i : NewVersion(n, i) = NewVersion(t, i) /\ JobMatches(n, i) = JobMatches(t, i)
      BY <3>1, SameArguments
    <3> QED
      BY <3>2 DEF version
  <2>2. \A r \in n.closed : AttemptRunning(r[1], r[2])
    BY <1>9, Zenon DEF ReadsHold
  <2> QED
    BY <1>3, <1>9, <1>10, <2>1, <2>2, Zenon DEF ReadsHold
<1>13. Written(t) = n
  <2>1. Statement(t) # "attempt"
    OBVIOUS
  <2> QED
    BY <2>1, Zenon DEF Written, n, version
<1> QED
  BY <1>3, <1>4, <1>8, <1>9, <1>10, <1>11, <1>12, <1>13, Zenon

\* The UPDATE of the attempt that is finalized.
LEMMA UpdateAttempt ==
    ASSUME TxnInv, NEW t \in Txn, Progress(t), ReadsHold(t), t.step <= Len(Statements[t.kind]),
           Statement(t) = "attempt", AttemptRunning(t.job, t.attempt)
    PROVE  LET n == Written(t) IN
           /\ n \in Txn /\ Progress(n) /\ ReadsHold(n) /\ n.kind # "requeue"
           /\ WrittenBy(n) = WrittenBy(t) /\ n.closed = {AttemptRow(t.job, t.attempt)}
           /\ AttemptRow(t.job, t.attempt) \in Rows /\ t.closed = {}
<1> DEFINE row == AttemptRow(t.job, t.attempt)
           n == [t EXCEPT !.step = t.step + 1, !.columns = t.columns, !.closed = {row}]
<1>1. \/ t.kind = "complete" /\ t.step = 2
      \/ t.kind = "fail" /\ t.step = 1
  BY StandsAt, Zenon
<1>2. /\ t.kind \in {"complete", "fail"} /\ t.kind \notin {"claim", "recover", "requeue"}
      /\ t.step + 1 \in 1..3 /\ t.columns \in [Jobs -> Version \cup {NULL}]
  BY <1>1 DEF Txn
<1>3. t.fresh = NULL
  BY <1>2, Zenon DEF Progress
<1>4. /\ t.job \in Jobs /\ t.attempt \in DOMAIN attempts[t.job]
      /\ t.worker = attempts[t.job][t.attempt].worker
      /\ t.kind = "fail" => t.outcome \in ExecutionErrors
      /\ WrittenBy(t) = IF t.step > (IF t.kind = "complete" THEN 1 ELSE 2) THEN {t.job} ELSE {}
  BY <1>2, FinalizerProgress, Zenon
<1>5. row \in Rows
  BY <1>4, AttemptRows, StoreAssumption DEF TxnInv, StoreInv
<1>12. t.closed = {}
  <2>1. ~(t.step > (IF t.kind = "complete" THEN 2 ELSE 1))
    BY <1>1
  <2> QED
    BY <1>2, <2>1, FinalizerProgress, Zenon
<1> HIDE DEF row
<1>6. n \in Txn
  BY <1>2, <1>5, Zenon DEF Txn
<1>7. /\ n.kind = t.kind /\ n.step = t.step + 1 /\ n.job = t.job /\ n.attempt = t.attempt
      /\ n.worker = t.worker /\ n.outcome = t.outcome /\ n.fresh = t.fresh /\ n.closed = {row}
      /\ n.columns = t.columns
  BY DEF Txn
<1> HIDE DEF n
<1>8. WrittenBy(n) = WrittenBy(t)
  BY <1>7 DEF WrittenBy
<1>9. Progress(n)
  <2>1. n.step > (IF t.kind = "complete" THEN 2 ELSE 1)
    BY <1>1, <1>7
  <2>2. (n.step > (IF t.kind = "complete" THEN 1 ELSE 2)) <=> (t.step > (IF t.kind = "complete" THEN 1 ELSE 2))
    BY <1>1, <1>7
  <2> QED
    BY <1>2, <1>3, <1>4, <1>6, <1>7, <1>8, <2>1, <2>2, FinalizerIs, Zenon DEF row
<1>10. ReadsHold(n)
  <2>1. \A j \in WrittenBy(n) : n.columns[j] = NewVersion(n, j) /\ JobMatches(n, j)
    <3>1. \A j \in WrittenBy(t) : t.columns[j] = NewVersion(t, j) /\ JobMatches(t, j)
      BY <1>2, Zenon DEF ReadsHold
    <3>2. \A j : NewVersion(n, j) = NewVersion(t, j) /\ JobMatches(n, j) = JobMatches(t, j)
      BY <1>7, SameArguments
    <3> QED
      BY <1>7, <1>8, <3>1, <3>2
  <2>2. row[1] = t.job /\ row[2] = t.attempt
    BY DEF row, AttemptRow
  <2>3. \A r \in n.closed : AttemptRunning(r[1], r[2])
    BY <1>7, <2>2
  <2> QED
    BY <1>2, <1>7, <2>1, <2>3, Zenon DEF ReadsHold
<1>11. Written(t) = n
  <2>1. Statement(t) # "job" /\ Target(t) = row
    BY DEF Target, row
  <2> QED
    BY <2>1, Zenon DEF Written, n
<1> QED
  BY <1>2, <1>5, <1>6, <1>7, <1>8, <1>9, <1>10, <1>11, <1>12, Zenon DEF row

\* The SELECT FOR UPDATE of a dead letter.
LEMMA UpdateLetter ==
    ASSUME TxnInv, NEW t \in Txn, Progress(t), ReadsHold(t), t.step <= Len(Statements[t.kind]),
           Statement(t) = "letter", deadLetters[t.job] = <<NULL>>
    PROVE  LET n == Written(t) IN
           /\ n \in Txn /\ Progress(n) /\ ReadsHold(n) /\ n.kind = "requeue" /\ n.job = t.job
           /\ WrittenBy(n) = {} /\ n.closed = {} /\ n.fresh = t.fresh /\ t.job \in Jobs
           /\ n.step = 2 /\ WrittenBy(t) = {} /\ t.closed = {} /\ t.step = 1
<1> DEFINE n == [t EXCEPT !.step = t.step + 1, !.columns = t.columns, !.closed = t.closed]
<1>1. t.kind = "requeue" /\ t.step = 1
  BY StandsAt, Zenon
<1>2. t.step + 1 \in 1..3 /\ t.columns \in [Jobs -> Version \cup {NULL}] /\ t.closed \in SUBSET Rows
  BY <1>1 DEF Txn
<1>3. t.job \in Jobs /\ t.fresh \in Jobs /\ WrittenBy(t) = {} /\ t.closed = {}
  BY <1>1, RequeueProgress, Zenon
<1>4. n \in Txn
  BY <1>2, Zenon DEF Txn
<1>5. /\ n.kind = "requeue" /\ n.step = 2 /\ n.job = t.job /\ n.fresh = t.fresh /\ n.closed = t.closed
      /\ n.columns = t.columns
  BY <1>1 DEF Txn
<1> HIDE DEF n
<1>6. WrittenBy(n) = {}
  BY <1>3, <1>5 DEF WrittenBy
<1>7. Progress(n)
  <2>1. n.step <= Len(Statements[n.kind]) + 1 /\ n.kind \notin DOMAIN Operations
    <3>1. Len(Statements["requeue"]) = 1
      BY DEF Statements
    <3>2. n.kind \notin DOMAIN Operations
      BY <1>5 DEF Operations
    <3> QED
      BY <1>5, <3>1, <3>2
  <2> QED
    BY <1>3, <1>5, <1>6, <2>1, Zenon DEF Progress
<1>8. ReadsHold(n)
  <2>1. status[t.fresh] = "ABSENT"
    BY <1>1, Zenon DEF ReadsHold
  <2> QED
    BY <1>3, <1>5, <1>6, <2>1, Zenon DEF ReadsHold
<1>9. Written(t) = n
  <2>1. Statement(t) # "job" /\ Statement(t) # "attempt"
    OBVIOUS
  <2> QED
    BY <2>1, Zenon DEF Written, n
<1> QED
  BY <1>1, <1>3, <1>4, <1>5, <1>6, <1>7, <1>8, <1>9, Zenon

\* One more row is locked.
LEMMA LockOne ==
    ASSUME lock \in [Rows -> Sessions \cup {NULL}], NEW s \in Sessions, NEW row \in Rows
    PROVE  [lock EXCEPT ![row] = s] = [r \in Rows |-> IF r \in {row} THEN s ELSE lock[r]]
  BY Zenon

\* A transaction that closes all RUNNING attempts of its jobs is as far as its
\* writes say, and has read nothing else, whatever it has closed.
LEMMA CloserIs ==
    ASSUME NEW t \in Txn, Progress(t), ReadsHold(t), t.kind \in {"cancel", "recover"}, t.step = 2,
           NEW n \in Txn, n.kind = t.kind, n.job = t.job, n.worker = t.worker, n.attempt = t.attempt,
           n.outcome = t.outcome, n.fresh = t.fresh, n.columns = t.columns, n.step \in {2, 3},
           \A r \in n.closed : r[1] \in WrittenBy(t) /\ AttemptRunning(r[1], r[2]),
           n.step = 3 => Unclosed(n) = {}
    PROVE  Progress(n) /\ ReadsHold(n) /\ WrittenBy(n) = WrittenBy(t) /\ n.kind # "requeue"
<1>1. WrittenBy(n) = WrittenBy(t)
  BY DEF WrittenBy
<1>2. n.kind \notin {"requeue", "claim", "complete", "fail", "pause", "resume", "retry"} /\ t.step > 1
  OBVIOUS
<1>3. n.step > 1 /\ n.step # 1 /\ n.step <= Len(Statements[n.kind]) + 1
  <2>1. Len(Statements["cancel"]) = 2 /\ Len(Statements["recover"]) = 2
    BY DEF Statements
  <2>2. Len(Statements[n.kind]) = 2
    BY <2>1, Zenon
  <2>3. n.step = 2 \/ n.step = 3
    OBVIOUS
  <2> QED
    BY <2>2, <2>3
<1>4. t.fresh = NULL
  BY <1>2, Zenon DEF Progress
<1>5. t.kind = "cancel" => t.kind \in DOMAIN Operations
  BY DEF Operations
<1>6. t.kind = "recover" => t.kind \notin DOMAIN Operations
  BY DEF Operations
<1>7. t.kind \in DOMAIN Operations => t.job \in Jobs /\ WrittenBy(t) = {t.job}
  BY <1>2, OperationProgress, Zenon
<1>8. Progress(n)
  BY <1>1, <1>2, <1>3, <1>4, <1>6, <1>7, Zenon DEF Progress
<1>9. \A j \in WrittenBy(n) :
         /\ n.columns[j] = NewVersion(n, j)
         /\ IF n.kind \in {"claim", "recover"} THEN Selectable(n, j) ELSE JobMatches(n, j)
  <2>1. \A j \in WrittenBy(t) :
           /\ t.columns[j] = NewVersion(t, j)
           /\ IF t.kind \in {"claim", "recover"} THEN Selectable(t, j) ELSE JobMatches(t, j)
    BY Zenon DEF ReadsHold
  <2>2. \A j : /\ NewVersion(n, j) = NewVersion(t, j)
               /\ Selectable(n, j) = Selectable(t, j) /\ JobMatches(n, j) = JobMatches(t, j)
    BY SameArguments
  <2> QED
    BY <1>1, <2>1, <2>2
<1>10. ReadsHold(n)
  BY <1>2, <1>9, Zenon DEF ReadsHold
<1> QED
  BY <1>1, <1>2, <1>8, <1>10

\* What such a transaction has closed so far.
LEMMA ClosedSoFar ==
    ASSUME NEW t \in Txn, Progress(t), ReadsHold(t), t.kind \in {"cancel", "recover"}
    PROVE  \A r \in t.closed : r[1] \in WrittenBy(t) /\ AttemptRunning(r[1], r[2])
<1>1. \A r \in t.closed : r[1] \in WrittenBy(t)
  BY Zenon DEF Progress
<1>2. \A r \in t.closed : AttemptRunning(r[1], r[2])
  BY Zenon DEF ReadsHold
<1> QED
  BY <1>1, <1>2
==============================================================================
