--------------------------- MODULE JobServiceProofs ---------------------------
(***************************************************************************)
(* Proofs about the job service: it implements the job store, and what its *)
(* handlers tell their clients stays true, for any number of requests,     *)
(* jobs, tenants, keys and workers.                                        *)
(***************************************************************************)
EXTENDS JobService, JobStoreProofs

\* A step keeps the columns of the rows that were there before it.
ColumnsKept ==
    \A j \in Jobs : status[j] # "ABSENT" =>
        jobTenant'[j] = jobTenant[j] /\ jobKey'[j] = jobKey[j] /\ jobHash'[j] = jobHash[j]

\* A handler writes through the repository only, and what it writes is one of
\* the repository's transactions.
LEMMA ServiceStepImplements ==
    ASSUME ServiceInv, [ServiceNext]_serviceVars
    PROVE  [StoreNext]_storeVars
<1>1. CASE UNCHANGED serviceVars
  BY <1>1 DEF serviceVars
<1>2. CASE WorkersStep
  BY <1>2 DEF WorkersStep, StoreNext, JobNext
<1>3. ASSUME NEW h \in Handlers, NEW r \in CreateRequest, Insert(h, r)
      PROVE  StoreNext
  BY <1>3 DEF Insert, StoreNext, JobNext
<1>4. ASSUME NEW h \in Handlers, NEW r \in RequeueRequest, Requeue(h, r)
      PROVE  StoreNext
  BY <1>4 DEF Requeue, RequeueRequest, StoreNext, JobNext
<1>5. ASSUME NEW h \in Handlers, Write(h)
      PROVE  StoreNext
  <2>1. request[h].kind \in DOMAIN Operations /\ request[h].job \in Jobs
    BY <1>5 DEF Write, ServiceInv, HandlersInv, HandlerInStep, OperationRequest
  <2> QED
    BY <1>5, <2>1 DEF Write, StoreNext, JobNext
<1>6. ASSUME NEW h \in Handlers,
             \/ \E r \in CreateRequest : InsertConflicts(h, r)
             \/ \E r \in OperationRequest : Read(h, r)
             \/ \E r \in RequeueRequest : RequeueRefused(h, r)
             \/ Lookup(h) \/ WriteRefused(h) \/ CallFails(h)
      PROVE  UNCHANGED storeVars
  BY <1>6 DEF InsertConflicts, Read, RequeueRefused, Lookup, WriteRefused, CallFails
<1> QED
  BY <1>1, <1>2, <1>3, <1>4, <1>5, <1>6 DEF ServiceNext, HandlerStep

------------------------------------------------------------------------------
\* What a step leaves to the other handlers and rows.

\* What a handler told its client holds on when the columns of the inserted
\* rows are kept.
LEMMA AnswersStay ==
    ASSUME ServiceInv, [StoreNext]_storeVars, NEW h \in Handlers,
           request'[h] = request[h], answer'[h] = answer[h],
           ColumnsKept
    PROVE  AnswerHolds(h)'
<1>1. TypeOK
  BY DEF ServiceInv, StoreInv
<1>2. CASE answer[h] \notin Jobs
  BY <1>2 DEF AnswerHolds
<1>3. CASE answer[h] \in Jobs
  BY <1>1, <1>3, RowsStay DEF ColumnsKept, ServiceInv, HandlersInv, AnswerHolds, CreateRequest, OperationRequest,
     RequeueRequest
<1> QED
  BY <1>2, <1>3

\* A step that writes no row's columns keeps what they are known to satisfy.
LEMMA ColumnsStay ==
    ASSUME ServiceInv, [StoreNext]_storeVars, UNCHANGED columnVars,
           \A j \in Jobs : status[j] = "ABSENT" => status'[j] = "ABSENT" /\ source'[j] = source[j]
    PROVE  ColumnsInv' /\ ColumnsKept
<1>1. TypeOK
  BY DEF ServiceInv, StoreInv
<1>2. \A j \in Jobs : /\ status'[j] = "ABSENT" <=> status[j] = "ABSENT"
                      /\ source'[j] = source[j]
  BY <1>1, RowsStay
<1> QED
  BY <1>2 DEF ServiceInv, ColumnsInv, ColumnsKept, ColumnsOfRows, KeysAreUnique,
     CopiesKeepTenant, columnVars

\* A step of handler h leaves the other handlers alone. A requeue it answers
\* names a job that did not exist before, hence no job that another one named.
LEMMA HandlersStay ==
    ASSUME ServiceInv, ServiceAssumption, [StoreNext]_storeVars, NEW h \in Handlers,
           NEW r \in CreateRequest \cup OperationRequest \cup RequeueRequest,
           NEW step \in {"lookup", "write", "done"}, NEW a \in Jobs \cup Refusals \cup {NULL},
           request' = [request EXCEPT ![h] = r], pc' = [pc EXCEPT ![h] = step],
           answer' = [answer EXCEPT ![h] = a],
           ColumnsKept,
           HandlerInStep(h)', AnswerHolds(h)',
           r.kind = "requeue" /\ a \in Jobs => status[a] = "ABSENT"
    PROVE  HandlersInv'
<1>0. StoreInv /\ ColumnsInv /\ HandlersInv
  BY DEF ServiceInv
<1>2. /\ request' \in [Handlers ->
            CreateRequest \cup OperationRequest \cup RequeueRequest \cup {NULL}]
      /\ pc' \in [Handlers -> {"receive", "lookup", "write", "done"}]
      /\ answer' \in [Handlers -> Jobs \cup Refusals \cup {NULL}]
  BY <1>0 DEF HandlersInv
<1>3. /\ request'[h] = r /\ answer'[h] = a
      /\ \A g \in Handlers \ {h} : /\ request'[g] = request[g] /\ pc'[g] = pc[g]
                                  /\ answer'[g] = answer[g]
  BY <1>0 DEF HandlersInv
<1>4. ASSUME NEW g \in Handlers \ {h}
      PROVE  HandlerInStep(g)' /\ AnswerHolds(g)'
  <2>1. AnswerHolds(g)'
    BY <1>3, <1>4, AnswersStay
  <2>2. HandlerInStep(g)
    BY <1>0, <1>4 DEF HandlersInv
  <2> QED
    BY <1>3, <1>4, <2>1, <2>2 DEF HandlerInStep, CreateRequest, OperationRequest
<1>5. \A g \in Handlers \ {h} :
         g \in Succeeded({"requeue"})' => status[answer[g]] # "ABSENT" /\ answer'[g] = answer[g]
  BY <1>0, <1>3 DEF HandlersInv, Succeeded, AnswerHolds
<1>6. h \in Succeeded({"requeue"})' => answer'[h] = a /\ status[a] = "ABSENT"
  BY <1>3 DEF Succeeded
<1>7. RequeuesDiffer'
  <2>1. ASSUME NEW f \in Succeeded({"requeue"})', NEW g \in Succeeded({"requeue"})', f # g
        PROVE  answer'[f] # answer'[g]
    <3>1. f \in Handlers /\ g \in Handlers
      BY <2>1 DEF Succeeded
    <3>2. CASE f = h \/ g = h
      BY <2>1, <3>1, <3>2, <1>5, <1>6
    <3>3. CASE f # h /\ g # h
      <4>1. f \in Succeeded({"requeue"}) /\ g \in Succeeded({"requeue"})
        BY <2>1, <3>1, <3>3, <1>3 DEF Succeeded
      <4> QED
        BY <2>1, <3>1, <3>3, <4>1, <1>0, <1>3 DEF HandlersInv, RequeuesDiffer
    <3> QED
      BY <3>2, <3>3
  <2> QED
    BY <2>1 DEF RequeuesDiffer
<1> QED
  <2>1. \A g \in Handlers : HandlerInStep(g)' /\ AnswerHolds(g)'
    BY <1>4
  <2> QED
    BY <1>2, <1>7, <2>1 DEF HandlersInv

------------------------------------------------------------------------------
\* The steps.

\* A worker, recovery or time neither inserts a row nor touches a handler.
LEMMA WorkersStepInv ==
    ASSUME ServiceInv, StoreInv', [StoreNext]_storeVars,
           WorkersStep \/ UNCHANGED serviceVars
    PROVE  ServiceInv'
<1>0. StoreInv /\ ColumnsInv /\ HandlersInv
  BY DEF ServiceInv
<1>1. TypeOK
  BY <1>0 DEF StoreInv
<1>2. UNCHANGED <<columnVars, handlerVars>>
  BY DEF WorkersStep, serviceVars
<1>3. \A j \in Jobs : status[j] = "ABSENT" => status'[j] = "ABSENT" /\ source'[j] = source[j]
  <2>1. CASE UNCHANGED serviceVars
    BY <2>1 DEF serviceVars, storeVars, jobVars
  <2>2. CASE WorkersStep
    BY <1>1, <2>2, WorkersKeepRows, Zenon DEF WorkersStep
  <2> QED
    BY <2>1, <2>2
<1>4. ColumnsInv' /\ ColumnsKept
  BY <1>2, <1>3, ColumnsStay
<1>5. RequeuesDiffer'
  BY <1>0, <1>2 DEF HandlersInv, RequeuesDiffer, Succeeded, handlerVars
<1>6. \A h \in Handlers : HandlerInStep(h)' /\ AnswerHolds(h)'
  BY <1>0, <1>2, <1>4, AnswersStay DEF HandlersInv, HandlerInStep, handlerVars
<1> QED
  BY <1>0, <1>2, <1>4, <1>5, <1>6 DEF ServiceInv, HandlersInv, handlerVars

\* A handler that writes nothing: it goes on to its second call, refuses, fails,
\* or replays the job that has the key and the hash of its request.
LEMMA QuietStepInv ==
    ASSUME ServiceInv, ServiceAssumption, StoreAssumption, NEW h \in Handlers,
           UNCHANGED <<storeVars, columnVars>>,
           NEW r \in CreateRequest \cup OperationRequest \cup RequeueRequest,
           NEW step \in {"lookup", "write", "done"}, NEW a \in Jobs \cup Refusals \cup {NULL},
           request' = [request EXCEPT ![h] = r], pc' = [pc EXCEPT ![h] = step],
           answer' = [answer EXCEPT ![h] = a],
           step = "lookup" => r \in CreateRequest /\ a = NULL,
           step = "write" => r \in OperationRequest /\ a = NULL,
           a \in Jobs => /\ r \in CreateRequest /\ a \in SameKey(r)
                        /\ jobHash[a] = r.hash
    PROVE  ServiceInv'
<1>0. StoreInv /\ ColumnsInv /\ HandlersInv
  BY DEF ServiceInv
<1>1. StoreInv' /\ [StoreNext]_storeVars
  BY <1>0, NextInv DEF storeVars, jobVars
<1>2. request'[h] = r /\ pc'[h] = step /\ answer'[h] = a
  BY <1>0 DEF HandlersInv
<1>3. HandlerInStep(h)'
  BY <1>2 DEF HandlerInStep, CreateRequest, OperationRequest
<1>4. ColumnsInv' /\ ColumnsKept
  BY <1>1, ColumnsStay DEF storeVars, jobVars
<1>5. a \in Jobs => /\ r.kind = "create" /\ status[a] # "ABSENT"
                   /\ jobTenant[a] = r.tenant /\ jobKey[a] = r.key
  BY <1>0 DEF ColumnsInv, SameKey, ColumnsOfRows, CreateRequest
<1>6. AnswerHolds(h)'
  BY <1>2, <1>5 DEF AnswerHolds, columnVars, storeVars, jobVars, CreateRequest
<1>7. HandlersInv'
  BY <1>1, <1>3, <1>4, <1>5, <1>6, HandlersStay, Zenon
<1> QED
  BY <1>1, <1>4, <1>7 DEF ServiceInv

\* The second call of cancel, pause, resume and retry.
LEMMA WriteInv ==
    ASSUME ServiceInv, ServiceAssumption, StoreInv', [StoreNext]_storeVars,
           NEW h \in Handlers, Write(h)
    PROVE  ServiceInv'
<1>0. StoreInv /\ ColumnsInv /\ HandlersInv
  BY DEF ServiceInv
<1> DEFINE r == request[h]
           op == Operations[r.kind]
<1>1. /\ r \in OperationRequest /\ r.kind \in DOMAIN Operations /\ r.job \in Jobs
      /\ Visible(r) /\ TransitionJob(r.job, op.from, op.to)
      /\ UNCHANGED <<columnVars, request>>
  BY <1>0 DEF HandlersInv, Write, HandlerInStep, OperationRequest
<1>2. PICK a \in {r.job, "error"} : Answer(h, a)
  BY DEF Write, Committed
<1>3. /\ status'[r.job] = op.to /\ op.to \in Statuses
      /\ r.kind = "cancel" => op.to = "CANCELLED"
      /\ status[r.job] # "ABSENT" /\ jobTenant[r.job] = r.tenant
      /\ \A j \in Jobs \ {r.job} : status'[j] = status[j]
      /\ UNCHANGED source
  <2>1. op.to \in Statuses /\ (r.kind = "cancel" => op.to = "CANCELLED")
    BY <1>1 DEF Operations, Statuses
  <2>2. /\ status' = [status EXCEPT ![r.job] = op.to] /\ UNCHANGED source
        /\ status[r.job] # "ABSENT" /\ jobTenant[r.job] = r.tenant
    BY <1>1 DEF TransitionJob, Visible
  <2>3. status \in [Jobs -> Statuses \cup {"ABSENT"}]
    BY <1>0 DEF StoreInv, TypeOK
  <2> HIDE DEF r, op
  <2> QED
    BY <1>1, <2>1, <2>2, <2>3
<1>4. ColumnsInv' /\ ColumnsKept
  BY <1>1, <1>3, ColumnsStay
<1>5. /\ request' = [request EXCEPT ![h] = r] /\ request'[h] = r
      /\ answer'[h] = a /\ pc'[h] = "done"
  BY <1>0, <1>1, <1>2 DEF HandlersInv, Answer
<1>6. a \in Jobs => a = r.job
  BY <1>2 DEF ServiceAssumption, Refusals
<1>7. HandlerInStep(h)'
  BY <1>5 DEF HandlerInStep
<1>8. r.kind # "create" /\ r.kind # "requeue"
  BY <1>1 DEF Operations
<1>9. AnswerHolds(h)'
  <2>1. status'[r.job] # "ABSENT" /\ jobTenant'[r.job] = r.tenant
    BY <1>1, <1>3 DEF Statuses, columnVars
  <2> HIDE DEF r, op
  <2> QED
    BY <1>1, <1>3, <1>5, <1>6, <1>8, <2>1 DEF AnswerHolds, OperationRequest
<1>10. HandlersInv'
  <2>1. a \in Jobs \cup Refusals \cup {NULL}
    BY <1>1, <1>2 DEF Refusals
  <2>2. /\ pc' = [pc EXCEPT ![h] = "done"]
        /\ answer' = [answer EXCEPT ![h] = a]
    BY <1>2 DEF Answer
  <2> HIDE DEF r, op
  <2> QED
    BY <1>1, <1>4, <1>5, <1>7, <1>8, <1>9, <2>1, <2>2, HandlersStay, Zenon
<1> QED
  BY <1>4, <1>10 DEF ServiceInv

\* Row n is inserted with its columns. The row it comes from, if any, has the
\* same tenant, and a key it brings is new to that tenant.
FreshRow(n) ==
    /\ status[n] = "ABSENT" /\ status'[n] # "ABSENT"
    /\ jobTenant' \in [Jobs -> Tenants \cup {NULL}] /\ jobTenant'[n] \in Tenants
    /\ jobKey' \in [Jobs -> Keys \cup {NULL}] /\ jobHash' \in [Jobs -> Hashes \cup {NULL}]
    /\ \A j \in Jobs \ {n} :
          /\ status'[j] = status[j] /\ source'[j] = source[j] /\ jobTenant'[j] = jobTenant[j]
          /\ jobKey'[j] = jobKey[j] /\ jobHash'[j] = jobHash[j]
    /\ source'[n] # NULL =>
          source'[n] \in Jobs \ {n} /\ jobTenant[source'[n]] = jobTenant'[n]
    /\ jobKey'[n] # NULL =>
          \A j \in Jobs : ~(jobKey[j] = jobKey'[n] /\ jobTenant[j] = jobTenant'[n])

\* A fresh row keeps the columns' part of the invariant.
LEMMA FreshColumns ==
    ASSUME ServiceInv, StoreAssumption, ServiceAssumption, NEW n \in Jobs, FreshRow(n)
    PROVE  ColumnsInv' /\ ColumnsKept
<1>0. StoreInv /\ ColumnsInv
  BY DEF ServiceInv
<1>1. \A j \in Jobs : source[j] # NULL => source[j] \in Jobs \ {n}
  <2>1. RequeuedOnce /\ OneDeadLetter /\ source \in [Jobs -> Jobs \cup {NULL}]
        /\ deadLetters[n] \in Seq(Jobs \cup {NULL})
    BY <1>0 DEF StoreInv, TypeOK
  <2>2. DOMAIN deadLetters[n] = {}
    BY <2>1 DEF OneDeadLetter, FreshRow
  <2> QED
    BY <2>1, <2>2 DEF RequeuedOnce
<1>2. CopiesKeepTenant'
  BY <1>0, <1>1 DEF ColumnsInv, CopiesKeepTenant, FreshRow
<1>3. KeysAreUnique'
  BY <1>0 DEF ColumnsInv, KeysAreUnique, FreshRow
<1>4. ColumnsOfRows'
  BY <1>0 DEF ColumnsInv, ColumnsOfRows, FreshRow
<1> QED
  BY <1>2, <1>3, <1>4 DEF ColumnsInv, ColumnsKept, FreshRow

\* What the INSERT sets.
LEMMA ColumnsSet ==
    ASSUME ServiceInv, NEW n \in Jobs, NEW t \in Tenants, NEW k \in Keys \cup {NULL},
           NEW x \in Hashes \cup {NULL}, SetColumns(n, t, k, x)
    PROVE  /\ jobTenant' \in [Jobs -> Tenants \cup {NULL}] /\ jobTenant'[n] = t
           /\ jobKey' \in [Jobs -> Keys \cup {NULL}] /\ jobKey'[n] = k
           /\ jobHash' \in [Jobs -> Hashes \cup {NULL}] /\ jobHash'[n] = x
           /\ \A j \in Jobs \ {n} : /\ jobTenant'[j] = jobTenant[j] /\ jobKey'[j] = jobKey[j]
                                   /\ jobHash'[j] = jobHash[j]
  BY DEF SetColumns, ServiceInv, ColumnsInv

\* A handler whose transaction inserts row n answers with n, which was in no
\* table before, so that nobody was answered with it.
LEMMA FreshRowInv ==
    ASSUME ServiceInv, ServiceAssumption, StoreAssumption, StoreInv', [StoreNext]_storeVars,
           NEW h \in Handlers, NEW r \in CreateRequest \cup RequeueRequest, NEW n \in Jobs,
           request' = [request EXCEPT ![h] = r], Committed(h, n),
           status[n] = "ABSENT", status'[n] # "ABSENT", ColumnsInv', ColumnsKept,
           jobTenant'[n] = r.tenant,
           r.kind = "create" => jobKey'[n] = r.key /\ jobHash'[n] = r.hash,
           r.kind = "requeue" => source'[n] = r.job
    PROVE  ServiceInv'
<1>1. PICK a \in {n, "error"} : Answer(h, a)
  BY DEF Committed
<1>2. a \in Jobs \cup Refusals \cup {NULL} /\ (a \in Jobs => a = n)
  BY <1>1 DEF ServiceAssumption, Refusals
<1>3. /\ pc' = [pc EXCEPT ![h] = "done"] /\ answer' = [answer EXCEPT ![h] = a]
      /\ request'[h] = r /\ pc'[h] = "done" /\ answer'[h] = a
  BY <1>1 DEF ServiceInv, HandlersInv, Answer
<1>4. r.kind # "cancel"
  BY DEF CreateRequest, RequeueRequest
<1>5. HandlerInStep(h)' /\ AnswerHolds(h)'
  BY <1>2, <1>3, <1>4 DEF HandlerInStep, AnswerHolds
<1>6. HandlersInv'
  BY <1>2, <1>3, <1>5, HandlersStay, Zenon
<1> QED
  BY <1>6 DEF ServiceInv

\* The INSERT of Create: SameKey(r) is empty, so the index stays unique.
LEMMA InsertInv ==
    ASSUME ServiceInv, ServiceAssumption, StoreAssumption, StoreInv', [StoreNext]_storeVars,
           NEW h \in Handlers, NEW r \in CreateRequest, Insert(h, r)
    PROVE  ServiceInv'
<1>1. PICK n \in Jobs, future \in BOOLEAN, max \in MaxRetriesChoices :
         /\ InsertJob(n, future, max, NULL, "job.created")
         /\ SetColumns(n, r.tenant, r.key, r.hash) /\ Committed(h, n)
  BY DEF Insert, Create
<1>2. /\ r.kind = "create" /\ r.tenant \in Tenants /\ r.key \in Keys \cup {NULL}
      /\ r.hash \in Hashes \cup {NULL} /\ request' = [request EXCEPT ![h] = r]
      /\ \A j \in Jobs : ~(r.key # NULL /\ jobKey[j] = r.key /\ jobTenant[j] = r.tenant)
  BY DEF Insert, Receive, SameKey, CreateRequest
<1>3. /\ status[n] = "ABSENT" /\ status'[n] # "ABSENT" /\ source'[n] = NULL
      /\ \A j \in Jobs \ {n} : status'[j] = status[j] /\ source'[j] = source[j]
  BY <1>1, RowInserted DEF ServiceInv, StoreInv
<1>4. /\ jobTenant' \in [Jobs -> Tenants \cup {NULL}] /\ jobTenant'[n] = r.tenant
      /\ jobKey' \in [Jobs -> Keys \cup {NULL}] /\ jobKey'[n] = r.key
      /\ jobHash' \in [Jobs -> Hashes \cup {NULL}] /\ jobHash'[n] = r.hash
      /\ \A j \in Jobs \ {n} : /\ jobTenant'[j] = jobTenant[j] /\ jobKey'[j] = jobKey[j]
                              /\ jobHash'[j] = jobHash[j]
  BY <1>1, <1>2, ColumnsSet
<1>5. FreshRow(n)
  BY <1>2, <1>3, <1>4 DEF FreshRow
<1>6. ColumnsInv' /\ ColumnsKept
  BY <1>5, FreshColumns
<1> QED
  BY <1>1, <1>2, <1>3, <1>4, <1>6, FreshRowInv, Zenon

\* A requeue: the copy belongs to the tenant, who was shown the original.
LEMMA RequeueInv ==
    ASSUME ServiceInv, ServiceAssumption, StoreAssumption, StoreInv', [StoreNext]_storeVars,
           NEW h \in Handlers, NEW r \in RequeueRequest, Requeue(h, r)
    PROVE  ServiceInv'
<1>1. PICK n \in Jobs, future \in BOOLEAN :
         /\ InsertJob(n, future, RequeueMaxRetries, r.job, "job.requeued")
         /\ SetColumns(n, r.tenant, NULL, NULL) /\ Committed(h, n)
  BY Zenon DEF Requeue, RequeueDeadLetter
<1>2. /\ r.kind = "requeue" /\ r.tenant \in Tenants /\ r.job \in Jobs
      /\ status[r.job] # "ABSENT" /\ jobTenant[r.job] = r.tenant
      /\ request' = [request EXCEPT ![h] = r]
  BY DEF Requeue, Receive, Visible, RequeueRequest
<1>3. /\ status[n] = "ABSENT" /\ status'[n] # "ABSENT" /\ source'[n] = r.job
      /\ \A j \in Jobs \ {n} : status'[j] = status[j] /\ source'[j] = source[j]
  BY <1>1, RowInserted DEF ServiceInv, StoreInv
<1>4. /\ jobTenant' \in [Jobs -> Tenants \cup {NULL}] /\ jobTenant'[n] = r.tenant
      /\ jobKey' \in [Jobs -> Keys \cup {NULL}] /\ jobKey'[n] = NULL
      /\ jobHash' \in [Jobs -> Hashes \cup {NULL}] /\ jobHash'[n] = NULL
      /\ \A j \in Jobs \ {n} : /\ jobTenant'[j] = jobTenant[j] /\ jobKey'[j] = jobKey[j]
                              /\ jobHash'[j] = jobHash[j]
  BY <1>1, <1>2, ColumnsSet
<1>5. FreshRow(n)
  BY <1>2, <1>3, <1>4 DEF FreshRow
<1>6. ColumnsInv' /\ ColumnsKept
  BY <1>5, FreshColumns
<1> QED
  BY <1>1, <1>2, <1>3, <1>4, <1>6, FreshRowInv, Zenon

------------------------------------------------------------------------------
\* The theorems.

\* Any step of the service keeps the inductive invariant.
LEMMA ServiceNextInv ==
    ASSUME ServiceInv, ServiceAssumption, StoreAssumption, [ServiceNext]_serviceVars
    PROVE  ServiceInv'
<1>1. [StoreNext]_storeVars
  BY ServiceStepImplements
<1>2. StoreInv'
  BY <1>1, NextInv DEF ServiceInv
<1>3. CASE WorkersStep \/ UNCHANGED serviceVars
  BY <1>1, <1>2, <1>3, WorkersStepInv
<1>4. ASSUME NEW h \in Handlers, HandlerStep(h)
      PROVE  ServiceInv'
  <2>1. /\ request \in [Handlers ->
            CreateRequest \cup OperationRequest \cup RequeueRequest \cup {NULL}]
        /\ answer \in [Handlers -> Jobs \cup Refusals \cup {NULL}] /\ HandlerInStep(h)
        /\ request = [request EXCEPT ![h] = request[h]]
        /\ answer = [answer EXCEPT ![h] = answer[h]]
    BY DEF ServiceInv, HandlersInv
  <2>2. "conflict" \in Refusals /\ "refused" \in Refusals /\ "error" \in Refusals
        /\ \A a \in Refusals \cup {NULL} : a \notin Jobs
    BY DEF Refusals, ServiceAssumption, StoreAssumption
  <2>3. ASSUME NEW r \in CreateRequest, InsertConflicts(h, r)
        PROVE  ServiceInv'
    <3>1. /\ answer' = [answer EXCEPT ![h] = NULL] /\ pc' = [pc EXCEPT ![h] = "lookup"]
          /\ request' = [request EXCEPT ![h] = r] /\ UNCHANGED <<storeVars, columnVars>>
      BY <2>1, <2>3 DEF InsertConflicts, Receive, Goto, HandlerInStep
    <3> QED
      BY <2>2, <3>1, QuietStepInv, Zenon
  <2>4. ASSUME NEW r \in OperationRequest, Read(h, r)
        PROVE  ServiceInv'
    <3>1. request' = [request EXCEPT ![h] = r] /\ UNCHANGED <<storeVars, columnVars>>
      BY <2>4 DEF Read, Receive
    <3>2. \/ /\ answer' = [answer EXCEPT ![h] = NULL]
             /\ pc' = [pc EXCEPT ![h] = "write"]
          \/ /\ answer' = [answer EXCEPT ![h] = "refused"]
             /\ pc' = [pc EXCEPT ![h] = "done"]
      BY <2>1, <2>4 DEF Read, Receive, Goto, Answer, HandlerInStep
    <3> QED
      BY <2>2, <3>1, <3>2, QuietStepInv, Zenon
  <2>5. ASSUME NEW r \in RequeueRequest, RequeueRefused(h, r)
        PROVE  ServiceInv'
    <3>1. /\ answer' = [answer EXCEPT ![h] = "refused"] /\ pc' = [pc EXCEPT ![h] = "done"]
          /\ request' = [request EXCEPT ![h] = r] /\ UNCHANGED <<storeVars, columnVars>>
      BY <2>5 DEF RequeueRefused, Receive, Answer
    <3> QED
      BY <2>2, <3>1, QuietStepInv, Zenon
  <2>6. CASE Lookup(h)
    <3>1. /\ request[h] \in CreateRequest
          /\ request' = [request EXCEPT ![h] = request[h]] /\ UNCHANGED <<storeVars, columnVars>>
      BY <2>1, <2>6 DEF Lookup, HandlerInStep
    <3>2. PICK j \in SameKey(request[h]) :
             Answer(h, IF jobHash[j] = request[h].hash THEN j ELSE "conflict")
      BY <2>6 DEF Lookup
    <3>3. j \in Jobs
      BY DEF SameKey
    <3> QED
      BY <2>2, <3>1, <3>2, <3>3, QuietStepInv, Zenon DEF Answer
  <2>7. CASE WriteRefused(h) \/ CallFails(h)
    <3>1. /\ request[h] \in CreateRequest \cup OperationRequest
          /\ request' = [request EXCEPT ![h] = request[h]] /\ UNCHANGED <<storeVars, columnVars>>
      BY <2>1, <2>7 DEF WriteRefused, CallFails, HandlerInStep, ServiceInv, HandlersInv
    <3>2. PICK a \in Refusals : Answer(h, a)
      BY <2>2, <2>7 DEF WriteRefused, CallFails
    <3> QED
      BY <2>2, <3>1, <3>2, QuietStepInv, Zenon DEF Answer
  <2> QED
    BY <1>1, <1>2, <1>4, <2>3, <2>4, <2>5, <2>6, <2>7, InsertInv, RequeueInv, WriteInv
    DEF HandlerStep
<1> QED
  BY <1>3, <1>4 DEF ServiceNext

\* The inductive invariant holds in every reachable state of the service.
THEOREM ServiceCorrect == ServiceSpec => []ServiceInv
<1>1. ServiceInit => ServiceInv
  <2> SUFFICES ASSUME ServiceInit PROVE ServiceInv
    OBVIOUS
  <2>1. StoreInv
    BY InitInv, StoreAssumption DEF ServiceInit
  <2>2. \A j \in Jobs : status[j] = "ABSENT" /\ source[j] = NULL
    BY DEF ServiceInit, StoreInit
  <2>3. \A h \in Handlers : pc[h] = "receive" /\ answer[h] = NULL /\ answer[h] \notin Jobs
    BY StoreAssumption DEF ServiceInit, StoreAssumption
  <2>4. ColumnsInv
    BY <2>2 DEF ServiceInit, ColumnsInv, ColumnsOfRows, KeysAreUnique, CopiesKeepTenant
  <2>5. HandlersInv
    BY <2>3 DEF ServiceInit, HandlersInv, RequeuesDiffer, Succeeded, HandlerInStep, AnswerHolds
  <2> QED
    BY <2>1, <2>4, <2>5 DEF ServiceInv
<1>2. ServiceInv /\ [ServiceNext]_serviceVars => ServiceInv'
  BY ServiceNextInv, ServiceAssumption, StoreAssumption
<1> QED
  BY <1>1, <1>2, PTL DEF ServiceSpec

\* Handlers, answers and tenant columns keep their types.
THEOREM ServiceTypeCorrect == ServiceSpec => []ServiceTypeOK
<1>1. ServiceInv => ServiceTypeOK
  BY DEF ServiceInv, ColumnsInv, HandlersInv, ServiceTypeOK
<1> QED
  BY <1>1, ServiceCorrect, PTL

\* The service implements the store: whatever requests race, what they commit
\* are transactions of the repository, so every theorem about it holds here.
THEOREM ServiceImplementsStore == ServiceSpec => StoreSpec
<1>1. ServiceInit => StoreInit
  BY DEF ServiceInit
<1>2. ServiceInv /\ [ServiceNext]_serviceVars => [StoreNext]_storeVars
  BY ServiceStepImplements
<1> QED
  BY <1>1, <1>2, ServiceCorrect, PTL DEF ServiceSpec, StoreSpec

\* Creates under one tenant and key are answered with one job, and it is the
\* one the request describes.
THEOREM CreateIsIdempotent == ServiceSpec => []IdempotentCreate
<1>1. ASSUME ServiceInv, NEW h \in Succeeded({"create"})
      PROVE  /\ answer[h] \in Jobs /\ jobTenant[answer[h]] = request[h].tenant
             /\ jobKey[answer[h]] = request[h].key /\ jobHash[answer[h]] = request[h].hash
  BY <1>1 DEF ServiceInv, ColumnsInv, HandlersInv, Succeeded, AnswerHolds
<1>2. ServiceInv => IdempotentCreate
  BY <1>1 DEF ServiceInv, ColumnsInv, KeysAreUnique, IdempotentCreate
<1> QED
  BY <1>2, ServiceCorrect, PTL

\* A request is answered with jobs of its own tenant only.
THEOREM TenantsAreIsolated == ServiceSpec => []TenantIsolation
<1>1. ServiceInv => TenantIsolation
  BY DEF ServiceInv, ColumnsInv, HandlersInv, Succeeded, AnswerHolds, TenantIsolation
<1> QED
  BY <1>1, ServiceCorrect, PTL

\* A cancellation that was acknowledged is never undone.
THEOREM CancelIsFinal == ServiceSpec => []CancelHolds
<1>1. ServiceInv => CancelHolds
  BY DEF ServiceInv, ColumnsInv, HandlersInv, Succeeded, AnswerHolds, CancelHolds
<1> QED
  BY <1>1, ServiceCorrect, PTL

\* Two answered requeues have neither their dead letter nor their fresh job in
\* common: the one dead letter of a job names one copy.
THEOREM RequeueIsExclusive == ServiceSpec => []RequeueAnsweredOnce
<1>1. ASSUME ServiceInv, NEW g \in Succeeded({"requeue"}), NEW h \in Succeeded({"requeue"}),
             request[g].job = request[h].job
      PROVE  answer[g] = answer[h]
  <2> DEFINE j == request[h].job
  <2>1. /\ g \in Handlers /\ h \in Handlers /\ answer[g] \in Jobs /\ answer[h] \in Jobs
        /\ request[g].kind = "requeue" /\ request[h].kind = "requeue"
    BY DEF Succeeded
  <2>2. /\ source[answer[g]] = j /\ source[answer[h]] = j
        /\ source[answer[h]] \in Jobs \cup {NULL}
    BY <1>1, <2>1 DEF ServiceInv, HandlersInv, AnswerHolds, StoreInv, TypeOK
  <2>3. j \in Jobs
    <3>1. request[h] \in CreateRequest \cup OperationRequest \cup RequeueRequest
      BY <1>1, <2>1 DEF ServiceInv, HandlersInv, AnswerHolds
    <3> QED
      BY <2>1, <3>1 DEF CreateRequest, OperationRequest, RequeueRequest, Operations
  <2>4. \E d \in DOMAIN deadLetters[j] : deadLetters[j][d] = answer[g]
    BY <1>1, <2>1, <2>2, <2>3 DEF ServiceInv, StoreInv, RequeuedOnce
  <2>5. \E d \in DOMAIN deadLetters[j] : deadLetters[j][d] = answer[h]
    BY <1>1, <2>1, <2>2, <2>3 DEF ServiceInv, StoreInv, RequeuedOnce
  <2>6. deadLetters[j] \in Seq(Jobs \cup {NULL}) /\ Len(deadLetters[j]) \in {0, 1}
    <3>1. TypeOK /\ OneDeadLetter
      BY <1>1 DEF ServiceInv, StoreInv
    <3> HIDE DEF j
    <3> QED
      BY <2>3, <3>1 DEF OneDeadLetter, TypeOK
  <2> HIDE DEF j
  <2>7. DOMAIN deadLetters[j] \subseteq {1}
    BY <2>6
  <2> QED
    BY <2>4, <2>5, <2>7
<1>2. ServiceInv => RequeueAnsweredOnce
  BY <1>1 DEF ServiceInv, HandlersInv, RequeuesDiffer, RequeueAnsweredOnce
<1> QED
  BY <1>2, ServiceCorrect, PTL
==============================================================================
