------------------------------ MODULE JobService ------------------------------
(***************************************************************************)
(* The API's job service (internal/job/service.go) over the job store:     *)
(* concurrent requests of several tenants that create jobs under           *)
(* idempotency keys, operate on them and requeue dead letters, while       *)
(* workers claim and finalize the same jobs.                               *)
(*                                                                         *)
(* A handler serves one request and keeps its answer; a client's retry is  *)
(* the request of another handler. Each call to the repository is a step;  *)
(* it may fail, or commit and lose its answer. Requests that fail          *)
(* validation change nothing and are left out. A request is the data that  *)
(* matters: tenant, key and the hash of the behaviour-affecting fields.    *)
(***************************************************************************)
EXTENDS JobStore

CONSTANTS
    Handlers,  \* requests in progress or answered
    Tenants,   \* tenants of the authenticated principals
    Keys,      \* idempotency keys; NULL is a request without one
    Hashes,    \* request hashes
    Kinds      \* kinds of request the clients send

Refusals == {"conflict", "refused", "error"}

ASSUME ServiceAssumption ==
    /\ NULL \notin Tenants \cup Keys \cup Hashes
    /\ Jobs \cap Refusals = {}
    /\ Kinds \subseteq DOMAIN Operations \cup {"create", "requeue"}

VARIABLES
    jobTenant,  \* jobs.tenant_id
    jobKey,     \* jobs.idempotency_key
    jobHash,    \* jobs.request_hash
    request,    \* the request of a handler, or NULL
    pc,         \* a handler's next call
    answer      \* what the client was told: a job, a refusal or an error

columnVars == <<jobTenant, jobKey, jobHash>>
handlerVars == <<request, pc, answer>>
serviceVars == <<storeVars, columnVars, handlerVars>>

CreateRequest == [kind : {"create"} \cap Kinds, tenant : Tenants,
                  key : Keys \cup {NULL}, hash : Hashes]
OperationRequest == [kind : Kinds \cap DOMAIN Operations, tenant : Tenants, job : Jobs]
RequeueRequest == [kind : Kinds \cap {"requeue"}, tenant : Tenants, job : Jobs]

ServiceInit ==
    /\ StoreInit
    /\ jobTenant = [j \in Jobs |-> NULL]
    /\ jobKey = [j \in Jobs |-> NULL]
    /\ jobHash = [j \in Jobs |-> NULL]
    /\ request = [h \in Handlers |-> NULL]
    /\ pc = [h \in Handlers |-> "receive"]
    /\ answer = [h \in Handlers |-> NULL]

------------------------------------------------------------------------------
\* Steps of a handler.

\* A handler takes up the request r and makes its first call. Nobody can tell
\* how long before that call the request came in.
Receive(h, r) ==
    /\ pc[h] = "receive"
    /\ request' = [request EXCEPT ![h] = r]

Goto(h, step) == pc' = [pc EXCEPT ![h] = step] /\ UNCHANGED answer

Answer(h, a) ==
    /\ pc' = [pc EXCEPT ![h] = "done"]
    /\ answer' = [answer EXCEPT ![h] = a]

\* A transaction committed: its answer arrives, or an error takes its place.
Committed(h, a) == Answer(h, a) \/ Answer(h, "error")

\* A later call may fail without effect. A request whose first call does so
\* has none at all, as if it had never come.
CallFails(h) ==
    /\ pc[h] \notin {"receive", "done"}
    /\ Answer(h, "error")
    /\ UNCHANGED <<storeVars, columnVars, request>>

\* The rows with the key of a request, by uq_jobs_tenant_idempotency.
SameKey(r) == {j \in Jobs : r.key # NULL /\ jobKey[j] = r.key /\ jobTenant[j] = r.tenant}

\* Variant: key and hash are swapped.
SetColumnsSwapped(j, tenant, key, hash) ==
    /\ jobTenant' = [jobTenant EXCEPT ![j] = tenant]
    /\ jobKey' = [jobKey EXCEPT ![j] = hash]
    /\ jobHash' = [jobHash EXCEPT ![j] = key]

\* The columns of a fresh row.
SetColumns(j, tenant, key, hash) ==
    /\ jobTenant' = [jobTenant EXCEPT ![j] = tenant]
    /\ jobKey' = [jobKey EXCEPT ![j] = key]
    /\ jobHash' = [jobHash EXCEPT ![j] = hash]

\* The INSERT of Create; the unique index admits one row per tenant and key.
Insert(h, r) ==
    /\ Receive(h, r) /\ SameKey(r) = {}
    /\ \E j \in Jobs, future \in BOOLEAN, max \in MaxRetriesChoices :
          /\ Create(j, future, max)
          /\ SetColumns(j, r.tenant, r.key, r.hash)
          /\ Committed(h, j)

InsertConflicts(h, r) ==
    /\ Receive(h, r) /\ SameKey(r) # {}
    /\ Goto(h, "lookup")
    /\ UNCHANGED <<storeVars, columnVars>>

\* Variant: the hash is not compared.
LookupAnyHash(h) ==
    /\ pc[h] = "lookup"
    /\ \E j \in SameKey(request[h]) : Answer(h, j)
    /\ UNCHANGED <<storeVars, columnVars, request>>

\* getByIdempotencyKey: an equal hash replays the job, another one conflicts.
Lookup(h) ==
    /\ pc[h] = "lookup"
    /\ \E j \in SameKey(request[h]) :
          Answer(h, IF jobHash[j] = request[h].hash THEN j ELSE "conflict")
    /\ UNCHANGED <<storeVars, columnVars, request>>

\* Variant: the tenant is not compared.
VisibleToAll(r) == status[r.job] # "ABSENT"

\* GetByID: the row must belong to the tenant.
Visible(r) == status[r.job] # "ABSENT" /\ jobTenant[r.job] = r.tenant

\* transition reads the job and checks its state against the request.
Read(h, r) ==
    LET op == Operations[r.kind] IN
    /\ Receive(h, r)
    /\ IF Visible(r) /\ status[r.job] \in op.from /\ CanTransition(status[r.job], op.to)
       THEN Goto(h, "write")
       ELSE Answer(h, "refused")
    /\ UNCHANGED <<storeVars, columnVars>>

\* Variant: the write trusts the earlier read.
WriteStale(h) ==
    LET r == request[h] IN
    /\ pc[h] = "write" /\ Visible(r)
    /\ TransitionJob(r.job, Statuses, Operations[r.kind].to)
    /\ Committed(h, r.job)
    /\ UNCHANGED <<columnVars, request>>

\* Later it writes: TransitionJob checks the row again.
Write(h) ==
    LET r == request[h]
        op == Operations[r.kind]
    IN
    /\ pc[h] = "write" /\ Visible(r)
    /\ TransitionJob(r.job, op.from, op.to)
    /\ Committed(h, r.job)
    /\ UNCHANGED <<columnVars, request>>

WriteRefused(h) ==
    LET r == request[h] IN
    /\ pc[h] = "write"
    /\ ~(Visible(r) /\ status[r.job] \in Operations[r.kind].from)
    /\ Answer(h, "refused")
    /\ UNCHANGED <<storeVars, columnVars, request>>

\* Requeues the dead letter of a job, which the answer names the copy of.
Requeue(h, r) ==
    /\ Receive(h, r) /\ Visible(r)
    /\ \E d \in DOMAIN deadLetters[r.job], n \in Jobs :
          /\ RequeueDeadLetter(r.job, d, n)
          /\ SetColumns(n, r.tenant, NULL, NULL)
          /\ Committed(h, n)

RequeueRefused(h, r) ==
    /\ Receive(h, r)
    /\ ~(Visible(r) /\ \E d \in DOMAIN deadLetters[r.job] : deadLetters[r.job][d] = NULL)
    /\ Answer(h, "refused")
    /\ UNCHANGED <<storeVars, columnVars>>

HandlerStep(h) ==
    \/ \E r \in CreateRequest : Insert(h, r) \/ InsertConflicts(h, r)
    \/ \E r \in OperationRequest : Read(h, r)
    \/ \E r \in RequeueRequest : Requeue(h, r) \/ RequeueRefused(h, r)
    \/ Lookup(h) \/ Write(h) \/ WriteRefused(h) \/ CallFails(h)

\* The workers and the passage of time.
WorkersStep ==
    /\ \/ \E w \in Workers, S \in SUBSET Jobs : ClaimDueJobs(w, S)
       \/ \E S \in SUBSET Jobs : RecoverExpiredRunningJobs(S)
       \/ \E j \in Jobs :
             \/ \E a \in DOMAIN attempts[j] : CompleteExecution(j, a)
             \/ \E a \in DOMAIN attempts[j], retryable, after \in BOOLEAN :
                   FailExecution(j, a, retryable, after)
             \/ \E w \in Workers : ExtendLease(j, w) \/ ReleaseClaim(j, w)
             \/ LeaseExpires(j) \/ BecomesDue(j)
    /\ UNCHANGED <<columnVars, handlerVars>>

ServiceNext == (\E h \in Handlers : HandlerStep(h)) \/ WorkersStep

ServiceSpec == ServiceInit /\ [][ServiceNext]_serviceVars

------------------------------------------------------------------------------
\* Properties.

\* Handlers and tenant columns have their types.
ServiceTypeOK ==
    /\ jobTenant \in [Jobs -> Tenants \cup {NULL}]
    /\ jobKey \in [Jobs -> Keys \cup {NULL}]
    /\ jobHash \in [Jobs -> Hashes \cup {NULL}]
    /\ request \in [Handlers ->
          CreateRequest \cup OperationRequest \cup RequeueRequest \cup {NULL}]
    /\ pc \in [Handlers -> {"receive", "lookup", "write", "done"}]
    /\ answer \in [Handlers -> Jobs \cup Refusals \cup {NULL}]

\* The handlers whose request of one of the kinds K succeeded.
Succeeded(K) == {h \in Handlers : answer[h] \in Jobs /\ request[h].kind \in K}

\* "Matching hashes replay the original result; different hashes conflict"
\* (Create): all creates that succeed under one tenant and key name one job,
\* even when they race or retry a create whose answer was lost, and that job is
\* the one the request describes.
IdempotentCreate ==
    \A h \in Succeeded({"create"}) :
        /\ jobHash[answer[h]] = request[h].hash
        /\ \A g \in Succeeded({"create"}) :
              /\ request[g].key = request[h].key
              /\ request[g].tenant = request[h].tenant
              /\ request[h].key # NULL
              => answer[g] = answer[h]

\* A requeued copy belongs to the tenant of the job it comes from.
CopiesKeepTenant ==
    \A j \in Jobs : source[j] # NULL => jobTenant[j] = jobTenant[source[j]]

\* A request that succeeds is answered with a job of its own tenant, and a
\* requeued copy belongs to the tenant of the job it comes from.
TenantIsolation ==
    /\ \A h \in Succeeded(Kinds) : jobTenant[answer[h]] = request[h].tenant
    /\ CopiesKeepTenant

\* "Cancel stops claimable work or invalidates ownership of running work": once
\* a client is told that a job is cancelled, no worker, recovery, or operator
\* who read the job before the cancellation revives it.
CancelHolds == \A h \in Succeeded({"cancel"}) : status[answer[h]] = "CANCELLED"

\* Two clients are never both told that they requeued the same dead letter.
RequeueAnsweredOnce ==
    \A g, h \in Succeeded({"requeue"}) :
        g # h => request[g].job # request[h].job /\ answer[g] # answer[h]

\* A job that is not inserted yet has no key, a job that is has a tenant.
ColumnsOfRows ==
    \A j \in Jobs : IF status[j] = "ABSENT" THEN jobKey[j] = NULL ELSE jobTenant[j] \in Tenants

\* What the unique index uq_jobs_tenant_idempotency keeps.
KeysAreUnique ==
    \A i, j \in Jobs :
        jobKey[i] # NULL /\ jobKey[i] = jobKey[j] /\ jobTenant[i] = jobTenant[j] => i = j

\* A handler between two calls has not answered and knows its request.
HandlerInStep(h) ==
    /\ pc[h] # "done" => answer[h] = NULL
    /\ pc[h] = "lookup" => request[h] \in CreateRequest
    /\ pc[h] = "write" => request[h] \in OperationRequest

\* What the client was told is still so: the job it was given exists, has the
\* request's tenant, and is the one created, cancelled or requeued for it.
AnswerHolds(h) ==
    LET j == answer[h]
        r == request[h]
    IN  j \in Jobs =>
          /\ r \in CreateRequest \cup OperationRequest \cup RequeueRequest
          /\ status[j] # "ABSENT" /\ jobTenant[j] = r.tenant
          /\ r.kind = "create" => jobKey[j] = r.key /\ jobHash[j] = r.hash
          /\ r.kind = "cancel" => status[j] = "CANCELLED"
          /\ r.kind = "requeue" => source[j] = r.job

\* No two requeues were answered with one job.
RequeuesDiffer ==
    \A g, h \in Succeeded({"requeue"}) : g # h => answer[g] # answer[h]

\* What holds of the tenant columns.
ColumnsInv ==
    /\ jobTenant \in [Jobs -> Tenants \cup {NULL}]
    /\ jobKey \in [Jobs -> Keys \cup {NULL}]
    /\ jobHash \in [Jobs -> Hashes \cup {NULL}]
    /\ ColumnsOfRows /\ KeysAreUnique /\ CopiesKeepTenant

\* What holds of the handlers.
HandlersInv ==
    /\ request \in [Handlers ->
          CreateRequest \cup OperationRequest \cup RequeueRequest \cup {NULL}]
    /\ pc \in [Handlers -> {"receive", "lookup", "write", "done"}]
    /\ answer \in [Handlers -> Jobs \cup Refusals \cup {NULL}]
    /\ RequeuesDiffer
    /\ \A h \in Handlers : HandlerInStep(h) /\ AnswerHolds(h)

\* The inductive invariant of the job service.
ServiceInv == StoreInv /\ ColumnsInv /\ HandlersInv
==============================================================================
