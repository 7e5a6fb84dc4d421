-------------------------------- MODULE Outbox --------------------------------
(***************************************************************************)
(* The transactional outbox (internal/outbox/outbox.go) and its Kafka      *)
(* producer (internal/kafka/producer.go): relays lease unpublished         *)
(* job_events rows, publish them and mark them.                            *)
(*                                                                         *)
(* Events are numbered in the order in which they were created; JobOf says *)
(* whose they are. Lease and backoff times are abstract, as in JobStore.   *)
(* Every database or Kafka call is a step, which may fail, or take effect  *)
(* and lose its answer. A relay's identifier is drawn per process, so one  *)
(* that stops never comes back. A cancelled context makes every remaining  *)
(* call of the batch fail and leaves the same state as a crash.            *)
(***************************************************************************)
EXTENDS Naturals, Sequences, FiniteSets, SequencesExt

CONSTANTS
    JobOf,       \* the job of each event: a sequence
    Relays,      \* relay identifiers
    Partitions,  \* partitions of the topic
    Batch,       \* LIMIT of a claim
    Unreliable,  \* relays that may stop, or take longer than a lease
    MaxReplays,  \* bound: replays that administrators ask for
    Calm,        \* TRUE: statements do not overlap, so no row is skipped, and
                 \* a claim returns its rows in the order of its subquery
    NULL

Events == DOMAIN JobOf

ASSUME OutboxAssumption ==
    /\ Len(JobOf) \in Nat /\ Events = 1..Len(JobOf)
    /\ Batch \in Nat \ {0}
    /\ MaxReplays \in Nat
    /\ Unreliable \subseteq Relays
    /\ Calm \in BOOLEAN
    /\ NULL \notin Relays

VARIABLES
    committed,     \* how many events the job transactions have committed
    published,     \* job_events.published_at IS NOT NULL
    claimedBy,     \* job_events.claimed_by
    claimedUntil,  \* job_events.claimed_until against now()
    ready,         \* job_events.next_publish_at <= now()
    stored,        \* the partitions of the topic that hold an event
    owed,          \* history: events not stored in Kafka since their commit or
                   \* their last replay
    replays,       \* history: how many replays there were
    batch,         \* the claimed events that a relay has yet to handle
    pc             \* a relay's next call, or "gone"

rowVars == <<published, claimedBy, claimedUntil, ready>>
outboxVars == <<committed, rowVars, stored, owed, replays, batch, pc>>

OutboxInit ==
    /\ committed = 0
    /\ published = [e \in Events |-> FALSE]
    /\ claimedBy = [e \in Events |-> NULL]
    /\ claimedUntil = [e \in Events |-> "null"]
    /\ ready = [e \in Events |-> TRUE]
    /\ stored = [e \in Events |-> {}]
    /\ owed = Events
    /\ replays = 0
    /\ batch = [r \in Relays |-> <<>>]
    /\ pc = [r \in Relays |-> "claim"]

\* A job transaction commits the next event (insertJobEvent).
Commit ==
    /\ committed < Len(JobOf)
    /\ committed' = committed + 1
    /\ UNCHANGED <<rowVars, stored, owed, replays, batch, pc>>

------------------------------------------------------------------------------
\* Store.Claim.

\* Variant: a row that was ever leased is not taken over.
PendingUnclaimed(e) ==
    /\ e <= committed
    /\ ~published[e] /\ ready[e]
    /\ claimedUntil[e] = "null"

Pending(e) ==
    /\ e <= committed
    /\ ~published[e] /\ ready[e]
    /\ claimedUntil[e] \in {"null", "expired"}

\* What LIMIT and SKIP LOCKED may select.
Selectable(S) ==
    /\ S # {} /\ Cardinality(S) <= Batch
    /\ \A e \in S : Pending(e)
    /\ Calm => /\ \A e \in S, f \in Events : f < e /\ Pending(f) => f \in S
               /\ Cardinality(S) = Batch \/ \A e \in Events : Pending(e) => e \in S

\* UPDATE ... RETURNING promises no order of its rows.
Returned(S) ==
    {q \in SetToSeqs(S) : Calm => \A i, k \in DOMAIN q : i < k => q[i] < q[k]}

\* Variant: the arguments of the statement are swapped.
LeaseSwapped(r, S) ==
    /\ Selectable(S)
    /\ claimedBy' = [e \in Events |-> IF e \in S THEN Batch ELSE claimedBy[e]]
    /\ claimedUntil' = [e \in Events |-> IF e \in S THEN "live" ELSE claimedUntil[e]]
    /\ UNCHANGED <<published, ready>>

Lease(r, S) ==
    /\ Selectable(S)
    /\ claimedBy' = [e \in Events |-> IF e \in S THEN r ELSE claimedBy[e]]
    /\ claimedUntil' = [e \in Events |-> IF e \in S THEN "live" ELSE claimedUntil[e]]
    /\ UNCHANGED <<published, ready>>

Claim(r) ==
    /\ pc[r] = "claim"
    /\ \E S \in SUBSET Events :
          /\ Lease(r, S)
          /\ \E q \in Returned(S) : batch' = [batch EXCEPT ![r] = q]
    /\ pc' = [pc EXCEPT ![r] = "publish"]
    /\ UNCHANGED <<committed, stored, owed, replays>>

\* The claim commits but its answer is lost: nobody handles the rows.
ClaimLost(r) ==
    /\ pc[r] = "claim"
    /\ \E S \in SUBSET Events : Lease(r, S)
    /\ UNCHANGED <<committed, stored, owed, replays, batch, pc>>

------------------------------------------------------------------------------
\* publishBatch, one call at a time.

\* WriteMessages: the LeastBytes balancer picks the partition by load and does
\* not look at the key.
Store(e) ==
    /\ \E p \in Partitions : stored' = [stored EXCEPT ![e] = @ \cup {p}]
    /\ owed' = owed \ {e}

Publish(r) ==
    /\ pc[r] = "publish"
    /\ Store(Head(batch[r]))
    /\ pc' = [pc EXCEPT ![r] = "mark"]
    /\ UNCHANGED <<committed, rowVars, replays, batch>>

\* An error; the brokers may have stored the event all the same.
PublishFails(r) ==
    /\ pc[r] = "publish"
    /\ Store(Head(batch[r])) \/ UNCHANGED <<stored, owed>>
    /\ pc' = [pc EXCEPT ![r] = "fail"]
    /\ UNCHANGED <<committed, rowVars, replays, batch>>

\* The loop goes on to the next event, or the batch is done.
NextEvent(r) ==
    /\ batch' = [batch EXCEPT ![r] = Tail(@)]
    /\ pc' = [pc EXCEPT ![r] = IF Len(batch[r]) = 1 THEN "claim" ELSE "publish"]

\* Variant: WHERE id = e only.
SetPublishedByID(r, e) ==
    /\ published' = [published EXCEPT ![e] = TRUE]
    /\ claimedBy' = [claimedBy EXCEPT ![e] = NULL]
    /\ claimedUntil' = [claimedUntil EXCEPT ![e] = "null"]
    /\ UNCHANGED ready

\* SET published_at ... WHERE id = e AND claimed_by = r.
SetPublished(r, e) ==
    /\ claimedBy[e] = r
    /\ published' = [published EXCEPT ![e] = TRUE]
    /\ claimedBy' = [claimedBy EXCEPT ![e] = NULL]
    /\ claimedUntil' = [claimedUntil EXCEPT ![e] = "null"]
    /\ UNCHANGED ready

MarkPublished(r) ==
    /\ pc[r] = "mark"
    /\ SetPublished(r, Head(batch[r]))
    /\ NextEvent(r)
    /\ UNCHANGED <<committed, stored, owed, replays>>

\* The lease is lost or the call fails, after its commit or without one: the
\* rest of the batch is dropped and keeps its lease.
MarkPublishedFails(r) ==
    /\ pc[r] = "mark"
    /\ SetPublished(r, Head(batch[r])) \/ UNCHANGED rowVars
    /\ batch' = [batch EXCEPT ![r] = <<>>]
    /\ pc' = [pc EXCEPT ![r] = "claim"]
    /\ UNCHANGED <<committed, stored, owed, replays>>

\* Backs the event off if it is still leased; the result is ignored and the
\* batch goes on.
MarkFailed(r) ==
    LET e == Head(batch[r]) IN
    /\ pc[r] = "fail"
    /\ \/ /\ claimedBy[e] = r
          /\ claimedBy' = [claimedBy EXCEPT ![e] = NULL]
          /\ claimedUntil' = [claimedUntil EXCEPT ![e] = "null"]
          /\ ready' = [ready EXCEPT ![e] = FALSE]
          /\ UNCHANGED published
       \/ UNCHANGED rowVars
    /\ NextEvent(r)
    /\ UNCHANGED <<committed, stored, owed, replays>>

Crash(r) ==
    /\ r \in Unreliable /\ pc[r] # "gone"
    /\ pc' = [pc EXCEPT ![r] = "gone"]
    /\ batch' = [batch EXCEPT ![r] = <<>>]
    /\ UNCHANGED <<committed, rowVars, stored, owed, replays>>

------------------------------------------------------------------------------
\* An administrator replays an event, whatever its state.
Replay(e) ==
    /\ e <= committed /\ replays < MaxReplays
    /\ replays' = replays + 1
    /\ published' = [published EXCEPT ![e] = FALSE]
    /\ claimedBy' = [claimedBy EXCEPT ![e] = NULL]
    /\ claimedUntil' = [claimedUntil EXCEPT ![e] = "null"]
    /\ ready' = [ready EXCEPT ![e] = TRUE]
    /\ owed' = owed \cup {e}
    /\ UNCHANGED <<committed, stored, batch, pc>>

\* The passage of time: a reliable relay handles its batch within the lease.
LeaseExpires(e) ==
    /\ claimedUntil[e] = "live"
    /\ \A r \in Relays \ Unreliable : claimedBy[e] = r => e \notin ToSet(batch[r])
    /\ claimedUntil' = [claimedUntil EXCEPT ![e] = "expired"]
    /\ UNCHANGED <<committed, published, claimedBy, ready, stored, owed, replays, batch, pc>>

BecomesReady(e) ==
    /\ ~ready[e]
    /\ ready' = [ready EXCEPT ![e] = TRUE]
    /\ UNCHANGED <<committed, published, claimedBy, claimedUntil, stored, owed, replays, batch, pc>>

RelayStep(r) ==
    \/ Claim(r) \/ Publish(r) \/ PublishFails(r)
    \/ MarkPublished(r) \/ MarkPublishedFails(r) \/ MarkFailed(r)

OutboxNext ==
    \/ Commit
    \/ \E r \in Relays : RelayStep(r) \/ ClaimLost(r) \/ Crash(r)
    \/ \E e \in Events : Replay(e) \/ LeaseExpires(e) \/ BecomesReady(e)

OutboxSpec == OutboxInit /\ [][OutboxNext]_outboxVars

\* A live relay keeps polling and its calls return; leases and backoffs run
\* out. For a reliable relay no kind of call fails every time, but one that
\* concerns a particular event may fail as long as others succeed.
OutboxFairness ==
    /\ \A r \in Relays : WF_outboxVars(RelayStep(r))
    /\ \A r \in Relays \ Unreliable :
          SF_outboxVars(Claim(r)) /\ SF_outboxVars(Publish(r)) /\ SF_outboxVars(MarkPublished(r))
    /\ \A e \in Events : WF_outboxVars(LeaseExpires(e)) /\ WF_outboxVars(BecomesReady(e))

FairOutboxSpec == OutboxSpec /\ OutboxFairness

------------------------------------------------------------------------------
\* Properties.

\* The columns and the relays' variables have their types.
OutboxTypeOK ==
    /\ committed \in 0..Len(JobOf)
    /\ published \in [Events -> BOOLEAN]
    /\ claimedBy \in [Events -> Relays \cup {NULL}]
    /\ claimedUntil \in [Events -> {"null", "live", "expired"}]
    /\ ready \in [Events -> BOOLEAN]
    /\ stored \in [Events -> SUBSET Partitions]
    /\ owed \subseteq Events
    /\ replays \in 0..MaxReplays
    /\ batch \in [Relays -> Seq(Events)]
    /\ pc \in [Relays -> {"claim", "publish", "mark", "fail", "gone"}]

\* An event is marked published only if Kafka has stored it since it was
\* committed or last replayed: a relay that answers for an earlier publication,
\* or whose lease was taken over, must not mark it.
PublishedWasStored == \A e \in Events : published[e] => e \notin owed

\* Every committed event ends up published for good, once replays cease,
\* although relays stop or lose their leases and one event may fail for long.
EventuallyPublished == \A e \in Events : e <= committed ~> [](published[e])

\* "created_at/id ordering and Kafka job keys preserve the intended per-job
\* sequence" (Store.Claim) and "an event keyed by entity ID to preserve per-job
\* partition order" (Publish): when an event is first stored, the earlier
\* events of its job are in the same partition already.
OrderedDelivery ==
    [][\A e, f \in Events :
          f < e /\ JobOf[f] = JobOf[e] /\ stored[e] = {}
             => stored'[e] \subseteq stored[f]]_outboxVars
==============================================================================
