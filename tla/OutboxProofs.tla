----------------------------- MODULE OutboxProofs -----------------------------
(***************************************************************************)
(* Proofs about the outbox, for any number of events, relays, partitions   *)
(* and replays, whichever relays stop or outlive their leases and in       *)
(* whatever order a claim returns its rows.                                *)
(***************************************************************************)
EXTENDS Outbox, FiniteSetTheorems, SequenceTheorems, TLAPS

\* A relay that is handling events has one at the head of its batch, and while
\* it still leases one that it has published, Kafka owes nothing for it.
HandlingHasEvent ==
    \A r \in Relays : pc[r] \in {"publish", "mark", "fail"} => batch[r] # <<>>

LeasedMarkWasStored ==
    \A r \in Relays :
        pc[r] = "mark" /\ claimedBy[Head(batch[r])] = r => Head(batch[r]) \notin owed

OutboxInv ==
    OutboxTypeOK /\ PublishedWasStored /\ HandlingHasEvent /\ LeasedMarkWasStored

\* What Store.Claim returns is a sequence of events with at least one element.
LEMMA ReturnedIsBatch ==
    ASSUME OutboxAssumption, NEW S \in SUBSET Events, S # {}, NEW q \in Returned(S)
    PROVE  q \in Seq(Events) /\ q # <<>>
<1>1. IsFiniteSet(S)
  <2>1. IsFiniteSet(1..Len(JobOf))
    BY FS_Interval DEF OutboxAssumption
  <2> QED
    BY <2>1, FS_Subset DEF OutboxAssumption
<1>2. Cardinality(S) \in Nat /\ Cardinality(S) # 0
  BY <1>1, FS_CardinalityType, FS_EmptySet
<1>3. q \in [1..Cardinality(S) -> S]
  BY DEF Returned, SetToSeqs
<1>4. q \in [1..Cardinality(S) -> Events]
  BY <1>3
<1>5. q \in Seq(Events) /\ Len(q) = Cardinality(S)
  BY <1>2, <1>4
<1> QED
  BY <1>2, <1>5

\* The relay takes its next event or ends its batch.
LEMMA NextEventKeeps ==
    ASSUME OutboxInv, NEW r \in Relays, pc[r] \in {"mark", "fail"}, NextEvent(r)
    PROVE  /\ batch' \in [Relays -> Seq(Events)]
           /\ pc' \in [Relays -> {"claim", "publish", "mark", "fail", "gone"}]
           /\ HandlingHasEvent'
           /\ pc'[r] # "mark"
           /\ \A x \in Relays \ {r} : pc'[x] = pc[x] /\ batch'[x] = batch[x]
<1>1. batch \in [Relays -> Seq(Events)] /\ batch[r] \in Seq(Events) /\ batch[r] # <<>>
  BY DEF OutboxInv, OutboxTypeOK, HandlingHasEvent
<1>2. /\ Tail(batch[r]) \in Seq(Events)
      /\ Len(batch[r]) # 1 => Tail(batch[r]) # <<>>
  <2>1. Tail(batch[r]) \in Seq(Events) /\ Len(Tail(batch[r])) = Len(batch[r]) - 1
    BY <1>1, HeadTailProperties
  <2>2. Len(batch[r]) \in Nat
    BY <1>1
  <2>3. Tail(batch[r]) = <<>> => Len(Tail(batch[r])) = 0
    BY EmptySeq, Zenon
  <2>4. Len(batch[r]) # 1 => Len(Tail(batch[r])) # 0
    BY <2>1, <2>2
  <2> QED
    BY <2>1, <2>3, <2>4, Zenon
<1>3. pc \in [Relays -> {"claim", "publish", "mark", "fail", "gone"}]
  BY DEF OutboxInv, OutboxTypeOK
<1>4. /\ batch' = [batch EXCEPT ![r] = Tail(batch[r])]
      /\ pc' = [pc EXCEPT ![r] = IF Len(batch[r]) = 1 THEN "claim" ELSE "publish"]
  BY DEF NextEvent
<1> QED
  BY <1>1, <1>2, <1>3, <1>4 DEF OutboxInv, HandlingHasEvent

\* The events a relay is about to handle are events.
LEMMA HeadIsEvent ==
    ASSUME OutboxInv, NEW r \in Relays, pc[r] \in {"publish", "mark", "fail"}
    PROVE  Head(batch[r]) \in Events
<1>1. batch[r] \in Seq(Events) /\ batch[r] # <<>>
  BY DEF OutboxInv, OutboxTypeOK, HandlingHasEvent
<1> QED
  BY <1>1

\* The empty outbox satisfies the invariant.
LEMMA InitHolds ==
    ASSUME OutboxAssumption, OutboxInit
    PROVE  OutboxInv
<1>1. OutboxTypeOK
  BY DEF OutboxInit, OutboxTypeOK, OutboxAssumption
<1>2. PublishedWasStored /\ HandlingHasEvent /\ LeasedMarkWasStored
  BY DEF OutboxInit, PublishedWasStored, HandlingHasEvent, LeasedMarkWasStored
<1> QED
  BY <1>1, <1>2 DEF OutboxInv

\* A claim leases unpublished rows; no relay that is about to mark one of them
\* keeps its lease.
LEMMA LeaseKeeps ==
    ASSUME OutboxAssumption, OutboxInv, NEW r \in Relays, pc[r] = "claim",
           NEW S \in SUBSET Events, Lease(r, S), UNCHANGED <<committed, stored, owed, replays>>
    PROVE  /\ claimedBy' \in [Events -> Relays \cup {NULL}]
           /\ claimedUntil' \in [Events -> {"null", "live", "expired"}]
           /\ published' = published /\ ready' = ready /\ owed' = owed
           /\ S # {}
           /\ \A x \in Relays : pc[x] = "mark" /\ claimedBy'[Head(batch[x])] = x
                                  => Head(batch[x]) \notin owed
<1>1. /\ claimedBy \in [Events -> Relays \cup {NULL}]
      /\ claimedUntil \in [Events -> {"null", "live", "expired"}]
  BY DEF OutboxInv, OutboxTypeOK
<1>2. ASSUME NEW x \in Relays, pc[x] = "mark", claimedBy'[Head(batch[x])] = x
      PROVE  Head(batch[x]) \notin owed
  <2>1. Head(batch[x]) \in Events
    BY <1>2, HeadIsEvent
  <2>2. x # r
    BY <1>2
  <2> QED
    BY <1>2, <2>1, <2>2 DEF Lease, OutboxInv, LeasedMarkWasStored
<1> QED
  BY <1>1, <1>2 DEF Lease, Selectable

\* A claim keeps the invariant, whether or not its answer arrives.
LEMMA ClaimKeeps ==
    ASSUME OutboxAssumption, OutboxInv, NEW r \in Relays, Claim(r) \/ ClaimLost(r)
    PROVE  OutboxInv'
<1>1. PICK S \in SUBSET Events : Lease(r, S)
  BY DEF Claim, ClaimLost
<1>2. pc[r] = "claim" /\ UNCHANGED <<committed, stored, owed, replays>>
  BY DEF Claim, ClaimLost
<1>3. /\ claimedBy' \in [Events -> Relays \cup {NULL}]
      /\ claimedUntil' \in [Events -> {"null", "live", "expired"}]
      /\ published' = published /\ ready' = ready /\ owed' = owed
      /\ \A x \in Relays : pc[x] = "mark" /\ claimedBy'[Head(batch[x])] = x
                             => Head(batch[x]) \notin owed
  BY <1>1, <1>2, LeaseKeeps
<1>4. CASE ClaimLost(r)
  BY <1>2, <1>3, <1>4 DEF ClaimLost, OutboxInv, OutboxTypeOK, PublishedWasStored,
     HandlingHasEvent, LeasedMarkWasStored
<1>5. CASE Claim(r)
  <2>1. PICK T \in SUBSET Events : /\ Lease(r, T)
                                   /\ \E q \in Returned(T) : batch' = [batch EXCEPT ![r] = q]
    BY <1>5 DEF Claim
  <2>2. T # {} /\ \A x \in Relays : pc[x] = "mark" /\ claimedBy'[Head(batch[x])] = x
                                       => Head(batch[x]) \notin owed
    BY <1>2, <2>1, LeaseKeeps
  <2>3. PICK q \in Returned(T) : batch' = [batch EXCEPT ![r] = q]
    BY <2>1
  <2>4. q \in Seq(Events) /\ q # <<>>
    BY <2>2, <2>3, ReturnedIsBatch
  <2>5. pc' = [pc EXCEPT ![r] = "publish"]
    BY <1>5 DEF Claim
  <2>6. OutboxTypeOK'
    BY <1>2, <1>3, <2>3, <2>4, <2>5 DEF OutboxInv, OutboxTypeOK
  <2>7. HandlingHasEvent'
    BY <2>3, <2>4, <2>5 DEF OutboxInv, OutboxTypeOK, HandlingHasEvent
  <2>8. LeasedMarkWasStored'
    BY <1>2, <2>2, <2>3, <2>5 DEF OutboxInv, OutboxTypeOK, LeasedMarkWasStored
  <2>9. PublishedWasStored'
    BY <1>3 DEF OutboxInv, PublishedWasStored
  <2> QED
    BY <2>6, <2>7, <2>8, <2>9 DEF OutboxInv
<1> QED
  BY <1>4, <1>5

\* Publishing, or failing to, keeps the invariant: Kafka only gains events.
LEMMA PublishKeeps ==
    ASSUME OutboxInv, NEW r \in Relays, Publish(r) \/ PublishFails(r)
    PROVE  OutboxInv'
<1> DEFINE e == Head(batch[r])
<1>1. pc[r] = "publish" /\ UNCHANGED <<committed, rowVars, replays, batch>>
  BY DEF Publish, PublishFails
<1>2. e \in Events
  BY <1>1, HeadIsEvent
<1>3. /\ stored' \in [Events -> SUBSET Partitions]
      /\ owed' \subseteq owed
      /\ Publish(r) => e \notin owed'
  <2>1. stored \in [Events -> SUBSET Partitions]
    BY DEF OutboxInv, OutboxTypeOK
  <2>2. CASE Store(e)
    <3>1. PICK p \in Partitions : stored' = [stored EXCEPT ![e] = stored[e] \cup {p}]
      BY <2>2 DEF Store
    <3>2. stored[e] \cup {p} \in SUBSET Partitions
      BY <1>2, <2>1
    <3> QED
      BY <2>1, <2>2, <3>1, <3>2 DEF Store
  <2>3. CASE UNCHANGED <<stored, owed>> /\ ~Publish(r)
    BY <2>1, <2>3
  <2> QED
    BY <2>2, <2>3 DEF Publish, PublishFails
<1>4. \/ pc' = [pc EXCEPT ![r] = "mark"] /\ Publish(r)
      \/ pc' = [pc EXCEPT ![r] = "fail"]
  BY DEF Publish, PublishFails
<1>5. OutboxTypeOK'
  BY <1>1, <1>3, <1>4 DEF OutboxInv, OutboxTypeOK, rowVars
<1>6. PublishedWasStored'
  BY <1>1, <1>3 DEF OutboxInv, PublishedWasStored, rowVars
<1>7. HandlingHasEvent'
  BY <1>1, <1>4 DEF OutboxInv, OutboxTypeOK, HandlingHasEvent
<1>8. LeasedMarkWasStored'
  BY <1>1, <1>3, <1>4 DEF OutboxInv, OutboxTypeOK, LeasedMarkWasStored, rowVars
<1> QED
  BY <1>5, <1>6, <1>7, <1>8 DEF OutboxInv

\* MarkPublished is the step that could break the property: the ownership
\* predicate of its WHERE clause lets only a relay pass whose publication
\* answers for the current commit or replay.
LEMMA SetPublishedKeeps ==
    ASSUME OutboxAssumption, OutboxInv, NEW r \in Relays, pc[r] = "mark",
           SetPublished(r, Head(batch[r])), UNCHANGED owed
    PROVE  /\ published' \in [Events -> BOOLEAN]
           /\ claimedBy' \in [Events -> Relays \cup {NULL}]
           /\ claimedUntil' \in [Events -> {"null", "live", "expired"}]
           /\ ready' \in [Events -> BOOLEAN]
           /\ PublishedWasStored'
           /\ \A x \in Relays, f \in Events : claimedBy'[f] = x => claimedBy[f] = x
<1> DEFINE e == Head(batch[r])
<1>1. e \in Events /\ e \notin owed
  BY HeadIsEvent DEF SetPublished, OutboxInv, LeasedMarkWasStored
<1>2. /\ published' \in [Events -> BOOLEAN] /\ ready' \in [Events -> BOOLEAN]
      /\ claimedUntil' \in [Events -> {"null", "live", "expired"}]
      /\ claimedBy' \in [Events -> Relays \cup {NULL}]
  BY <1>1 DEF SetPublished, OutboxInv, OutboxTypeOK
<1>3. PublishedWasStored'
  BY <1>1 DEF SetPublished, OutboxInv, OutboxTypeOK, PublishedWasStored
<1>4. \A x \in Relays, f \in Events : claimedBy'[f] = x => claimedBy[f] = x
  BY <1>1 DEF SetPublished, OutboxInv, OutboxTypeOK, OutboxAssumption
<1> QED
  BY <1>2, <1>3, <1>4

\* MarkPublished keeps the invariant, and so does its loss or failure.
LEMMA MarkPublishedKeeps ==
    ASSUME OutboxAssumption, OutboxInv, NEW r \in Relays,
           MarkPublished(r) \/ MarkPublishedFails(r)
    PROVE  OutboxInv'
<1>1. pc[r] = "mark" /\ UNCHANGED <<committed, stored, owed, replays>>
  BY DEF MarkPublished, MarkPublishedFails
<1>2. /\ published' \in [Events -> BOOLEAN] /\ ready' \in [Events -> BOOLEAN]
      /\ claimedBy' \in [Events -> Relays \cup {NULL}]
      /\ claimedUntil' \in [Events -> {"null", "live", "expired"}]
      /\ PublishedWasStored'
      /\ \A x \in Relays, f \in Events : claimedBy'[f] = x => claimedBy[f] = x
  <2>1. CASE SetPublished(r, Head(batch[r]))
    BY <1>1, <2>1, SetPublishedKeeps
  <2>2. CASE UNCHANGED rowVars
    BY <1>1, <2>2 DEF rowVars, OutboxInv, OutboxTypeOK, PublishedWasStored
  <2> QED
    BY <2>1, <2>2 DEF MarkPublished, MarkPublishedFails
<1>3. /\ batch' \in [Relays -> Seq(Events)]
      /\ pc' \in [Relays -> {"claim", "publish", "mark", "fail", "gone"}]
      /\ HandlingHasEvent'
      /\ pc'[r] # "mark"
      /\ \A x \in Relays \ {r} : pc'[x] = pc[x] /\ batch'[x] = batch[x]
  <2>1. CASE MarkPublished(r)
    BY <1>1, <2>1, NextEventKeeps DEF MarkPublished
  <2>2. CASE MarkPublishedFails(r)
    BY <2>2 DEF MarkPublishedFails, OutboxInv, OutboxTypeOK, HandlingHasEvent
  <2> QED
    BY <2>1, <2>2
<1>4. LeasedMarkWasStored'
  BY <1>1, <1>2, <1>3, HeadIsEvent DEF OutboxInv, LeasedMarkWasStored
<1> QED
  BY <1>1, <1>2, <1>3, <1>4 DEF OutboxInv, OutboxTypeOK

\* Backing an event off gives up its lease and marks nothing.
LEMMA MarkFailedKeeps ==
    ASSUME OutboxAssumption, OutboxInv, NEW r \in Relays, MarkFailed(r)
    PROVE  OutboxInv'
<1> DEFINE e == Head(batch[r])
<1>1. pc[r] = "fail" /\ UNCHANGED <<committed, stored, owed, replays>> /\ NextEvent(r)
  BY DEF MarkFailed
<1>2. e \in Events
  BY <1>1, HeadIsEvent
<1>3. /\ published' = published /\ ready' \in [Events -> BOOLEAN]
      /\ claimedBy' \in [Events -> Relays \cup {NULL}]
      /\ claimedUntil' \in [Events -> {"null", "live", "expired"}]
      /\ \A x \in Relays, f \in Events : claimedBy'[f] = x => claimedBy[f] = x
  <2>1. CASE UNCHANGED rowVars
    BY <2>1 DEF rowVars, OutboxInv, OutboxTypeOK
  <2>2. CASE /\ claimedBy' = [claimedBy EXCEPT ![e] = NULL]
             /\ claimedUntil' = [claimedUntil EXCEPT ![e] = "null"]
             /\ ready' = [ready EXCEPT ![e] = FALSE]
             /\ UNCHANGED published
    BY <1>2, <2>2 DEF OutboxInv, OutboxTypeOK, OutboxAssumption
  <2> QED
    BY <2>1, <2>2 DEF MarkFailed
<1>4. /\ batch' \in [Relays -> Seq(Events)]
      /\ pc' \in [Relays -> {"claim", "publish", "mark", "fail", "gone"}]
      /\ HandlingHasEvent'
      /\ pc'[r] # "mark"
      /\ \A x \in Relays \ {r} : pc'[x] = pc[x] /\ batch'[x] = batch[x]
  BY <1>1, NextEventKeeps
<1>5. LeasedMarkWasStored'
  <2>1. ASSUME NEW x \in Relays, pc'[x] = "mark", claimedBy'[Head(batch'[x])] = x
        PROVE  Head(batch'[x]) \notin owed'
    <3>1. x # r /\ pc[x] = "mark" /\ batch'[x] = batch[x]
      BY <1>4, <2>1
    <3>2. Head(batch[x]) \in Events
      BY <3>1, HeadIsEvent
    <3>3. claimedBy[Head(batch[x])] = x
      BY <1>3, <2>1, <3>1, <3>2
    <3> QED
      BY <1>1, <3>1, <3>3 DEF OutboxInv, LeasedMarkWasStored
  <2> QED
    BY <2>1 DEF LeasedMarkWasStored
<1>6. PublishedWasStored'
  BY <1>1, <1>3 DEF OutboxInv, PublishedWasStored
<1> QED
  BY <1>1, <1>3, <1>4, <1>5, <1>6 DEF OutboxInv, OutboxTypeOK

\* A replay takes the lease from whoever published the event before.
LEMMA ReplayKeeps ==
    ASSUME OutboxAssumption, OutboxInv, NEW e \in Events, Replay(e)
    PROVE  OutboxInv'
<1>1. OutboxTypeOK'
  BY DEF Replay, OutboxInv, OutboxTypeOK, OutboxAssumption
<1>2. PublishedWasStored'
  BY DEF Replay, OutboxInv, OutboxTypeOK, PublishedWasStored
<1>3. HandlingHasEvent'
  BY DEF Replay, OutboxInv, HandlingHasEvent
<1>4. LeasedMarkWasStored'
  <2>1. ASSUME NEW x \in Relays, pc[x] = "mark", claimedBy'[Head(batch[x])] = x
        PROVE  Head(batch[x]) \notin owed'
    <3>1. Head(batch[x]) \in Events
      BY <2>1, HeadIsEvent
    <3>2. Head(batch[x]) # e /\ claimedBy[Head(batch[x])] = x
      BY <2>1, <3>1 DEF Replay, OutboxInv, OutboxTypeOK, OutboxAssumption
    <3> QED
      BY <2>1, <3>2 DEF Replay, OutboxInv, LeasedMarkWasStored
  <2> QED
    BY <2>1 DEF Replay, LeasedMarkWasStored
<1> QED
  BY <1>1, <1>2, <1>3, <1>4 DEF OutboxInv

\* A relay that stops leaves the rows alone.
LEMMA CrashKeeps ==
    ASSUME OutboxInv, NEW r \in Relays, Crash(r)
    PROVE  OutboxInv'
<1>1. OutboxTypeOK'
  BY DEF Crash, OutboxInv, OutboxTypeOK, rowVars
<1>2. PublishedWasStored'
  BY DEF Crash, OutboxInv, PublishedWasStored, rowVars
<1>3. HandlingHasEvent' /\ LeasedMarkWasStored'
  BY DEF Crash, OutboxInv, OutboxTypeOK, HandlingHasEvent, LeasedMarkWasStored, rowVars
<1> QED
  BY <1>1, <1>2, <1>3 DEF OutboxInv

\* Commits and the passage of time touch neither marks nor owners.
LEMMA EnvironmentKeeps ==
    ASSUME OutboxAssumption, OutboxInv,
           Commit \/ \E e \in Events : LeaseExpires(e) \/ BecomesReady(e)
    PROVE  OutboxInv'
<1>1. /\ UNCHANGED <<published, claimedBy, stored, owed, replays, batch, pc>>
  BY DEF Commit, LeaseExpires, BecomesReady, rowVars
<1>2. committed' \in 0..Len(JobOf)
  BY DEF Commit, LeaseExpires, BecomesReady, OutboxInv, OutboxTypeOK, OutboxAssumption
<1>3. claimedUntil' \in [Events -> {"null", "live", "expired"}]
  BY DEF Commit, LeaseExpires, BecomesReady, rowVars, OutboxInv, OutboxTypeOK
<1>4. ready' \in [Events -> BOOLEAN]
  BY DEF Commit, LeaseExpires, BecomesReady, rowVars, OutboxInv, OutboxTypeOK
<1> QED
  BY <1>1, <1>2, <1>3, <1>4 DEF OutboxInv, OutboxTypeOK, PublishedWasStored,
     HandlingHasEvent, LeasedMarkWasStored

\* The outbox's invariant holds in every reachable state: the rows and the
\* relays' variables are well typed, and what is marked was stored.
THEOREM OutboxCorrect == OutboxSpec => []OutboxInv
<1>1. OutboxInit => OutboxInv
  BY InitHolds, OutboxAssumption
<1>2. OutboxInv /\ [OutboxNext]_outboxVars => OutboxInv'
  <2> SUFFICES ASSUME OutboxInv, [OutboxNext]_outboxVars PROVE OutboxInv'
    OBVIOUS
  <2>1. CASE UNCHANGED outboxVars
    BY <2>1 DEF outboxVars, rowVars, OutboxInv, OutboxTypeOK, PublishedWasStored,
       HandlingHasEvent, LeasedMarkWasStored
  <2>2. ASSUME NEW r \in Relays, RelayStep(r) \/ ClaimLost(r) \/ Crash(r)
        PROVE  OutboxInv'
    BY <2>2, ClaimKeeps, PublishKeeps, MarkPublishedKeeps, MarkFailedKeeps, CrashKeeps,
       OutboxAssumption DEF RelayStep
  <2>3. ASSUME NEW e \in Events, Replay(e)
        PROVE  OutboxInv'
    BY <2>3, ReplayKeeps, OutboxAssumption
  <2>4. CASE Commit \/ \E e \in Events : LeaseExpires(e) \/ BecomesReady(e)
    BY <2>4, EnvironmentKeeps, OutboxAssumption
  <2> QED
    BY <2>1, <2>2, <2>3, <2>4 DEF OutboxNext
<1> QED
  BY <1>1, <1>2, PTL DEF OutboxSpec

\* An event is marked published only if Kafka has stored it since its commit or
\* its last replay, whatever the relays, their leases and the administrators do.
THEOREM PublishedIsStored == OutboxSpec => []PublishedWasStored
<1>1. OutboxInv => PublishedWasStored
  BY DEF OutboxInv
<1> QED
  BY <1>1, OutboxCorrect, PTL

\* The rows of job_events and the relays' variables keep their types.
THEOREM OutboxTypeCorrect == OutboxSpec => []OutboxTypeOK
<1>1. OutboxInv => OutboxTypeOK
  BY DEF OutboxInv
<1> QED
  BY <1>1, OutboxCorrect, PTL
==============================================================================
