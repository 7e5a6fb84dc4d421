------------------------------- MODULE Registry -------------------------------
(***************************************************************************)
(* The worker registry in Redis (internal/worker/registry.go): a heartbeat *)
(* key with a TTL per worker and the set workers:active of worker IDs.     *)
(* Workers beat (heartbeatLoop); API requests list the active workers and  *)
(* remove stale members as they go, one Redis command at a time. A process *)
(* draws a fresh ID, so a worker that stops never comes back.              *)
(***************************************************************************)
EXTENDS FiniteSets

CONSTANTS
    Workers,  \* worker identifiers
    Readers   \* API requests in progress

VARIABLES
    life,     \* of a worker's heartbeat loop: "new", "up" or "gone"
    alive,    \* workers whose heartbeat key exists
    members,  \* the set workers:active
    step,     \* a reader's next command
    todo,     \* the IDs that a reader has yet to look up
    stale,    \* the ID that a reader is about to remove
    listed,   \* the workers that a reader has found
    seen      \* history: the workers whose key existed during a reader's call

registryVars == <<life, alive, members, step, todo, stale, listed, seen>>
readerVars == <<step, todo, stale, listed>>

RegistryInit ==
    /\ life = [w \in Workers |-> "new"]
    /\ alive = {} /\ members = {}
    /\ step = [a \in Readers |-> "smembers"]
    /\ todo = [a \in Readers |-> {}]
    /\ stale = [a \in Readers |-> {}]
    /\ listed = [a \in Readers |-> {}]
    /\ seen = [a \in Readers |-> {}]

------------------------------------------------------------------------------
\* Workers.

Start(w) ==
    /\ life[w] = "new"
    /\ life' = [life EXCEPT ![w] = "up"]
    /\ UNCHANGED <<alive, members, seen, readerVars>>

\* Variant: SADD only when the key was missing.
HeartbeatKeyOnly(w) ==
    /\ life[w] = "up"
    /\ alive' = alive \cup {w}
    /\ members' = IF w \in alive THEN members ELSE members \cup {w}
    /\ seen' = [a \in Readers |-> seen[a] \cup {w}]
    /\ UNCHANGED <<life, readerVars>>

\* MULTI: SET with TTL and SADD in one transaction.
Heartbeat(w) ==
    /\ life[w] = "up"
    /\ alive' = alive \cup {w}
    /\ members' = members \cup {w}
    /\ seen' = [a \in Readers |-> seen[a] \cup {w}]
    /\ UNCHANGED <<life, readerVars>>

Stop(w) ==
    /\ life[w] = "up"
    /\ life' = [life EXCEPT ![w] = "gone"]
    /\ UNCHANGED <<alive, members, seen, readerVars>>

KeyExpires(w) ==
    /\ w \in alive
    /\ alive' = alive \ {w}
    /\ UNCHANGED <<life, members, seen, readerVars>>

------------------------------------------------------------------------------
\* ActiveWorkers.

SMembers(a) ==
    /\ step[a] = "smembers"
    /\ todo' = [todo EXCEPT ![a] = members]
    /\ listed' = [listed EXCEPT ![a] = {}]
    /\ seen' = [seen EXCEPT ![a] = alive]
    /\ step' = [step EXCEPT ![a] = "get"]
    /\ UNCHANGED <<life, alive, members, stale>>

\* Variants: a member without a key is listed; or skipped without removal.
GetAny(a) ==
    /\ step[a] = "get"
    /\ \E w \in todo[a] :
          /\ todo' = [todo EXCEPT ![a] = @ \ {w}]
          /\ listed' = [listed EXCEPT ![a] = @ \cup {w}]
    /\ UNCHANGED <<life, alive, members, step, stale, seen>>

GetSkips(a) ==
    /\ step[a] = "get"
    /\ \E w \in todo[a] :
          /\ todo' = [todo EXCEPT ![a] = @ \ {w}]
          /\ listed' = [listed EXCEPT ![a] = @ \cup ({w} \cap alive)]
    /\ UNCHANGED <<life, alive, members, step, stale, seen>>

\* GET of the next key: a worker with one is listed, one without is removed.
Get(a) ==
    /\ step[a] = "get"
    /\ \E w \in todo[a] :
          /\ todo' = [todo EXCEPT ![a] = @ \ {w}]
          /\ IF w \in alive
             THEN /\ listed' = [listed EXCEPT ![a] = @ \cup {w}]
                  /\ UNCHANGED <<step, stale>>
             ELSE /\ stale' = [stale EXCEPT ![a] = {w}]
                  /\ step' = [step EXCEPT ![a] = "srem"]
                  /\ UNCHANGED listed
    /\ UNCHANGED <<life, alive, members, seen>>

\* Variant: the next look-up starts with the removed ID still at hand.
SRemKeeps(a) ==
    /\ step[a] = "srem"
    /\ members' \in {members, members \ stale[a]}
    /\ step' = [step EXCEPT ![a] = "get"]
    /\ UNCHANGED <<life, alive, todo, stale, listed, seen>>

\* SREM, whose error is ignored.
SRem(a) ==
    /\ step[a] = "srem"
    /\ members' \in {members, members \ stale[a]}
    /\ stale' = [stale EXCEPT ![a] = {}]
    /\ step' = [step EXCEPT ![a] = "get"]
    /\ UNCHANGED <<life, alive, todo, listed, seen>>

\* The answer is complete; the reader's next call starts over.
Return(a) ==
    /\ step[a] = "get" /\ todo[a] = {}
    /\ step' = [step EXCEPT ![a] = "smembers"]
    /\ UNCHANGED <<life, alive, members, todo, stale, listed, seen>>

\* Redis fails: the call returns an error and no list.
ReadFails(a) ==
    /\ step[a] = "get"
    /\ step' = [step EXCEPT ![a] = "smembers"]
    /\ todo' = [todo EXCEPT ![a] = {}]
    /\ listed' = [listed EXCEPT ![a] = {}]
    /\ UNCHANGED <<life, alive, members, stale, seen>>

ReaderStep(a) == SMembers(a) \/ Get(a) \/ SRem(a) \/ Return(a)

RegistryNext ==
    \/ \E w \in Workers : Start(w) \/ Heartbeat(w) \/ Stop(w) \/ KeyExpires(w)
    \/ \E a \in Readers : ReaderStep(a) \/ ReadFails(a)

RegistrySpec == RegistryInit /\ [][RegistryNext]_registryVars

------------------------------------------------------------------------------
\* Fairness: a running loop keeps beating, the key of a stopped worker expires
\* and the dashboard keeps asking. For a worker that is listed again and again,
\* not every reader's GET and SREM fails.

Looks(w) == \E a \in Readers : Get(a) /\ w \in todo[a] /\ w \notin todo'[a]
SRemoves(w) == (\E a \in Readers : SRem(a)) /\ w \in members /\ w \notin members'

RegistryFairness ==
    /\ \A a \in Readers : WF_registryVars(ReaderStep(a))
    /\ \A w \in Workers :
          /\ WF_registryVars(Heartbeat(w))
          /\ WF_registryVars(life[w] = "gone" /\ KeyExpires(w))
          /\ SF_registryVars(Looks(w)) /\ SF_registryVars(SRemoves(w))

FairRegistrySpec == RegistrySpec /\ RegistryFairness

------------------------------------------------------------------------------
\* Properties.

RegistryShape ==
    /\ life \in [Workers -> {"new", "up", "gone"}]
    /\ alive \subseteq Workers /\ members \subseteq Workers
    /\ step \in [Readers -> {"smembers", "get", "srem"}]
    /\ todo \in [Readers -> SUBSET Workers]
    /\ stale \in [Readers -> SUBSET Workers]
    /\ listed \in [Readers -> SUBSET Workers]
    /\ seen \in [Readers -> SUBSET Workers]

\* Redis holds sets of worker IDs; a reader removes one ID at a time.
RegistryTypeOK ==
    /\ RegistryShape
    /\ \A a \in Readers : Cardinality(stale[a]) = IF step[a] = "srem" THEN 1 ELSE 0

\* "ActiveWorkers returns live heartbeat keys": every worker in an answer had a
\* key at some time during the call, however the call interleaves with
\* heartbeats, expiry and other readers.
ListedWasAlive == \A a \in Readers : listed[a] \subseteq seen[a]

\* A worker whose loop runs is found in workers:active again and again, even if
\* readers that saw its key expired remove it behind a new heartbeat.
Rediscovered == \A w \in Workers : life[w] = "up" ~> w \in members \/ life[w] = "gone"

\* A worker that stops for good disappears from workers:active as long as
\* somebody lists the workers.
Forgotten == \A w \in Workers : life[w] = "gone" ~> [](w \notin members)

------------------------------------------------------------------------------
\* The inductive invariant: a key that exists is among those seen by every call
\* in progress, which is why a worker found by GET was seen.

ReaderInStep(a) ==
    /\ IF step[a] = "srem" THEN \E w \in Workers : stale[a] = {w} ELSE stale[a] = {}
    /\ step[a] # "smembers" => alive \subseteq seen[a]
    /\ listed[a] \subseteq seen[a]

RegistryInv == RegistryShape /\ \A a \in Readers : ReaderInStep(a)
==============================================================================
