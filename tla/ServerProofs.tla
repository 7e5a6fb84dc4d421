----------------------------- MODULE ServerProofs -----------------------------
(***************************************************************************)
(* Proofs about the parts of the API server that are not the job table:    *)
(* the worker registry it lists, the keys and roles it checks and the      *)
(* token bucket it spends from. Each is a specification of its own; no     *)
(* theorem relates two of them.                                            *)
(***************************************************************************)
EXTENDS Registry, Access, RateLimiter, FiniteSetTheorems, TLAPS

------------------------------------------------------------------------------
\* The worker registry, for any sets of workers and of concurrent readers.

\* Every step keeps the registry's invariant: a heartbeat and the start of a call
\* are what makes a key seen.
LEMMA RegistryNextInv ==
    ASSUME RegistryInv, [RegistryNext]_registryVars
    PROVE  RegistryInv'
<1> USE DEF RegistryInv, RegistryShape, ReaderInStep
<1>1. CASE UNCHANGED registryVars
  BY <1>1 DEF registryVars
<1>2. ASSUME NEW w \in Workers, Start(w) \/ Stop(w)
      PROVE  RegistryInv'
  BY <1>2 DEF Start, Stop, readerVars
<1>3. ASSUME NEW w \in Workers, Heartbeat(w)
      PROVE  RegistryInv'
  BY <1>3 DEF Heartbeat, readerVars
<1>4. ASSUME NEW w \in Workers, KeyExpires(w)
      PROVE  RegistryInv'
  BY <1>4 DEF KeyExpires, readerVars
<1>5. ASSUME NEW a \in Readers, SMembers(a)
      PROVE  RegistryInv'
  BY <1>5 DEF SMembers
<1>6. ASSUME NEW a \in Readers, Get(a)
      PROVE  RegistryInv'
  BY <1>6 DEF Get
<1>7. ASSUME NEW a \in Readers, SRem(a)
      PROVE  RegistryInv'
  BY <1>7 DEF SRem
<1>8. ASSUME NEW a \in Readers, Return(a) \/ ReadFails(a)
      PROVE  RegistryInv'
  BY <1>8 DEF Return, ReadFails
<1> QED
  BY <1>1, <1>2, <1>3, <1>4, <1>5, <1>6, <1>7, <1>8 DEF RegistryNext, ReaderStep

\* The inductive invariant of the registry.
THEOREM RegistryCorrect == RegistrySpec => []RegistryInv
<1>1. RegistryInit => RegistryInv
  BY DEF RegistryInit, RegistryInv, RegistryShape, ReaderInStep
<1> QED
  BY <1>1, RegistryNextInv, PTL DEF RegistrySpec

\* Redis holds sets of worker IDs, and a call of ActiveWorkers removes one ID at
\* a time and only between a GET that found no key and the next one.
THEOREM RegistryTypeCorrect == RegistrySpec => []RegistryTypeOK
<1>1. RegistryInv => RegistryTypeOK
  <2> SUFFICES ASSUME RegistryInv PROVE RegistryTypeOK
    OBVIOUS
  <2>1. ASSUME NEW a \in Readers
        PROVE  Cardinality(stale[a]) = IF step[a] = "srem" THEN 1 ELSE 0
    <3>1. CASE step[a] = "srem"
      <4>1. PICK w \in Workers : stale[a] = {w}
        BY <3>1 DEF RegistryInv, ReaderInStep
      <4> QED
        BY <3>1, <4>1, FS_Singleton
    <3>2. CASE step[a] # "srem"
      BY <3>2, FS_EmptySet DEF RegistryInv, ReaderInStep
    <3> QED
      BY <3>1, <3>2
  <2> QED
    BY <2>1 DEF RegistryInv, RegistryShape, RegistryTypeOK
<1> QED
  BY <1>1, RegistryCorrect, PTL

\* Every worker that ActiveWorkers answers with had a heartbeat key at some time
\* during the call, with any number of workers and concurrent readers.
THEOREM ListedWorkersWereAlive == RegistrySpec => []ListedWasAlive
<1>1. RegistryInv => ListedWasAlive
  BY DEF RegistryInv, ReaderInStep, ListedWasAlive
<1> QED
  BY <1>1, RegistryCorrect, PTL

------------------------------------------------------------------------------
\* API keys and requests, for any sets of clients, keys, requests and commands.

\* A row, once inserted, keeps its key, tenant and role, and stays revoked.
RowKept(c) ==
    client[c] # NULL =>
        /\ client'[c] # NULL
        /\ client'[c].key = client[c].key
        /\ client'[c].tenant = client[c].tenant
        /\ client'[c].role = client[c].role
        /\ client[c].revoked => client'[c].revoked

TableKept ==
    /\ client' \in [Clients -> Row \cup {NULL}]
    /\ KeysAreUnique'
    /\ \A c \in Clients : RowKept(c)

\* What an insert writes is a row.
LEMMA NewRowIsRow ==
    ASSUME AccessInv, NEW m \in Commands, At(m, "insert")
    PROVE  NewRow(m) \in Row /\ NewRow(m) # NULL /\ NewRow(m).key = command[m].key
<1>1. command[m].key \in Keys /\ command[m].tenant \in Tenants /\ command[m].role \in Roles
  BY DEF AccessInv, CommandInStep, At
<1>2. NewRow(m) \in Row /\ NewRow(m).key = command[m].key
  BY <1>1 DEF Row, NewRow
<1> QED
  BY <1>2, AccessAssumption

\* Only an insert with a key that nobody has and a revocation change the table.
LEMMA TableStep ==
    ASSUME AccessInv, [AccessNext]_accessVars
    PROVE  TableKept
<1>1. AccessTypeOK /\ KeysAreUnique
  BY DEF AccessInv
<1>2. CASE UNCHANGED client
  BY <1>1, <1>2 DEF AccessTypeOK, KeysAreUnique, TableKept, RowKept
<1>3. ASSUME NEW m \in Commands, Insert(m)
      PROVE  TableKept
  <2>1. NewRow(m) \in Row /\ NewRow(m) # NULL /\ NewRow(m).key = command[m].key
    BY <1>3, NewRowIsRow DEF Insert
  <2>2. PICK c \in Clients : client[c] = NULL /\ client' = [client EXCEPT ![c] = NewRow(m)]
    BY <1>3, Zenon DEF Insert
  <2>3. \A d \in Clients : client[d] # NULL => client[d].key # command[m].key
    BY <1>3 DEF Insert, HasKey
  <2>4. client' \in [Clients -> Row \cup {NULL}]
    BY <1>1, <2>1, <2>2 DEF AccessTypeOK
  <2>5. KeysAreUnique'
    BY <1>1, <2>1, <2>2, <2>3 DEF AccessTypeOK, KeysAreUnique
  <2> QED
    BY <1>1, <2>2, <2>4, <2>5 DEF AccessTypeOK, TableKept, RowKept
<1>4. ASSUME NEW m \in Commands, RevokeClient(m)
      PROVE  TableKept
  <2>1. PICK c \in Clients : client[c] # NULL /\ client' = [client EXCEPT ![c].revoked = TRUE]
    BY <1>4, Zenon DEF RevokeClient, AccessInv, CommandInStep, At
  <2>2. client[c] \in Row
    BY <1>1, <2>1 DEF AccessTypeOK
  <2>3. /\ client'[c] \in Row /\ client'[c].key = client[c].key
        /\ client'[c].tenant = client[c].tenant /\ client'[c].role = client[c].role
        /\ client'[c].revoked
    BY <1>1, <2>1, <2>2, Zenon DEF AccessTypeOK, Row
  <2>4. \A d \in Clients : d # c => client'[d] = client[d]
    BY <1>1, <2>1 DEF AccessTypeOK
  <2>5. client' \in [Clients -> Row \cup {NULL}]
    BY <1>1, <2>1, <2>3, <2>4 DEF AccessTypeOK
  <2>6. client'[c] # NULL
    BY <2>3, AccessAssumption
  <2>7. KeysAreUnique'
    BY <1>1, <2>1, <2>3, <2>4, <2>6 DEF KeysAreUnique
  <2> QED
    BY <2>3, <2>4, <2>5, <2>6, <2>7 DEF TableKept, RowKept
<1> QED
  BY <1>2, <1>3, <1>4, Zenon DEF AccessNext, accessVars, StartCreate, Conflict, Lookup, StartRevoke,
     CommandFails, Receive, Authenticate, Unauthorized, TouchLastUsed, Limit, Require

\* A command that takes no step still knows what it knew.
LEMMA CommandStays ==
    ASSUME AccessInv, TableKept, NEW m \in Commands, command'[m] = command[m]
    PROVE  CommandInStep(m)'
BY DEF AccessInv, TableKept, RowKept, CommandInStep, HasKey, Revoked

\* So does a request.
LEMMA RequestStays ==
    ASSUME AccessInv, TableKept, NEW q \in Requests, request'[q] = request[q]
    PROVE  RequestInStep(q)'
<1>1. RequestInStep(q) /\ (request[q] # NULL => request[q] \in Request)
  BY DEF AccessInv, AccessTypeOK
<1>2. \A c \in Clients : RowKept(c)
  BY DEF TableKept
<1>3. request[q] # NULL => request[q].barred \subseteq Clients
  BY <1>1 DEF Request
<1>4. \A p \in Principal : p.client \in Clients
  BY DEF Principal
<1> QED
  BY <1>1, <1>2, <1>3, <1>4 DEF RowKept, RequestInStep, HasKey, Revoked

\* One command goes on: what it knows then is all there is to show.
LEMMA CommandGoesOn ==
    ASSUME AccessInv, TableKept, NEW m \in Commands, NEW x \in Command,
           command' = [command EXCEPT ![m] = x], UNCHANGED <<lastUsed, request>>,
           CommandInStep(m)'
    PROVE  AccessInv'
<1>1. \A n \in Commands : CommandInStep(n)'
  <2> SUFFICES ASSUME NEW n \in Commands, n # m PROVE CommandInStep(n)'
    OBVIOUS
  <2>1. command'[n] = command[n]
    BY DEF AccessInv, AccessTypeOK
  <2> QED
    BY <2>1, CommandStays
<1>2. \A q \in Requests : RequestInStep(q)'
  BY RequestStays
<1>3. AccessTypeOK'
  BY DEF AccessInv, AccessTypeOK, TableKept
<1> QED
  BY <1>1, <1>2, <1>3 DEF AccessInv, TableKept

\* One request goes on.
LEMMA RequestGoesOn ==
    ASSUME AccessInv, TableKept, NEW q \in Requests, NEW x \in Request,
           request' = [request EXCEPT ![q] = x], lastUsed' \subseteq Clients, UNCHANGED command,
           RequestInStep(q)'
    PROVE  AccessInv'
<1>1. \A n \in Requests : RequestInStep(n)'
  <2> SUFFICES ASSUME NEW n \in Requests, n # q PROVE RequestInStep(n)'
    OBVIOUS
  <2>1. request'[n] = request[n]
    BY DEF AccessInv, AccessTypeOK
  <2> QED
    BY <2>1, RequestStays
<1>2. \A m \in Commands : CommandInStep(m)'
  BY CommandStays
<1>3. request' \in [Requests -> Request \cup {NULL}]
  BY DEF AccessInv, AccessTypeOK
<1>4. \A n \in Requests :
         request'[n] # NULL /\ request'[n].step \notin {"authenticate", "refused"}
            => request'[n].principal # NULL
  BY <1>1, AccessAssumption DEF RequestInStep
<1>5. AccessTypeOK'
  BY <1>3, <1>4 DEF AccessInv, AccessTypeOK, TableKept
<1> QED
  BY <1>1, <1>2, <1>5 DEF AccessInv, TableKept

\* create-api-key and revoke-api-key keep the invariant.
LEMMA CommandsInv ==
    ASSUME AccessInv, TableKept, NEW m \in Commands,
           \/ StartCreate(m) \/ Insert(m) \/ Conflict(m) \/ Lookup(m)
           \/ StartRevoke(m) \/ RevokeClient(m) \/ CommandFails(m)
    PROVE  AccessInv'
<1>0. /\ command \in [Commands -> Command \cup {NULL}] /\ client \in [Clients -> Row \cup {NULL}]
      /\ CommandInStep(m)
  BY DEF AccessInv, AccessTypeOK
<1>1. ASSUME NEW x \in Command, command' = [command EXCEPT ![m] = x],
             UNCHANGED <<lastUsed, request>>, CommandInStep(m)'
      PROVE  AccessInv'
  BY <1>1, CommandGoesOn, Zenon
<1>2. CASE StartCreate(m)
  <2>1. PICK k \in Keys, t \in Tenants, r \in Roles, supplied \in BOOLEAN :
           /\ supplied \/ Generated(k)
           /\ command' = [command EXCEPT ![m] =
                 [step |-> "insert", key |-> k, tenant |-> t, role |-> r,
                  supplied |-> supplied, client |-> NULL]]
    BY <1>2, Zenon DEF StartCreate
  <2> DEFINE x == [step |-> "insert", key |-> k, tenant |-> t, role |-> r,
                   supplied |-> supplied, client |-> NULL]
  <2>2. x \in Command
    BY DEF Command
  <2>3. CommandInStep(m)'
    BY <1>0, <2>1 DEF CommandInStep
  <2> QED
    BY <1>1, <1>2, <2>1, <2>2, <2>3, Zenon DEF StartCreate
<1>3. CASE StartRevoke(m)
  <2>1. PICK c \in Clients :
           command' = [command EXCEPT ![m] =
              [step |-> "revoke", key |-> NULL, tenant |-> NULL, role |-> NULL,
               supplied |-> FALSE, client |-> c]]
    BY <1>3, Zenon DEF StartRevoke
  <2> DEFINE x == [step |-> "revoke", key |-> NULL, tenant |-> NULL, role |-> NULL,
                   supplied |-> FALSE, client |-> c]
  <2>2. x \in Command
    BY DEF Command
  <2>3. CommandInStep(m)'
    BY <1>0, <2>1 DEF CommandInStep
  <2> QED
    BY <1>1, <1>3, <2>1, <2>2, <2>3, Zenon DEF StartRevoke
<1>4. command[m] # NULL => command[m] \in Command
  BY <1>0
<1>5. CASE Insert(m)
  <2>1. PICK c \in Clients, s \in {"created", "failed"} :
           /\ client' = [client EXCEPT ![c] = NewRow(m)]
           /\ command' = [command EXCEPT ![m].step = s, ![m].client = c]
           /\ At(m, "insert") /\ command[m] # NULL
    BY <1>5, Zenon DEF Insert, At
  <2>2. client'[c] # NULL /\ client'[c].key = command[m].key
    BY <1>0, <2>1, NewRowIsRow
  <2> DEFINE x == [command[m] EXCEPT !.step = s, !.client = c]
  <2>3. /\ x \in Command /\ x.step = s /\ x.client = c /\ x.key = command[m].key
        /\ command' = [command EXCEPT ![m] = x] /\ command'[m] = x
    BY <1>0, <1>4, <2>1, Zenon DEF Command
  <2> HIDE DEF x
  <2>4. CommandInStep(m)'
    BY <2>2, <2>3 DEF CommandInStep, HasKey
  <2> QED
    BY <1>1, <1>5, <2>3, <2>4, Zenon DEF Insert
<1>6. CASE Lookup(m)
  <2>1. PICK c \in Clients :
           /\ HasKey(c, command[m].key)
           /\ command' = [command EXCEPT ![m].step = "created", ![m].client = c]
           /\ command[m] # NULL /\ client' = client
    BY <1>6, Zenon DEF Lookup, At
  <2> DEFINE x == [command[m] EXCEPT !.step = "created", !.client = c]
  <2>2. /\ x \in Command /\ x.step = "created" /\ x.client = c /\ x.key = command[m].key
        /\ command' = [command EXCEPT ![m] = x] /\ command'[m] = x
    BY <1>0, <1>4, <2>1, Zenon DEF Command
  <2> HIDE DEF x
  <2>3. CommandInStep(m)'
    BY <2>1, <2>2 DEF CommandInStep, HasKey
  <2> QED
    BY <1>1, <1>6, <2>2, <2>3, Zenon DEF Lookup
<1>7. CASE Conflict(m) \/ RevokeClient(m) \/ CommandFails(m)
  <2>1. PICK s \in {"lookup", "revoked", "failed"} :
           /\ command[m] # NULL
           /\ command' = [command EXCEPT ![m].step = s]
           /\ s = "lookup" => command[m].step = "insert"
           /\ s = "revoked" => RevokeClient(m)
    BY <1>7 DEF Conflict, RevokeClient, CommandFails, At
  <2> DEFINE x == [command[m] EXCEPT !.step = s]
  <2>2. /\ x \in Command /\ x.step = s /\ x.client = command[m].client
        /\ x.key = command[m].key /\ x.tenant = command[m].tenant /\ x.role = command[m].role
        /\ command' = [command EXCEPT ![m] = x] /\ command'[m] = x
    BY <1>0, <1>4, <2>1 DEF Command
  <2> HIDE DEF x
  <2>3. ASSUME s = "revoked"
        PROVE  LET c == command[m].client
               IN  c \in Clients /\ client'[c] # NULL /\ client'[c].revoked
    <3> DEFINE c == command[m].client
    <3>1. c \in Clients /\ client[c] # NULL /\ client' = [client EXCEPT ![c].revoked = TRUE]
      BY <1>0, <2>1, <2>3 DEF RevokeClient, At, CommandInStep
    <3>2. client'[c].revoked
      BY <1>0, <3>1 DEF Row
    <3>3. client'[c] # NULL
      BY <3>1 DEF TableKept, RowKept
    <3> QED
      BY <3>1, <3>2, <3>3
  <2>4. CommandInStep(m)'
    BY <1>0, <2>1, <2>2, <2>3 DEF CommandInStep, Revoked
  <2> QED
    BY <1>1, <1>7, <2>2, <2>4, Zenon DEF Conflict, RevokeClient, CommandFails
<1> QED
  BY <1>2, <1>3, <1>5, <1>6, <1>7

\* A request on its way through the middleware keeps the invariant: only an
\* active client becomes its principal, and only the role check lets it in.
LEMMA RequestsInv ==
    ASSUME AccessInv, TableKept, NEW q \in Requests,
           \/ Receive(q) \/ Authenticate(q) \/ Unauthorized(q)
           \/ TouchLastUsed(q) \/ Limit(q) \/ Require(q)
    PROVE  AccessInv'
<1>0. /\ request \in [Requests -> Request \cup {NULL}] /\ client \in [Clients -> Row \cup {NULL}]
      /\ lastUsed \subseteq Clients /\ RequestInStep(q)
  BY DEF AccessInv, AccessTypeOK
<1>1. ASSUME NEW x \in Request, request' = [request EXCEPT ![q] = x],
             lastUsed' \subseteq Clients, UNCHANGED command, RequestInStep(q)'
      PROVE  AccessInv'
  BY <1>1, RequestGoesOn, Zenon
<1>2. CASE Receive(q)
  <2>1. PICK k \in Keys, route \in Routes :
           request' = [request EXCEPT ![q] =
              [step |-> "authenticate", key |-> k, route |-> route, principal |-> NULL,
               barred |-> Acknowledged]]
    BY <1>2, Zenon DEF Receive
  <2> DEFINE x == [step |-> "authenticate", key |-> k, route |-> route, principal |-> NULL,
                   barred |-> Acknowledged]
  <2>2. \A c \in Acknowledged : c \in Clients /\ Revoked(c)
    BY DEF Acknowledged, At, AccessInv, CommandInStep
  <2>3. x \in Request
    BY <2>2 DEF Request
  <2>4. x.step = "authenticate" /\ x.barred = Acknowledged /\ request' = [request EXCEPT ![q] = x]
    BY <2>1
  <2> HIDE DEF x
  <2>5. request'[q] = x
    BY <1>0, <2>4
  <2>6. RequestInStep(q)'
    BY <1>2, <2>2, <2>4, <2>5 DEF RequestInStep, Revoked, Receive
  <2> QED
    BY <1>0, <1>1, <1>2, <2>3, <2>4, <2>6, Zenon DEF Receive
<1>3. CASE Authenticate(q)
  <2>1. PICK c \in Clients :
           /\ Active(c, request[q].key)
           /\ request' = [request EXCEPT ![q].step = "touch",
                 ![q].principal = [client |-> c, tenant |-> client[c].tenant, role |-> client[c].role]]
           /\ request[q] # NULL /\ client' = client
    BY <1>3, Zenon DEF Authenticate, Standing
  <2> DEFINE p == [client |-> c, tenant |-> client[c].tenant, role |-> client[c].role]
             x == [request[q] EXCEPT !.step = "touch", !.principal = p]
  <2>2. client[c] \in Row /\ request[q] # NULL /\ request[q] \in Request
    BY <1>0, <2>1 DEF Active, HasKey
  <2>3. p \in Principal /\ p.client = c /\ p.tenant = client[c].tenant /\ p.role = client[c].role
    BY <2>2 DEF Principal, Row
  <2>4. request' = [request EXCEPT ![q] = x]
    BY <1>0, <2>1, Zenon
  <2> HIDE DEF p
  <2>5. /\ x \in Request /\ x.step = "touch" /\ x.principal = p
        /\ x.key = request[q].key /\ x.barred = request[q].barred
    BY <2>2, <2>3, Zenon DEF Request
  <2> HIDE DEF x
  <2>6. request'[q] = x
    BY <1>0, <2>4
  <2>7. /\ client' = client /\ \A d \in x.barred : Revoked(d)
        /\ HasKey(c, x.key) /\ c \notin x.barred
    BY <1>0, <2>1, <2>2, <2>5 DEF RequestInStep, Revoked, Active, HasKey
  <2>8. RequestInStep(q)'
    BY <2>3, <2>5, <2>6, <2>7 DEF RequestInStep, Revoked, HasKey
  <2> QED
    BY <1>0, <1>1, <1>3, <2>4, <2>5, <2>8, Zenon DEF Authenticate
<1>4. CASE Unauthorized(q) \/ TouchLastUsed(q) \/ Limit(q) \/ Require(q)
  <2>1. PICK s \in {"limit", "require", "handled", "refused"} :
           /\ request[q] # NULL
           /\ request' = [request EXCEPT ![q].step = s]
           /\ s # "refused" => request[q].step \notin {"authenticate", "refused"}
           /\ s = "handled" => Allows(request[q].principal.role, RequiredRole[request[q].route])
    BY <1>4 DEF Unauthorized, TouchLastUsed, Limit, Require, Standing
  <2> DEFINE x == [request[q] EXCEPT !.step = s]
  <2>2. request[q] \in Request
    BY <1>0, <2>1
  <2>3. /\ x \in Request /\ x.step = s /\ x.principal = request[q].principal
        /\ x.key = request[q].key /\ x.barred = request[q].barred /\ x.route = request[q].route
    BY <2>2 DEF Request
  <2>4. request' = [request EXCEPT ![q] = x]
    BY <1>0, <2>1
  <2> HIDE DEF x
  <2>5. request'[q] = x
    BY <1>0, <2>4
  <2>6. UNCHANGED <<client, command>>
    BY <1>4 DEF Unauthorized, TouchLastUsed, Limit, Require
  <2>7. RequestInStep(q)'
    BY <1>0, <2>1, <2>3, <2>5, <2>6 DEF RequestInStep, Revoked, HasKey
  <2>8. lastUsed' \subseteq Clients
    <3>1. CASE TouchLastUsed(q)
      BY <1>0, <3>1 DEF TouchLastUsed, Standing, RequestInStep, Principal
    <3> QED
      BY <1>0, <1>4, <3>1 DEF Unauthorized, Limit, Require
  <2> QED
    BY <1>1, <2>3, <2>4, <2>6, <2>7, <2>8, Zenon
<1> QED
  BY <1>2, <1>3, <1>4

\* Every step keeps the invariant of keys and requests.
LEMMA AccessNextInv ==
    ASSUME AccessInv, [AccessNext]_accessVars
    PROVE  AccessInv'
<1>1. TableKept
  BY TableStep
<1>2. CASE UNCHANGED accessVars
  <2>1. UNCHANGED <<client, lastUsed, request, command>>
    BY <1>2 DEF accessVars
  <2>2. AccessTypeOK'
    BY <2>1 DEF AccessInv, AccessTypeOK
  <2>3. /\ \A m \in Commands : CommandInStep(m)'
        /\ \A q \in Requests : RequestInStep(q)'
    BY <1>1, <2>1, CommandStays, RequestStays
  <2> QED
    BY <1>1, <2>2, <2>3 DEF AccessInv, TableKept
<1> QED
  BY <1>1, <1>2, CommandsInv, RequestsInv DEF AccessNext

\* The inductive invariant of the api_clients table, of the commands that write
\* it and of the requests that are checked against it.
THEOREM AccessCorrect == AccessSpec => []AccessInv
<1>1. AccessInit => AccessInv
  BY DEF AccessInit, AccessInv, AccessTypeOK, KeysAreUnique, CommandInStep, RequestInStep
<1> QED
  BY <1>1, AccessNextInv, PTL DEF AccessSpec

\* Rows, principals, requests and commands have their types, and a request that
\* is past authentication has a principal.
THEOREM AccessTypeCorrect == AccessSpec => []AccessTypeOK
<1>1. AccessInv => AccessTypeOK
  BY DEF AccessInv
<1> QED
  BY <1>1, AccessCorrect, PTL

\* No request that comes in after RevokeClient has reported success reaches a
\* handler as that client, with any number of clients, requests and commands.
THEOREM RevocationIsPermanent == AccessSpec => []RevocationHolds
<1>1. AccessInv => RevocationHolds
  BY DEF AccessInv, RevocationHolds, Handled, Standing, RequestInStep
<1> QED
  BY <1>1, AccessCorrect, PTL

\* A handler runs for the client of the request's key, in that client's tenant
\* and with a role that includes the one the route requires.
THEOREM HandlersRunAsClient == AccessSpec => []HandledAsClient
<1>1. AccessInv => HandledAsClient
  BY DEF AccessInv, HandledAsClient, Handled, Standing, RequestInStep, Allows
<1> QED
  BY <1>1, AccessCorrect, PTL

\* Every create-api-key that reports a client reports the one that owns its key,
\* also after a conflict with a concurrent command.
THEOREM BootstrapIsRepeatable == AccessSpec => []BootstrapAgrees
<1>1. AccessInv => BootstrapAgrees
  BY DEF AccessInv, BootstrapAgrees, At, CommandInStep
<1> QED
  BY <1>1, AccessCorrect, PTL

\* No step makes the key of a revoked client valid again: the row stays revoked
\* and no other client can be given the key.
THEOREM RevokedKeysStayDead == AccessSpec => KeysStayDead
<1>1. ASSUME AccessInv, [AccessNext]_accessVars, NEW k \in Keys, Dead(k),
             NEW c \in Clients, HasKey(c, k)'
      PROVE  client'[c].revoked
  <2>1. PICK d \in Clients : HasKey(d, k) /\ client[d].revoked
    BY <1>1 DEF Dead
  <2>2. HasKey(d, k)' /\ client'[d].revoked /\ KeysAreUnique'
    BY <1>1, <2>1, TableStep DEF TableKept, RowKept, HasKey
  <2>3. c = d
    BY <1>1, <2>2 DEF KeysAreUnique, HasKey
  <2> QED
    BY <2>2, <2>3
<1>2. ASSUME AccessInv, [AccessNext]_accessVars
      PROVE  [\A k \in Keys : Dead(k) =>
                 \A c \in Clients : HasKey(c, k)' => client'[c].revoked]_accessVars
  BY <1>1, <1>2
<1> QED
  BY <1>2, AccessCorrect, PTL DEF AccessSpec, KeysStayDead

------------------------------------------------------------------------------
\* The token bucket, for any capacity, period and clock skew for which the
\* bucket's expiry covers a full refill and the skew.

\* Multiplying by the capacity keeps the order.
LEMMA Scale ==
    ASSUME NEW a \in Int, NEW b \in Int, a <= b, RateAssumption
    PROVE  /\ Capacity * a \in Int /\ Capacity * b \in Int
           /\ Capacity * a <= Capacity * b
<1>1. Capacity \in Nat /\ b - a \in Nat
  BY DEF RateAssumption
<1>2. Capacity * (b - a) \in Nat
  BY <1>1
<1>3. Capacity * (b - a) = Capacity * b - Capacity * a
  BY <1>1
<1> QED
  BY <1>1, <1>2, <1>3

\* A negative stretch of time is worth no tokens.
LEMMA NegativeScale ==
    ASSUME NEW a \in Int, a <= 0, RateAssumption
    PROVE  Capacity * a \in Int /\ Capacity * a <= 0
<1>1. Capacity \in Nat /\ -a \in Nat
  BY DEF RateAssumption
<1>2. Capacity * (-a) \in Nat
  BY <1>1
<1>3. Capacity * (-a) = -(Capacity * a) /\ Capacity * a \in Int
  BY <1>1
<1> QED
  BY <1>2, <1>3

\* A full bucket holds at least one request.
LEMMA FullBucket ==
    ASSUME RateAssumption
    PROVE  Full \in Nat /\ Full >= Period
<1>1. Capacity \in Nat /\ Capacity >= 1 /\ Period \in Nat
  BY DEF RateAssumption
<1>2. (Capacity - 1) * Period \in Nat
  BY <1>1
<1>3. Capacity * Period = (Capacity - 1) * Period + Period
  BY <1>1
<1> QED
  BY <1>1, <1>2, <1>3 DEF Full

\* The refill is an integer between the uncapped refill and the capacity.
LEMMA RefillRange ==
    ASSUME RateInv, RateAssumption, NEW clock \in Int
    PROVE  /\ Refilled(clock) \in Int /\ Refilled(clock) <= Full
           /\ \/ Refilled(clock) = Full
              \/ Present /\ Refilled(clock) = tokens + Capacity * clock - Capacity * updated
           /\ Present => Refilled(clock) <= tokens + Capacity * clock - Capacity * updated
           /\ ~Present => Refilled(clock) = Full
<1>1. tokens \in Int /\ updated \in Int /\ Capacity \in Int /\ Full \in Int
  BY FullBucket DEF RateInv, RateTypeOK, RateAssumption
<1> DEFINE t == tokens + (clock - updated) * Capacity
<1>2. t \in Int /\ t = tokens + Capacity * clock - Capacity * updated
  BY <1>1
<1>3. Refilled(clock) = IF Present /\ t <= Full THEN t ELSE Full
  BY DEF Refilled
<1> HIDE DEF t
<1> QED
  BY <1>1, <1>2, <1>3

\* Facts about the variables, in a form the provers like.
LEMMA Numbers ==
    ASSUME RateInv, RateAssumption
    PROVE  /\ now \in Int /\ start \in Int /\ touched \in Int /\ tokens \in Int
           /\ updated \in Int /\ passed \in Int /\ passed * Period \in Int
           /\ 0 <= start /\ start <= now /\ touched <= now
           /\ Capacity \in Int /\ Period \in Int /\ Skew \in Int /\ TTL \in Int /\ MaxTime \in Int
           /\ Skew >= 0 /\ Period >= 1 /\ TTL >= Period + Skew
           /\ inWindow \in BOOLEAN
<1>1. /\ now \in Nat /\ start \in 0..now /\ touched \in -1..now
      /\ updated \in 0..(now + Skew) /\ passed \in Nat /\ inWindow \in BOOLEAN
  BY DEF RateInv, RateTypeOK
<1>2. Capacity * Skew \in Int /\ Full \in Int /\ Capacity \in Nat /\ Period \in Nat \ {0} /\ Skew \in Nat
  BY FullBucket DEF RateAssumption
<1>3. tokens \in Int
  BY <1>2 DEF RateInv, RateTypeOK
<1> QED
  BY <1>1, <1>2, <1>3 DEF RateAssumption

\* The bucket of a client that was seen refills at least at the nominal rate,
\* counted from Skew after its last request.
LEMMA RefillLow ==
    ASSUME RateInv, RateAssumption, touched >= 0, NEW clock \in Int
    PROVE  \/ Refilled(clock) = Full
           \/ Refilled(clock) >= Capacity * (clock - touched - Skew)
<1>1. tokens >= Capacity * (updated - touched - Skew)
  BY DEF RateInv, BucketInv
<1>2. /\ Capacity * (updated - touched - Skew) = Capacity * updated - Capacity * touched - Capacity * Skew
      /\ Capacity * (clock - touched - Skew) = Capacity * clock - Capacity * touched - Capacity * Skew
      /\ Capacity * updated \in Int /\ Capacity * touched \in Int
      /\ Capacity * Skew \in Int /\ Capacity * clock \in Int
  BY Numbers
<1>3. CASE Refilled(clock) = Full
  BY <1>3
<1>4. CASE Present /\ Refilled(clock) = tokens + Capacity * clock - Capacity * updated
  BY <1>1, <1>2, <1>4, Numbers
<1> QED
  BY <1>3, <1>4, RefillRange

\* What has passed in the window and what the refilled bucket holds together
\* fit into a full bucket and the refill of the window. When Redis has forgotten
\* the bucket, TTL seconds have paid for a new one.
LEMMA RefillWindow ==
    ASSUME RateInv, RateAssumption, NEW clock \in Int, clock >= now
    PROVE  passed * Period + Refilled(clock) <= Full + Capacity * (clock - start)
<1>1. Full \in Int /\ Full = Capacity * Period /\ Refilled(clock) \in Int
  BY FullBucket, RefillRange DEF Full
<1>2. /\ Capacity * (clock - start) = Capacity * clock - Capacity * start
      /\ Capacity * (updated - start) = Capacity * updated - Capacity * start
      /\ Capacity * clock \in Int /\ Capacity * start \in Int
      /\ Capacity * updated \in Int /\ Capacity * touched \in Int
  BY Numbers
<1>3. CASE ~inWindow
  <2>1. passed = 0 /\ passed * Period = 0
    BY <1>3, Numbers DEF RateInv, WindowInv
  <2>2. start \in Int /\ start <= clock
    BY Numbers
  <2>3. Capacity * start <= Capacity * clock
    BY <2>2, Scale
  <2> QED
    BY <1>1, <1>2, <2>1, <2>3, RefillRange
<1>4. CASE inWindow
  <2>1. touched >= start /\ passed * Period + tokens <= Full + Capacity * (updated - start)
    BY <1>4 DEF RateInv, WindowInv
  <2>2. CASE Present
    <3>1. Refilled(clock) <= tokens + Capacity * clock - Capacity * updated
      BY <2>2, RefillRange
    <3> QED
      BY <1>1, <1>2, <2>1, <3>1, Numbers
  <2>3. CASE ~Present
    <3>1. Refilled(clock) = Full
      BY <2>3, RefillRange
    <3>2. touched >= 0 /\ now >= touched + TTL
      BY <2>1, <2>3, Numbers DEF Present
    <3>3. tokens >= Capacity * (updated - touched - Skew)
      BY <3>2 DEF RateInv, BucketInv
    <3>4. /\ Capacity * (updated - touched - Skew)
                = Capacity * updated - Capacity * touched - Capacity * Skew
          /\ Capacity * Skew \in Int /\ Capacity * Period \in Int
      BY Numbers
    <3>5. touched + Skew + Period \in Int /\ touched + Skew + Period <= clock
      BY <3>2, Numbers
    <3>6. Capacity * (touched + Skew + Period) <= Capacity * clock
      BY <3>5, Scale
    <3>7. Capacity * (touched + Skew + Period)
             = Capacity * touched + Capacity * Skew + Capacity * Period
      BY Numbers
    <3> QED
      BY <1>1, <1>2, <2>1, <3>1, <3>3, <3>4, <3>6, <3>7, Numbers
  <2> QED
    BY <2>2, <2>3
<1> QED
  BY <1>3, <1>4, Numbers

\* A request, allowed or refused, writes a bucket that satisfies the invariant:
\* left is what the script leaves and counted what the window then counts.
LEMMA TouchInv ==
    ASSUME RateInv, RateAssumption, NEW clock \in now..(now + Skew), NEW left \in Int,
           Touch(clock, left), left <= Full, left >= Capacity * (clock - now - Skew),
           passed' \in Nat, passed' * Period + left <= Full + Capacity * (clock - start)
    PROVE  RateInv'
<1>1. /\ tokens' = left /\ updated' = clock /\ touched' = now /\ inWindow' = TRUE
      /\ now' = now /\ start' = start
  BY DEF Touch
<1>2. /\ now \in Nat /\ start \in 0..now /\ Skew \in Nat /\ Capacity \in Nat
      /\ clock \in Int /\ now <= clock /\ clock <= now + Skew
  BY DEF RateInv, RateTypeOK, RateAssumption
<1>3. left >= -(Capacity * Skew)
  <2>1. -Skew \in Int /\ clock - now - Skew \in Int /\ -Skew <= clock - now - Skew
    BY <1>2
  <2>2. /\ Capacity * (-Skew) \in Int /\ Capacity * (clock - now - Skew) \in Int
        /\ Capacity * (-Skew) <= Capacity * (clock - now - Skew)
    BY <2>1, Scale
  <2>3. Capacity * (-Skew) = -(Capacity * Skew) /\ Capacity * Skew \in Int
    BY <1>2
  <2> QED
    BY <2>2, <2>3
<1>4. RateTypeOK'
  <2>1. Full \in Int /\ -(Capacity * Skew) \in Int
    BY <1>2, FullBucket
  <2>2. tokens' \in -(Capacity * Skew)..Full
    BY <1>1, <1>3, <2>1
  <2> QED
    BY <1>1, <1>2, <2>2 DEF RateTypeOK, Full
<1>5. BucketInv'
  BY <1>1, <1>2 DEF BucketInv
<1>6. WindowInv'
  <2>1. touched' >= start' /\ passed' * Period + tokens' <= Full + Capacity * (updated' - start')
    BY <1>1, <1>2
  <2> QED
    BY <1>1, <2>1, Zenon DEF WindowInv, Full
<1> QED
  BY <1>4, <1>5, <1>6 DEF RateInv

\* An allowed request pays for itself.
LEMMA AllowInv ==
    ASSUME RateInv, RateAssumption, NEW clock \in now..(now + Skew), Allow(clock)
    PROVE  RateInv'
<1> DEFINE left == Refilled(clock) - Period
<1>1. Refilled(clock) >= Period /\ Touch(clock, left) /\ passed' \in {passed, passed + 1}
  BY DEF Allow
<1>2. /\ clock \in Int /\ clock >= now /\ clock - now - Skew <= 0 /\ clock - now - Skew \in Int
      /\ Period \in Int /\ Period >= 1 /\ Capacity \in Int
  BY Numbers
<1>3. Refilled(clock) \in Int /\ Refilled(clock) <= Full /\ Full \in Int
  BY <1>2, RefillRange, FullBucket
<1>4. left \in Int /\ left <= Full /\ left >= 0
  BY <1>1, <1>2, <1>3
<1>5. left >= Capacity * (clock - now - Skew)
  <2>1. Capacity * (clock - now - Skew) \in Int /\ Capacity * (clock - now - Skew) <= 0
    BY <1>2, NegativeScale
  <2> QED
    BY <1>4, <2>1
<1>6. passed \in Nat /\ passed' \in Nat
  BY <1>1 DEF RateInv, RateTypeOK
<1>7. passed' * Period + left <= Full + Capacity * (clock - start)
  <2>1. passed * Period + Refilled(clock) <= Full + Capacity * (clock - start)
    BY <1>2, RefillWindow
  <2>2. (passed + 1) * Period = passed * Period + Period /\ passed * Period \in Int
    BY <1>2, <1>6
  <2>3. Capacity * (clock - start) \in Int
    BY <1>2, Numbers
  <2> QED
    BY <1>1, <1>2, <1>3, <2>1, <2>2, <2>3
<1> HIDE DEF left
<1> QED
  BY <1>1, <1>4, <1>5, <1>6, <1>7, TouchInv

\* A refused request leaves the refill, which is not below the skew's worth.
LEMMA RefuseInv ==
    ASSUME RateInv, RateAssumption, NEW clock \in now..(now + Skew), Refuse(clock)
    PROVE  RateInv'
<1>1. Refilled(clock) < Period /\ Touch(clock, Refilled(clock)) /\ passed' = passed
  BY DEF Refuse
<1>2. /\ clock \in Int /\ clock >= now /\ touched \in Int /\ now \in Int /\ Skew \in Int
      /\ clock - now - Skew \in Int /\ clock - touched - Skew \in Int
      /\ clock - now - Skew <= clock - touched - Skew
      /\ Period \in Int /\ Capacity \in Int
  BY Numbers
<1>3. Refilled(clock) \in Int /\ Refilled(clock) <= Full /\ Full \in Int /\ Full >= Period
  BY <1>2, RefillRange, FullBucket
<1>4. Refilled(clock) # Full
  BY <1>1, <1>2, <1>3
<1>5. touched >= 0
  BY <1>2, <1>4, RefillRange DEF Present
<1>6. Refilled(clock) >= Capacity * (clock - now - Skew)
  <2>1. Refilled(clock) >= Capacity * (clock - touched - Skew)
    BY <1>2, <1>4, <1>5, RefillLow
  <2>2. /\ Capacity * (clock - now - Skew) \in Int /\ Capacity * (clock - touched - Skew) \in Int
        /\ Capacity * (clock - now - Skew) <= Capacity * (clock - touched - Skew)
    BY <1>2, Scale
  <2> QED
    BY <1>3, <2>1, <2>2
<1>7. passed' \in Nat /\ passed' * Period + Refilled(clock) <= Full + Capacity * (clock - start)
  BY <1>1, <1>2, RefillWindow DEF RateInv, RateTypeOK
<1> QED
  BY <1>1, <1>3, <1>6, <1>7, TouchInv

\* Every step preserves the invariant.
LEMMA NextRateInv ==
    ASSUME RateInv, RateAssumption, [RateNext]_rateVars
    PROVE  RateInv'
<1>1. ASSUME NEW clock \in now..(now + Skew), Allow(clock) \/ Refuse(clock)
      PROVE  RateInv'
  BY <1>1, AllowInv, RefuseInv
<1>2. CASE Tick
  BY <1>2, Numbers DEF Tick, RateInv, RateTypeOK, BucketInv, WindowInv, Full
<1>3. CASE StartWindow
  <2>1. RateTypeOK'
    <3>1. inWindow' \in BOOLEAN
      BY <1>3, Zenon DEF StartWindow
    <3>2. now' = now /\ start' = now /\ passed' = 0 /\ UNCHANGED <<touched, tokens, updated>>
      BY <1>3 DEF StartWindow
    <3> QED
      BY <3>1, <3>2 DEF RateInv, RateTypeOK, Full
  <2>2. BucketInv'
    BY <1>3 DEF StartWindow, RateInv, BucketInv
  <2>3. WindowInv'
    BY <1>3, Zenon DEF StartWindow, WindowInv
  <2> QED
    BY <2>1, <2>2, <2>3 DEF RateInv
<1>4. CASE UNCHANGED rateVars
  BY <1>4 DEF rateVars, RateInv, RateTypeOK, BucketInv, WindowInv, Full
<1> QED
  BY <1>1, <1>2, <1>3, <1>4 DEF RateNext

\* The inductive invariant holds in every reachable state of the bucket.
THEOREM BucketCorrect == RateSpec => []RateInv
<1>1. RateInit => RateInv
  <2> SUFFICES ASSUME RateInit PROVE RateInv
    OBVIOUS
  <2>1. Capacity * Skew \in Nat /\ Full \in Nat /\ Skew \in Nat
    BY FullBucket, RateAssumption DEF RateAssumption
  <2>2. RateTypeOK
    <3>1. 0 \in -(Capacity * Skew)..Full
      BY <2>1
    <3>2. inWindow \in BOOLEAN
      BY Zenon DEF RateInit
    <3> QED
      BY <2>1, <3>1, <3>2 DEF RateInit, RateTypeOK
  <2>3. BucketInv
    BY DEF RateInit, BucketInv
  <2>4. WindowInv
    BY Zenon DEF RateInit, WindowInv
  <2> QED
    BY <2>2, <2>3, <2>4 DEF RateInv
<1>2. RateInv /\ [RateNext]_rateVars => RateInv'
  BY NextRateInv, RateAssumption
<1> QED
  BY <1>1, <1>2, PTL DEF RateSpec

\* The invariant bounds what passes in the window.
LEMMA InvBoundsWindow ==
    ASSUME RateInv, RateAssumption
    PROVE  WindowBound
<1>1. Full \in Int /\ Capacity \in Int
  BY FullBucket, Numbers
<1>2. now - start + Skew \in Int /\ -(now - start + Skew) \in Int /\ -(now - start + Skew) <= 0
  BY Numbers
<1>3. CASE ~inWindow
  <2>1. passed * Period = 0
    BY <1>3, Numbers DEF RateInv, WindowInv
  <2>2. Capacity * (-(now - start + Skew)) \in Int /\ Capacity * (-(now - start + Skew)) <= 0
    BY <1>2, NegativeScale
  <2>3. Capacity * (-(now - start + Skew)) = -(Capacity * (now - start + Skew))
    BY <1>1, <1>2
  <2>4. Capacity * (now - start + Skew) \in Int
    BY <1>1, <1>2
  <2> QED
    BY <2>1, <2>2, <2>3, <2>4, FullBucket DEF WindowBound
<1>4. CASE inWindow
  <2>1. touched >= start /\ passed * Period + tokens <= Full + Capacity * (updated - start)
    BY <1>4 DEF RateInv, WindowInv
  <2>2. touched >= 0
    BY <2>1, Numbers
  <2>3. tokens >= Capacity * (updated - touched - Skew)
    BY <2>2 DEF RateInv, BucketInv
  <2>4. touched - start + Skew \in Int /\ touched - start + Skew <= now - start + Skew
    BY Numbers
  <2>5. /\ Capacity * (touched - start + Skew) \in Int /\ Capacity * (now - start + Skew) \in Int
        /\ Capacity * (touched - start + Skew) <= Capacity * (now - start + Skew)
    BY <1>2, <2>4, Scale
  <2>6. Capacity * (updated - start)
           = Capacity * (updated - touched - Skew) + Capacity * (touched - start + Skew)
    BY Numbers
  <2>7. Capacity * (updated - start) \in Int /\ Capacity * (updated - touched - Skew) \in Int
    BY Numbers
  <2> QED
    BY <1>1, <2>1, <2>3, <2>5, <2>6, <2>7, Numbers DEF WindowBound
<1> QED
  BY <1>3, <1>4, Numbers

\* The bucket never holds more than the capacity, and skewed clocks drive it
\* below zero by no more than the skew is worth.
THEOREM BucketTypeCorrect == RateSpec => []RateTypeOK
<1>1. RateInv => RateTypeOK
  BY DEF RateInv
<1> QED
  BY <1>1, BucketCorrect, PTL

\* In every window of time the script lets through at most a full bucket and the
\* refill of the window, stretched by the clock skew.
THEOREM RateIsBounded == RateSpec => []WindowBound
<1>1. RateInv => WindowBound
  BY InvBoundsWindow, RateAssumption
<1> QED
  BY <1>1, BucketCorrect, PTL

\* The invariant keeps a paused client's bucket from staying empty.
LEMMA InvRefills ==
    ASSUME RateInv, RateAssumption
    PROVE  NeverLockedOut
<1> SUFFICES ASSUME touched >= 0, Capacity * (now - touched - Skew) >= Period,
                    NEW clock \in now..(now + Skew)
             PROVE  Refilled(clock) >= Period
  BY DEF NeverLockedOut
<1>1. /\ clock \in Int /\ now - touched - Skew \in Int /\ clock - touched - Skew \in Int
      /\ now - touched - Skew <= clock - touched - Skew
  BY Numbers
<1>2. /\ Capacity * (now - touched - Skew) \in Int /\ Capacity * (clock - touched - Skew) \in Int
      /\ Capacity * (now - touched - Skew) <= Capacity * (clock - touched - Skew)
  BY <1>1, Scale
<1>3. CASE Refilled(clock) = Full
  BY <1>3, FullBucket
<1>4. CASE Refilled(clock) >= Capacity * (clock - touched - Skew)
  <2>1. Refilled(clock) \in Int /\ Period \in Int
    BY <1>1, RefillRange, Numbers
  <2> QED
    BY <1>2, <1>4, <2>1
<1> QED
  BY <1>1, <1>3, <1>4, RefillLow

\* A client that pauses for the time of one token, and the skew, is let through,
\* although its refused requests wrote the bucket with other replicas' clocks.
THEOREM NobodyIsLockedOut == RateSpec => []NeverLockedOut
<1>1. RateInv => NeverLockedOut
  BY InvRefills, RateAssumption
<1> QED
  BY <1>1, BucketCorrect, PTL
==============================================================================
