------------------------------- MODULE Access --------------------------------
(***************************************************************************)
(* API keys and roles: the api_clients table (internal/auth/auth.go), the  *)
(* scheduler-admin commands that write it, and the way of a request        *)
(* through the middleware of /api/v1 (internal/server/server.go) to a      *)
(* handler: authentication, rate limit, required role.                     *)
(*                                                                         *)
(* Requests and commands run concurrently; every call to PostgreSQL is a   *)
(* step, can fail, and can take effect although its answer is lost. Keys   *)
(* are hashed without collisions, so a key stands for its hash.            *)
(***************************************************************************)
EXTENDS Naturals

CONSTANTS
    Clients,    \* client identifiers, drawn by uuid.New()
    Keys,       \* API keys
    Tenants,
    Requests,   \* HTTP requests under /api/v1
    Commands,   \* invocations of scheduler-admin
    NULL

VARIABLES
    client,     \* the api_clients row of an identifier
    lastUsed,   \* clients with a last_used_at
    request,    \* the progress of a request
    command     \* the progress of a command

accessVars == <<client, lastUsed, request, command>>

Rank == [viewer |-> 1, operator |-> 2, admin |-> 3]
Roles == DOMAIN Rank

\* The role that a route requires; reading requires none beyond a valid key.
RequiredRole == [read |-> "viewer", operate |-> "operator", replay |-> "admin"]
Routes == DOMAIN RequiredRole

\* Variant: the order of the roles is reversed.
AllowsLess(role, required) == Rank[role] <= Rank[required]

Allows(role, required) == Rank[role] >= Rank[required]

Row == [key : Keys, tenant : Tenants, role : Roles, revoked : BOOLEAN]
Principal == [client : Clients, tenant : Tenants, role : Roles]
Request == [step : {"authenticate", "touch", "limit", "require", "handled", "refused"},
            key : Keys, route : Routes, principal : Principal \cup {NULL},
            barred : SUBSET Clients]
Command == [step : {"insert", "lookup", "created", "revoke", "revoked", "failed"},
            key : Keys \cup {NULL}, tenant : Tenants \cup {NULL}, role : Roles \cup {NULL},
            supplied : BOOLEAN, client : Clients \cup {NULL}]

\* nil is no row, principal, request or command.
ASSUME AccessAssumption == NULL \notin Row \cup Principal \cup Request \cup Command

AccessInit ==
    /\ client = [c \in Clients |-> NULL]
    /\ lastUsed = {}
    /\ request = [q \in Requests |-> NULL]
    /\ command = [m \in Commands |-> NULL]

HasKey(c, k) == client[c] # NULL /\ client[c].key = k

------------------------------------------------------------------------------
\* scheduler-admin.

\* A key that GenerateKey returns: nobody has it.
Generated(k) ==
    /\ \A c \in Clients : ~HasKey(c, k)
    /\ \A m \in Commands : command[m] # NULL => command[m].key # k

\* create-api-key, with the key of --key or a generated one.
StartCreate(m) ==
    /\ command[m] = NULL
    /\ \E k \in Keys, t \in Tenants, r \in Roles, supplied \in BOOLEAN :
          /\ supplied \/ Generated(k)
          /\ command' = [command EXCEPT ![m] =
                [step |-> "insert", key |-> k, tenant |-> t, role |-> r,
                 supplied |-> supplied, client |-> NULL]]
    /\ UNCHANGED <<client, lastUsed, request>>

\* revoke-api-key.
StartRevoke(m) ==
    /\ command[m] = NULL
    /\ \E c \in Clients : client[c] # NULL
          /\ command' = [command EXCEPT ![m] =
                [step |-> "revoke", key |-> NULL, tenant |-> NULL, role |-> NULL,
                 supplied |-> FALSE, client |-> c]]
    /\ UNCHANGED <<client, lastUsed, request>>

At(m, step) == command[m] # NULL /\ command[m].step = step

NewRow(m) ==
    [key |-> command[m].key, tenant |-> command[m].tenant, role |-> command[m].role, revoked |-> FALSE]

\* The client gets a new identifier.
Insert(m) ==
    /\ At(m, "insert")
    /\ \A c \in Clients : ~HasKey(c, command[m].key)
    /\ \E c \in Clients, answer \in {"created", "failed"} :
          /\ client[c] = NULL
          /\ client' = [client EXCEPT ![c] = NewRow(m)]
          /\ command' = [command EXCEPT ![m].step = answer, ![m].client = c]
    /\ UNCHANGED <<lastUsed, request>>

\* Variant: a second client is kept out of the table but reported all the same.
ConflictIgnored(m) ==
    /\ At(m, "insert")
    /\ \E c \in Clients : HasKey(c, command[m].key)
    /\ \E c \in Clients : client[c] = NULL
          /\ command' = [command EXCEPT ![m].step = "created", ![m].client = c]
    /\ UNCHANGED <<client, lastUsed, request>>

\* key_hash is unique: a supplied key that exists is looked up.
Conflict(m) ==
    /\ At(m, "insert")
    /\ \E c \in Clients : HasKey(c, command[m].key)
    /\ command' = [command EXCEPT ![m].step = IF command[m].supplied THEN "lookup" ELSE "failed"]
    /\ UNCHANGED <<client, lastUsed, request>>

\* Variant: the conflict is resolved by writing the row again.
LookupRenews(m) ==
    /\ At(m, "lookup")
    /\ \E c \in Clients :
          /\ HasKey(c, command[m].key)
          /\ client' = [client EXCEPT ![c].revoked = FALSE]
          /\ command' = [command EXCEPT ![m].step = "created", ![m].client = c]
    /\ UNCHANGED <<lastUsed, request>>

\* The existing client is the answer, whatever its tenant, role or state.
Lookup(m) ==
    /\ At(m, "lookup")
    /\ \E c \in Clients :
          /\ HasKey(c, command[m].key)
          /\ command' = [command EXCEPT ![m].step = "created", ![m].client = c]
    /\ UNCHANGED <<client, lastUsed, request>>

RevokeClient(m) ==
    LET c == command[m].client IN
    /\ At(m, "revoke")
    /\ client[c] # NULL
    /\ client' = [client EXCEPT ![c].revoked = TRUE]
    /\ \E answer \in {"revoked", "failed"} : command' = [command EXCEPT ![m].step = answer]
    /\ UNCHANGED <<lastUsed, request>>

\* No row, a lost connection, a failed statement.
CommandFails(m) ==
    /\ command[m] # NULL /\ command[m].step \in {"insert", "lookup", "revoke"}
    /\ command' = [command EXCEPT ![m].step = "failed"]
    /\ UNCHANGED <<client, lastUsed, request>>

\* Clients whose revocation has been reported to an administrator.
Acknowledged == {command[m].client : m \in {n \in Commands : At(n, "revoked")}}

------------------------------------------------------------------------------
\* A request.

Receive(q) ==
    /\ request[q] = NULL
    /\ \E k \in Keys, route \in Routes :
          request' = [request EXCEPT ![q] =
                [step |-> "authenticate", key |-> k, route |-> route, principal |-> NULL,
                 barred |-> Acknowledged]]   \* history: revoked when it came
    /\ UNCHANGED <<client, lastUsed, command>>

Standing(q, step) == request[q] # NULL /\ request[q].step = step

\* Variant: revoked clients are found, too.
ActiveOrNot(c, k) == HasKey(c, k)

\* WHERE key_hash = $1 AND enabled AND revoked_at IS NULL.
Active(c, k) == HasKey(c, k) /\ ~client[c].revoked

Authenticate(q) ==
    /\ Standing(q, "authenticate")
    /\ \E c \in Clients :
          /\ Active(c, request[q].key)
          /\ request' = [request EXCEPT ![q].step = "touch",
                ![q].principal = [client |-> c, tenant |-> client[c].tenant, role |-> client[c].role]]
    /\ UNCHANGED <<client, lastUsed, command>>

\* Variant: the answer 401 is written without returning.
UnauthorizedGoesOn(q) ==
    /\ Standing(q, "authenticate")
    /\ request' = [request EXCEPT ![q].step = "limit"]
    /\ UNCHANGED <<client, lastUsed, command>>

\* No active client, or the query fails: 401.
Unauthorized(q) ==
    /\ Standing(q, "authenticate")
    /\ request' = [request EXCEPT ![q].step = "refused"]
    /\ UNCHANGED <<client, lastUsed, command>>

\* last_used_at is written by a statement of its own, whose error is ignored.
TouchLastUsed(q) ==
    /\ Standing(q, "touch")
    /\ \/ lastUsed' = lastUsed \cup {request[q].principal.client}
       \/ UNCHANGED lastUsed
    /\ request' = [request EXCEPT ![q].step = "limit"]
    /\ UNCHANGED <<client, command>>

\* The token bucket of the client lets the request pass, or answers 429, or
\* Redis fails and it answers 503.
Limit(q) ==
    /\ Standing(q, "limit")
    /\ \E step \in {"require", "refused"} : request' = [request EXCEPT ![q].step = step]
    /\ UNCHANGED <<client, lastUsed, command>>

\* 403 or the handler.
Require(q) ==
    /\ Standing(q, "require")
    /\ request' = [request EXCEPT ![q].step =
          IF Allows(request[q].principal.role, RequiredRole[request[q].route])
          THEN "handled" ELSE "refused"]
    /\ UNCHANGED <<client, lastUsed, command>>

------------------------------------------------------------------------------
AccessNext ==
    \/ \E m \in Commands :
          \/ StartCreate(m) \/ Insert(m) \/ Conflict(m) \/ Lookup(m)
          \/ StartRevoke(m) \/ RevokeClient(m) \/ CommandFails(m)
    \/ \E q \in Requests :
          \/ Receive(q) \/ Authenticate(q) \/ Unauthorized(q)
          \/ TouchLastUsed(q) \/ Limit(q) \/ Require(q)

AccessSpec == AccessInit /\ [][AccessNext]_accessVars

------------------------------------------------------------------------------
\* Properties.

Handled(q) == Standing(q, "handled")

\* "RevokeClient permanently disables an API client" (auth.go): no request that
\* comes in after a revocation was reported reaches a handler as that client,
\* whatever commands run before or beside it.
RevocationHolds ==
    \A q \in Requests : Handled(q) => request[q].principal.client \notin request[q].barred

\* A request is handled for the client of its own key, in that client's tenant,
\* with a role that includes the one the route requires.
HandledAsClient ==
    \A q \in Requests : Handled(q) =>
        LET p == request[q].principal IN
        /\ HasKey(p.client, request[q].key)
        /\ p.tenant = client[p.client].tenant
        /\ Rank[client[p.client].role] >= Rank[RequiredRole[request[q].route]]

\* Bootstrapping with a supplied key can be repeated, also after a lost answer
\* or by two commands at once: all are answered with the same client, and the
\* key belongs to it.
BootstrapAgrees ==
    \A m \in Commands : At(m, "created") => HasKey(command[m].client, command[m].key)

Dead(k) == \E c \in Clients : HasKey(c, k) /\ client[c].revoked

\* The key of a revoked client is never valid again: not for that client and
\* not for another one created with the same key.
KeysStayDead ==
    [][\A k \in Keys : Dead(k) =>
          \A c \in Clients : HasKey(c, k)' => client'[c].revoked]_accessVars

\* The table and the local variables have the types the code gives them.
AccessTypeOK ==
    /\ client \in [Clients -> Row \cup {NULL}]
    /\ lastUsed \subseteq Clients
    /\ request \in [Requests -> Request \cup {NULL}]
    /\ command \in [Commands -> Command \cup {NULL}]
    /\ \A q \in Requests :
          request[q] # NULL /\ request[q].step \notin {"authenticate", "refused"}
             => request[q].principal # NULL

\* What the unique index on key_hash keeps.
KeysAreUnique ==
    \A c, d \in Clients : client[c] # NULL /\ client[d] # NULL /\ client[c].key = client[d].key => c = d

Revoked(c) == client[c] # NULL /\ client[c].revoked

\* What a command knows holds of the table: an insert or lookup has the columns
\* of a row, a client it names is there, and one it reports as revoked is so.
CommandInStep(m) ==
    LET x == command[m] IN
    x # NULL =>
        /\ x.step \in {"insert", "lookup"} => x.key \in Keys /\ x.tenant \in Tenants /\ x.role \in Roles
        /\ x.step \in {"created", "revoke", "revoked"} => x.client \in Clients
        /\ x.step = "created" => HasKey(x.client, x.key)
        /\ x.step = "revoked" => Revoked(x.client)

\* What a request knows: who was barred is still revoked, and its principal is
\* a client with its key who was not barred, and still has that tenant and role.
RequestInStep(q) ==
    LET x == request[q]
        p == x.principal
    IN  x # NULL =>
        /\ \A c \in x.barred : Revoked(c)
        /\ x.step \notin {"authenticate", "refused"} =>
              /\ p \in Principal /\ p.client \notin x.barred /\ HasKey(p.client, x.key)
              /\ p.tenant = client[p.client].tenant /\ p.role = client[p.client].role
        /\ x.step = "handled" => Allows(p.role, RequiredRole[x.route])

\* The inductive invariant of keys and requests.
AccessInv ==
    /\ AccessTypeOK /\ KeysAreUnique
    /\ \A m \in Commands : CommandInStep(m)
    /\ \A q \in Requests : RequestInStep(q)
==============================================================================
