----------------------------- MODULE Controller -----------------------------
(***************************************************************************)
(* The controller as a process: start-up (migrations, bootstrap token,     *)
(* listening socket) across kills and restarts, and the way every API      *)
(* request takes through authn: rate limit, token, role, handler           *)
(* (cmd/controller, store/migrate.go, auth/auth.go, api/server.go).        *)
(*                                                                         *)
(* Two processes may start on one data directory; they meet at the         *)
(* database, the token file and the port.  A secret is a number; the hash  *)
(* of a secret is the secret.  What a handler does to the inventory is     *)
(* left to module Inventory: here it mints, revokes, reads or writes.      *)
(***************************************************************************)
EXTENDS RateLimiter, FiniteSets

CONSTANTS
    Processes,    \* controller processes on one data directory
    Scripts,      \* migration versions 1..Scripts
    Names,        \* token names, Bootstrap among them
    Bootstrap,    \* "bootstrap-operator"
    Handlers,     \* API requests that may be under way at a time
    MaxSecrets,   \* bound: random tokens in use at a time
    MaxFaults,    \* bound: kills, and losses of the token file
    NoToken, NoFile

\* With this many secrets a fresh one can always be found.
ASSUME ControllerAssumption ==
    /\ Bootstrap \in Names /\ Scripts \in Nat /\ MaxFaults \in Nat
    /\ IsFiniteSet(Names) /\ IsFiniteSet(Processes)
    /\ MaxSecrets \in Nat /\ MaxSecrets > Cardinality(Names) + Cardinality(Processes)

VARIABLES
    schema,     \* scripts whose effect the database shows
    recorded,   \* table schema_migrations
    tokens,     \* table tokens
    file,       \* the token file: NoFile, 0 (empty) or a secret
    proc,       \* per process: where it is in run(), and what it has read
    req,        \* requests under way
    faults,
    \* History:
    everRevoked,  \* secrets of tokens that were revoked
    lost,         \* the token file was lost, by no doing of the controller
    outdated      \* the token file was written on an outdated read

database == <<schema, recorded, tokens>>
controllerHistory == <<everRevoked, lost, outdated>>
vars == <<limiterVars, database, file, proc, req, faults, controllerHistory>>

TokenRoles == {"operator", "readonly", "agent"}

Token == [secret: 1..MaxSecrets, role: TokenRoles, revoked: BOOLEAN]

ASSUME NoneAssumption == NoToken \notin Token /\ NoFile \notin 0..MaxSecrets

Process == [at: {"down", "migrate", "name", "stat", "read", "write", "insert", "listen", "serving"},
            applied: SUBSET (1..Scripts), plain: 0..MaxSecrets]

Down == [at |-> "down", applied |-> {}, plain |-> 0]

\* "account" stands for PATCH users/{id} and the routes of a user's TOTP and
\* recovery codes.
Ops == {"read", "account", "write", "mint", "revoke"}

\* Routes registered with mutate = true: those of "account" are not.
Mutating(op) == op \notin {"read", "account"}

Request == [op: Ops, at: {"limit", "auth", "handle"}, client: Clients, now: Nat,
            secret: 0..MaxSecrets, role: TokenRoles \cup {"none"}]

Free == [op |-> "none", at |-> "done"]

TypeOK ==
    /\ LimiterTypeOK
    /\ schema \subseteq 1..Scripts /\ recorded \subseteq 1..Scripts
    /\ tokens \in [Names -> Token \cup {NoToken}]
    /\ file \in {NoFile} \cup 0..MaxSecrets
    /\ proc \in [Processes -> Process]
    /\ req \in [Handlers -> Request \cup {Free}]
    /\ faults \in 0..MaxFaults
    /\ everRevoked \subseteq 1..MaxSecrets
    /\ lost \in BOOLEAN /\ outdated \in BOOLEAN

Init ==
    /\ LimiterInit
    /\ schema = {} /\ recorded = {}
    /\ tokens = [n \in Names |-> NoToken]
    /\ file = NoFile
    /\ proc = [p \in Processes |-> Down]
    /\ req = [h \in Handlers |-> Free]
    /\ faults = 0
    /\ everRevoked = {} /\ lost = FALSE /\ outdated = FALSE

-----------------------------------------------------------------------------
(* Secrets *)

\* Secrets someone may hold: of tokens, revoked ones too, and in the file.
Held == {tokens[n].secret : n \in {m \in Names : tokens[m] # NoToken}}
            \cup everRevoked \cup ({file} \ {NoFile, 0})

\* rand.Read never returns a secret that is in use.
Fresh == CHOOSE k \in 1..MaxSecrets : k \notin Held \cup {proc[p].plain : p \in Processes}

-----------------------------------------------------------------------------
(* run(): start-up *)

Step(p, at) == proc' = [proc EXCEPT ![p].at = at]

\* An error ends the process; the supervisor starts it again.
Exit(p) == proc' = [proc EXCEPT ![p] = Down]

\* OpenSQLite, migrate: the versions on record are read once.
Start(p) ==
    /\ proc[p].at = "down"
    /\ proc' = [proc EXCEPT ![p].at = "migrate", ![p].applied = recorded]
    /\ UNCHANGED <<limiterVars, database, file, req, faults, controllerHistory>>

\* Scripts run in ascending order.
Due(p) == {v \in 1..Scripts : v \notin proc[p].applied
                              /\ \A w \in 1..(v - 1) : w \in proc[p].applied}

\* Mutant: the script is committed before its version is recorded.
MigrateUnrecorded(p) ==
    /\ proc[p].at = "migrate"
    /\ \E v \in Due(p) :
         IF v \in schema
         THEN Exit(p) /\ UNCHANGED <<schema, recorded>>
         ELSE /\ schema' = schema \cup {v}
              /\ recorded' = recorded
              /\ proc' = [proc EXCEPT ![p].applied = @ \cup {v}]
    /\ UNCHANGED <<limiterVars, tokens, file, req, faults, controllerHistory>>

\* migrate: one transaction executes the script and records its version.  None
\* of the scripts can run twice, so it fails where another process was faster.
Migrate(p) ==
    /\ proc[p].at = "migrate"
    /\ \E v \in Due(p) :
         IF v \in schema
         THEN Exit(p) /\ UNCHANGED <<schema, recorded>>
         ELSE /\ schema' = schema \cup {v}
              /\ recorded' = recorded \cup {v}
              /\ proc' = [proc EXCEPT ![p].applied = @ \cup {v}]
    /\ UNCHANGED <<limiterVars, tokens, file, req, faults, controllerHistory>>

\* Mutant: a failed script is skipped.
MigratedAnyway(p) ==
    /\ proc[p].at = "migrate"
    /\ Step(p, "name")
    /\ UNCHANGED <<limiterVars, database, file, req, faults, controllerHistory>>

Migrated(p) ==
    /\ proc[p].at = "migrate" /\ Due(p) = {}
    /\ Step(p, "name")
    /\ UNCHANGED <<limiterVars, database, file, req, faults, controllerHistory>>

\* EnsureBootstrapToken: HasTokenName.
HasTokenName(p) ==
    /\ proc[p].at = "name"
    /\ Step(p, IF tokens[Bootstrap] = NoToken THEN "read" ELSE "stat")
    /\ UNCHANGED <<limiterVars, database, file, req, faults, controllerHistory>>

\* The token exists: without its file the process refuses to go on.
StatFile(p) ==
    /\ proc[p].at = "stat"
    /\ IF file = NoFile THEN Exit(p) ELSE Step(p, "listen")
    /\ UNCHANGED <<limiterVars, database, file, req, faults, controllerHistory>>

\* Mutant: a file left by an earlier attempt is kept, its secret is not.
ReadFileFresh(p) ==
    /\ proc[p].at = "read"
    /\ proc' = IF file \notin {NoFile, 0}
               THEN [proc EXCEPT ![p].at = "insert", ![p].plain = Fresh]
               ELSE [proc EXCEPT ![p].at = "write", ![p].plain = Fresh]
    /\ UNCHANGED <<limiterVars, database, file, req, faults, controllerHistory>>

\* No token yet: a secret left in the file by an earlier attempt is used again.
ReadFile(p) ==
    /\ proc[p].at = "read"
    /\ proc' = IF file \notin {NoFile, 0}
               THEN [proc EXCEPT ![p].at = "insert", ![p].plain = file]
               ELSE [proc EXCEPT ![p].at = "write", ![p].plain = Fresh]
    /\ UNCHANGED <<limiterVars, database, file, req, faults, controllerHistory>>

\* WriteFile; a kill in the middle of it is part of Kill.
WriteFile(p) ==
    /\ proc[p].at = "write"
    /\ file' = proc[p].plain
    /\ outdated' = (outdated \/ file \notin {NoFile, 0} \/ tokens[Bootstrap] # NoToken)
    /\ Step(p, "insert")
    /\ UNCHANGED <<limiterVars, database, req, faults, everRevoked, lost>>

\* CreateToken of the bootstrap token; names are unique.
InsertBootstrap(p) ==
    /\ proc[p].at = "insert"
    /\ IF tokens[Bootstrap] # NoToken
       THEN Exit(p) /\ UNCHANGED tokens
       ELSE /\ tokens' = [tokens EXCEPT ![Bootstrap] =
                    [secret |-> proc[p].plain, role |-> "operator", revoked |-> FALSE]]
            /\ proc' = [proc EXCEPT ![p].at = "listen", ![p].plain = 0]
    /\ UNCHANGED <<limiterVars, schema, recorded, file, req, faults, controllerHistory>>

Serving == \E p \in Processes : proc[p].at = "serving"

\* ListenAndServe: the port is taken or free.
Listen(p) ==
    /\ proc[p].at = "listen"
    /\ IF Serving THEN Exit(p) ELSE Step(p, "serving")
    /\ UNCHANGED <<limiterVars, database, file, req, faults, controllerHistory>>

-----------------------------------------------------------------------------
(* Faults *)

\* A process is killed or stopped, with the requests it serves and its limiter.
\* WriteFile truncates before it writes.
Kill(p) ==
    /\ faults < MaxFaults /\ proc[p].at # "down"
    /\ faults' = faults + 1
    /\ Exit(p)
    /\ file' \in IF proc[p].at = "write" THEN {file, 0} ELSE {file}
    /\ outdated' = (outdated \/ (file' # file /\ file \notin {NoFile, 0}))
    /\ IF proc[p].at = "serving"
       THEN /\ req' = [h \in Handlers |-> Free]
            /\ buckets' = [c \in Clients |-> NoBucket]
            /\ admitted' = [c \in Clients |-> 0]
            /\ opened' = [c \in Clients |-> 0]
            /\ UNCHANGED clock
       ELSE UNCHANGED <<limiterVars, req>>
    /\ UNCHANGED <<database, everRevoked, lost>>

\* Someone removes the token file, or restores the original.
LoseFile ==
    /\ faults < MaxFaults /\ file # NoFile
    /\ faults' = faults + 1
    /\ file' = NoFile /\ lost' = TRUE
    /\ UNCHANGED <<limiterVars, database, proc, req, everRevoked, outdated>>

RestoreFile ==
    /\ file = NoFile /\ tokens[Bootstrap] # NoToken
    /\ file' = tokens[Bootstrap].secret
    /\ UNCHANGED <<limiterVars, database, proc, req, faults, controllerHistory>>

-----------------------------------------------------------------------------
(* authn and the handlers behind it *)

CanMutate(role) == role \in {"administrator", "operator", "agent"}
CanManageTokens(role) == role \in {"administrator", "operator"}

Reply(h) == req' = [req EXCEPT ![h] = Free]

\* A request arrives with a token someone holds; a Web UI session opened with a
\* token sends it with every call (loginWithToken).  allow reads the clock.
Arrive(h, c, k, op) ==
    /\ Serving /\ req[h] = Free
    /\ req' = [req EXCEPT ![h] = [op |-> op, at |-> IF Mutating(op) THEN "limit" ELSE "auth",
                                  client |-> c, now |-> IF Mutating(op) THEN clock ELSE 0,
                                  secret |-> k, role |-> "none"]]
    /\ UNCHANGED <<limiterVars, database, file, proc, faults, controllerHistory>>

\* Requests to mutating routes pass the limiter first.
Limit(h) ==
    /\ req[h].at = "limit"
    /\ \/ Allow(req[h].client, req[h].now) /\ req' = [req EXCEPT ![h].at = "auth", ![h].now = 0]
       \/ Refuse(req[h].client, req[h].now) /\ Reply(h)
    /\ UNCHANGED <<database, file, proc, faults, controllerHistory>>

\* matchToken: a row that is not revoked.
Matches(k) == {n \in Names : tokens[n] # NoToken /\ tokens[n].secret = k /\ ~tokens[n].revoked}

\* Authenticate, then the role check of authn (CanRead of every role).
Authenticate(h) ==
    /\ req[h].at = "auth"
    /\ IF \E n \in Matches(req[h].secret) : Mutating(req[h].op) => CanMutate(tokens[n].role)
       THEN \E n \in Matches(req[h].secret) :
              req' = [req EXCEPT ![h].at = "handle", ![h].secret = 0, ![h].role = tokens[n].role]
       ELSE Reply(h)
    /\ UNCHANGED <<limiterVars, database, file, proc, faults, controllerHistory>>

\* getX, createX, ...: what they do is module Inventory's; patchUser, beginTOTP, ...
\* refuse every caller with a token (loadUserForCaller), and for one from the Web
\* UI they are module Accounts'.
HandleOther(h) ==
    /\ req[h].at = "handle" /\ req[h].op \in {"read", "write", "account"}
    /\ Reply(h)
    /\ UNCHANGED <<limiterVars, database, file, proc, faults, everRevoked, lost, outdated>>

\* Mutant: the role is parsed like a person's.
CreateTokenAnyRole(h, n, role) ==
    /\ req[h].at = "handle" /\ req[h].op = "mint"
    /\ CanManageTokens(req[h].role) /\ tokens[n] = NoToken
    /\ tokens' = [tokens EXCEPT ![n] =
           [secret |-> Fresh, role |-> "administrator", revoked |-> FALSE]]
    /\ Reply(h)
    /\ UNCHANGED <<limiterVars, schema, recorded, file, proc, faults, everRevoked, lost, outdated>>

\* createToken; ParseRole knows no administrator token.
CreateToken(h, n, role) ==
    /\ req[h].at = "handle" /\ req[h].op = "mint"
    /\ CanManageTokens(req[h].role) /\ tokens[n] = NoToken
    /\ tokens' = [tokens EXCEPT ![n] = [secret |-> Fresh, role |-> role, revoked |-> FALSE]]
    /\ Reply(h)
    /\ UNCHANGED <<limiterVars, schema, recorded, file, proc, faults, everRevoked, lost, outdated>>

\* Mutant: the row is deleted.
Revoked(token) == NoToken

\* RevokeToken keeps the row and its name.
Revocation(token) == [token EXCEPT !.revoked = TRUE]

RevokeToken(h, n) ==
    /\ req[h].at = "handle" /\ req[h].op = "revoke"
    /\ CanManageTokens(req[h].role) /\ tokens[n] # NoToken
    /\ everRevoked' = everRevoked \cup {tokens[n].secret}
    /\ tokens' = [tokens EXCEPT ![n] = Revocation(@)]
    /\ Reply(h)
    /\ UNCHANGED <<limiterVars, schema, recorded, file, proc, faults, lost, outdated>>

\* 403, a name that is taken or unknown, or a client that hangs up.
Refused(h) ==
    /\ req[h] # Free
    /\ Reply(h)
    /\ UNCHANGED <<limiterVars, database, file, proc, faults, controllerHistory>>

PassTime ==
    /\ Tick
    /\ UNCHANGED <<database, file, proc, req, faults, controllerHistory>>

StartUp(p) ==
    \/ Start(p) \/ Migrate(p) \/ Migrated(p) \/ HasTokenName(p) \/ StatFile(p)
    \/ ReadFile(p) \/ WriteFile(p) \/ InsertBootstrap(p) \/ Listen(p)

Next ==
    \/ \E p \in Processes : StartUp(p) \/ Kill(p)
    \/ LoseFile \/ RestoreFile \/ PassTime
    \/ \E h \in Handlers :
         \/ \E c \in Clients, k \in Held, op \in Ops : Arrive(h, c, k, op)
         \/ Limit(h) \/ Authenticate(h) \/ HandleOther(h) \/ Refused(h)
         \/ \E n \in Names :
              \/ RevokeToken(h, n)
              \/ \E role \in TokenRoles : CreateToken(h, n, role)

\* A process takes its next step, and the supervisor restarts it.
Spec == Init /\ [][Next]_vars /\ \A p \in Processes : WF_vars(StartUp(p))

-----------------------------------------------------------------------------
(* Properties *)

\* A controller serves only on the complete schema, and the record agrees with
\* it, whatever a kill or a second process did to earlier starts (migrate).
ServesFullSchema == /\ recorded = schema
                    /\ Serving => schema = 1..Scripts

\* The file the operator was told to read holds the bootstrap token's secret,
\* however often the first start was killed between writing the file and
\* inserting the row, unless two first starts overlapped or someone removed it
\* (EnsureBootstrapToken).
FileOpensTheDoor ==
    tokens[Bootstrap] # NoToken /\ ~lost /\ ~outdated => file = tokens[Bootstrap].secret

\* A revoked secret is never valid again, not even when the controller restarts
\* and finds it in the bootstrap file (RevokeToken keeps the row and the name).
RevokedNeverReturns == \A k \in everRevoked : Matches(k) = {}

\* After the faults have ceased a controller serves for good, unless the
\* bootstrap token's file is missing, when it must refuse to start: no kill
\* leaves a database or a file it cannot start from.
EventuallyServes ==
    <>[](Serving \/ (file = NoFile /\ tokens[Bootstrap] # NoToken))
=============================================================================
