------------------------------ MODULE Accounts ------------------------------
(***************************************************************************)
(* Human accounts of the Web UI: the users table and the recovery codes in *)
(* SQLite, the sessions in the controller's memory, and the requests that  *)
(* read and write them (auth/accounts.go, store/users.go, webui).          *)
(*                                                                         *)
(* One SQL statement is one action, because the store has one connection.  *)
(* A request is several of them and holds what it read in between: no      *)
(* transaction and no version check spans a GetUser and the UpdateUser     *)
(* that writes the whole row back.  Names, locales, password hashes and    *)
(* times are left out; a TOTP secret and a set of recovery codes are       *)
(* numbers, 0 for none.                                                    *)
(***************************************************************************)
EXTENDS Naturals, FiniteSets

CONSTANTS
    Users,        \* account ids
    Handlers,     \* requests that may be under way at a time
    Sessions,     \* session ids
    Roles,        \* human roles, "administrator" among them
    MaxSecrets,   \* bound: TOTP secrets handed out
    MaxCodes,     \* bound: sets of recovery codes handed out
    MaxRestarts,  \* bound: restarts of the controller
    MaxRequests,  \* bound: requests begun
    NoRow, NoSession

Admin == "administrator"

ASSUME RolesAssumption == Admin \in Roles
ASSUME AccountBounds == MaxSecrets \in Nat \ {0} /\ MaxCodes \in Nat \ {0}
                           /\ MaxRestarts \in Nat /\ MaxRequests \in Nat
ASSUME UsersAssumption == IsFiniteSet(Users)

VARIABLES
    users,     \* table users: a row or NoRow
    codes,     \* table user_recovery_codes, one code per user stands for all
    sessions,  \* sessionStore.byID
    req,       \* what each request is doing and what it has read
    secrets,   \* TOTP secrets handed out so far
    issued,    \* sets of recovery codes handed out so far
    restarts, begun,
    \* History, for the properties only:
    verified,  \* secrets a user has shown a code of while enrolling
    spent,     \* recovery codes that have let someone in
    outdated,  \* a write was decided on a read that no longer held
    torn       \* a request died between its two writes

tables == <<users, codes>>
history == <<verified, spent>>
flags == <<outdated, torn>>
counters == <<secrets, issued, restarts>>
vars == <<tables, sessions, req, begun, counters, history, flags>>

Row == [role: Roles, disabled: BOOLEAN, secret: 0..MaxSecrets,
        pending: 0..MaxSecrets, confirmed: BOOLEAN]

\* "factor": a code was accepted for the session; "off": TOTP was off at some
\* moment since its password check.  Both are history.
Session == [user: Users, role: Roles, pending: BOOLEAN, factor: BOOLEAN, off: BOOLEAN]

ASSUME NoneAssumption == NoRow \notin Row /\ NoSession \notin Session

\* "secret" is history: the secret in force when the codes were stored.
Codes == [id: 0..MaxCodes, used: BOOLEAN, secret: 0..MaxSecrets]

\* A request: the operation, its next statement, and what it holds.  "used" is
\* history: its recovery code had let someone in before this request listed it.
Request == [op: {"setup", "login", "touch", "mfa", "patch", "begin", "confirm",
                 "disable", "rotate"},
            at: {"count", "create", "session", "get", "put", "codes", "list", "mark", "clear"},
            user: Users \cup {NoRow}, sess: Sessions \cup {NoSession},
            base: Row \cup {NoRow}, row: Row \cup {NoRow},
            n: Nat, code: 0..MaxCodes, used: BOOLEAN, off: BOOLEAN]

Idle == [op |-> "idle", at |-> "done", user |-> NoRow, sess |-> NoSession,
         base |-> NoRow, row |-> NoRow, n |-> 0, code |-> 0, used |-> FALSE, off |-> FALSE]

Existing == {u \in Users : users[u] # NoRow}

\* scanUserInto: TOTPEnabled needs the flag and a secret.
TOTPEnabled(row) == row.confirmed /\ row.secret # 0

\* The secret a login of u is asked for, 0 when TOTP is off.
InForce(u) == IF TOTPEnabled(users[u]) THEN users[u].secret ELSE 0

EnabledAdministrators ==
    {u \in Existing : users[u].role = Admin /\ ~users[u].disabled}

\* Mutant: disabled administrators are counted too.
CountEveryAdministrator == Cardinality({u \in Existing : users[u].role = Admin})

CountAdministrators == Cardinality(EnabledAdministrators)

TypeOK ==
    /\ users \in [Users -> Row \cup {NoRow}]
    /\ codes \in [Users -> Codes]
    /\ sessions \in [Sessions -> Session \cup {NoSession}]
    /\ req \in [Handlers -> Request \cup {Idle}]
    /\ secrets \in 0..MaxSecrets /\ issued \in 0..MaxCodes
    /\ restarts \in 0..MaxRestarts /\ begun \in 0..MaxRequests
    /\ verified \subseteq 1..MaxSecrets
    /\ spent \subseteq 1..MaxCodes
    /\ outdated \in BOOLEAN /\ torn \in BOOLEAN

NoCodes == [id |-> 0, used |-> FALSE, secret |-> 0]

NewRow(role) ==
    [role |-> role, disabled |-> FALSE, secret |-> 0, pending |-> 0, confirmed |-> FALSE]

\* A fresh installation.
Fresh ==
    /\ users = [u \in Users |-> NoRow]
    /\ codes = [u \in Users |-> NoCodes]
    /\ secrets = 0 /\ issued = 0 /\ verified = {}

\* An installation in use, restarted: administrators, one of them with TOTP.
Established ==
    \E e \in Users :
        /\ users = [u \in Users |-> IF u = e
                       THEN [NewRow(Admin) EXCEPT !.secret = 1, !.confirmed = TRUE]
                       ELSE NewRow(Admin)]
        /\ codes = [u \in Users |-> IF u = e THEN [id |-> 1, used |-> FALSE, secret |-> 1]
                                            ELSE NoCodes]
        /\ secrets = 1 /\ issued = 1 /\ verified = {1}

Init ==
    /\ Fresh \/ Established
    /\ sessions = [s \in Sessions |-> NoSession]
    /\ req = [h \in Handlers |-> Idle]
    /\ restarts = 0 /\ begun = 0
    /\ spent = {}
    /\ outdated = FALSE /\ torn = FALSE

-----------------------------------------------------------------------------
(* Requests *)

\* The session may use the pages behind requireSession.
Usable(s) == sessions[s] # NoSession /\ ~sessions[s].pending

\* requireAdmin, CanManageUsers
AsAdmin(s) == Usable(s) /\ sessions[s].role = Admin

\* The settings pages take the session's own account.
OwnAccount(s, u) == Usable(s) /\ sessions[s].user = u

\* loadUserForCaller, or a settings page
MayAccess(s, u) == u \in Existing /\ (AsAdmin(s) \/ OwnAccount(s, u))

\* A free handler starts on request r.
Begin(h, r) ==
    /\ req[h] = Idle /\ begun < MaxRequests
    /\ req' = [req EXCEPT ![h] = r]
    /\ begun' = begun + 1

\* The request starts with GetUser: h has read u's row, would write "row", and
\* goes on at step "at".
Read(h, op, at, u, row) ==
    Begin(h, [Idle EXCEPT !.op = op, !.at = at, !.user = u, !.base = users[u], !.row = row])

Continue(h, r) == req' = [req EXCEPT ![h] = r] /\ UNCHANGED begun

Goto(h, at) == Continue(h, [req[h] EXCEPT !.at = at])

Finish(h) == Continue(h, Idle)

\* The statement h is about to execute rests on a row another request has
\* changed since h read it.
RowChanged(h) == users[req[h].user] # req[h].base

\* TOTP of u is found off: noted by the logins of u under way and its sessions.
NoteOff(u, reqs) ==
    /\ req' = [h \in Handlers |-> IF reqs[h].op = "login" /\ reqs[h].user = u
                                  THEN [reqs[h] EXCEPT !.off = TRUE] ELSE reqs[h]]
    /\ sessions' = [s \in Sessions |-> IF sessions[s] # NoSession /\ sessions[s].user = u
                                       THEN [sessions[s] EXCEPT !.off = TRUE] ELSE sessions[s]]

-----------------------------------------------------------------------------
(* Setup of the first administrator, and further accounts *)

\* postSetup: needsSetup.
SetupCheck(h) ==
    /\ Existing = {}
    /\ Begin(h, [Idle EXCEPT !.op = "setup", !.at = "count"])
    /\ UNCHANGED <<tables, sessions, counters, history, flags>>

\* SetupFirstAdministrator: CountUsers.
SetupCount(h) ==
    /\ req[h].op = "setup" /\ req[h].at = "count"
    /\ IF Existing # {} THEN Finish(h)
       ELSE Goto(h, "create")
    /\ UNCHANGED <<tables, sessions, counters, history, flags>>

\* Create: the INSERT, with a user name nobody has.
SetupCreate(h) ==
    /\ req[h].op = "setup" /\ req[h].at = "create"
    /\ \E u \in Users \ Existing :
         /\ users' = [users EXCEPT ![u] = NewRow(Admin)]
         /\ Continue(h, [req[h] EXCEPT !.at = "session", !.user = u, !.row = NewRow(Admin)])
    /\ UNCHANGED <<codes, sessions, counters, history, flags>>

\* Mutant: the role is stored without ParseHumanRole.
CreateUserUnparsed(s, u, role) ==
    /\ AsAdmin(s) /\ u \notin Existing
    /\ users' = [users EXCEPT ![u] = NewRow("agent")]
    /\ UNCHANGED <<codes, sessions, req, begun, counters, history, flags>>

\* userCreate: an administrator adds an account.
CreateUser(s, u, role) ==
    /\ AsAdmin(s) /\ u \notin Existing
    /\ users' = [users EXCEPT ![u] = NewRow(role)]
    /\ UNCHANGED <<codes, sessions, req, begun, counters, history, flags>>

-----------------------------------------------------------------------------
(* Login *)

\* AuthenticatePassword with the right password.
LoginRead(h, u) ==
    /\ u \in Existing /\ ~users[u].disabled
    /\ Read(h, "login", "session", u, users[u])
    /\ UNCHANGED <<tables, sessions, counters, history, flags>>

\* Mutant: a session counts as complete at once.
SessionFor(h) ==
    [user |-> req[h].user, role |-> req[h].row.role, pending |-> FALSE,
     factor |-> FALSE, off |-> req[h].off \/ ~TOTPEnabled(req[h].row)]

\* The session postLogin and postSetup put: role and MFAPending as read.
NewSession(h) ==
    [user |-> req[h].user, role |-> req[h].row.role,
     pending |-> TOTPEnabled(req[h].row),
     factor |-> FALSE, off |-> req[h].off \/ ~TOTPEnabled(req[h].row)]

TouchLogin(u) == [Idle EXCEPT !.op = "touch", !.at = "get", !.user = u]

\* No session has the id and no request under way still holds it: put draws a
\* random id, so that of an ended session never comes back.
FreshId(s) == sessions[s] = NoSession /\ \A h \in Handlers : req[h].sess # s

\* sessions.put, then TouchLogin unless a second factor is due or this is setup.
PutSession(h, s) ==
    /\ req[h].at = "session" /\ FreshId(s)
    /\ sessions' = [sessions EXCEPT ![s] = NewSession(h)]
    /\ IF TOTPEnabled(req[h].row) \/ req[h].op = "setup" THEN Finish(h)
       ELSE Continue(h, TouchLogin(req[h].user))
    /\ UNCHANGED <<tables, counters, history, flags>>

\* TouchLogin, SetLocale: GetUser.  Only fields the model leaves out change.
TouchGet(h) ==
    /\ req[h].op = "touch" /\ req[h].at = "get"
    /\ Continue(h, [req[h] EXCEPT !.at = "put", !.base = users[req[h].user],
                                  !.row = users[req[h].user]])
    /\ UNCHANGED <<tables, sessions, counters, history, flags>>

\* postLocale and settingsPassword: the same, for the session's own account, as
\* is all a caller who is no administrator can change by PATCH users/{id}.
TouchRead(h, s) ==
    /\ Usable(s)
    /\ Read(h, "touch", "put", sessions[s].user, users[sessions[s].user])
    /\ UNCHANGED <<tables, sessions, counters, history, flags>>

\* postMFA: Get, and ConsumeMFA up to its next statement.  The form holds a
\* TOTP code of the secret as read (or TOTP is off by now), or a recovery code.
MFARead(h, s) ==
    LET u == sessions[s].user
        Ask(at, code) == Begin(h, [Idle EXCEPT !.op = "mfa", !.at = at, !.user = u, !.sess = s,
                                               !.base = users[u], !.code = code])
    IN
    /\ sessions[s] # NoSession /\ sessions[s].pending
    /\ \/ Ask("clear", 0)
       \/ TOTPEnabled(users[u]) /\ \E code \in 1..issued : Ask("list", code)
    /\ UNCHANGED <<tables, sessions, counters, history, flags>>

\* The code is accepted; the request notes whether it has let someone in already.
Accept(h) == Continue(h, [req[h] EXCEPT !.at = "mark", !.used = req[h].code \in spent])

\* Mutant: a code that was used before is not skipped.
ListUsedCodesToo(h) ==
    /\ req[h].at = "list"
    /\ IF codes[req[h].user].id = req[h].code THEN Accept(h) ELSE Finish(h)
    /\ UNCHANGED <<tables, sessions, counters, history, flags>>

\* ConsumeMFA: ListRecoveryCodeHashes and the comparison with the unused ones.
ListCodes(h) ==
    /\ req[h].at = "list"
    /\ IF codes[req[h].user].id = req[h].code /\ ~codes[req[h].user].used
       THEN Accept(h) ELSE Finish(h)
    /\ UNCHANGED <<tables, sessions, counters, history, flags>>

\* MarkRecoveryCodeUsed: by row id, whether or not it is used or still there.
MarkCode(h) ==
    LET u == req[h].user  c == req[h].code IN
    /\ req[h].at = "mark"
    /\ codes' = IF codes[u].id = c THEN [codes EXCEPT ![u].used = TRUE] ELSE codes
    /\ spent' = spent \cup {c}
    /\ Goto(h, "clear")
    /\ UNCHANGED <<users, sessions, counters, verified, flags>>

\* clearMFA, if the session is still there, and on to TouchLogin.
ClearMFA(h) ==
    LET s == req[h].sess IN
    /\ req[h].op = "mfa" /\ req[h].at = "clear"
    /\ sessions' = IF sessions[s] = NoSession THEN sessions
                   ELSE [sessions EXCEPT ![s].pending = FALSE,
                                         ![s].factor = TOTPEnabled(req[h].base)]
    /\ Continue(h, TouchLogin(req[h].user))
    /\ UNCHANGED <<tables, counters, history, flags>>

\* postLogout; sessions.get past the 12 hours.
EndSession(s) ==
    /\ sessions[s] # NoSession
    /\ sessions' = [sessions EXCEPT ![s] = NoSession]
    /\ UNCHANGED <<tables, req, begun, counters, history, flags>>

-----------------------------------------------------------------------------
(* Changes of an account *)

\* model.UserPatch, without the fields left out.  The form of userUpdate sends
\* both fields, PATCH users/{id} may omit either.
UserPatch == [role: Roles \cup {"omitted"}, disabled: {"yes", "no", "omitted"}]

Patched(row, p) ==
    [row EXCEPT !.role = IF p.role = "omitted" THEN @ ELSE p.role,
                !.disabled = IF p.disabled = "omitted" THEN @ ELSE p.disabled = "yes"]

\* Does Patch count the administrators before it takes this one out of service?
NeedsCount(row, p) ==
    \/ row.role = Admin /\ Patched(row, p).role # Admin
    \/ Patched(row, p).role = Admin /\ p.disabled = "yes"

\* Patch's GetUser, for an administrator.
PatchGet(h, s, u, p) ==
    /\ AsAdmin(s) /\ u \in Existing
    /\ Read(h, "patch", IF NeedsCount(users[u], p) THEN "count" ELSE "put", u,
            Patched(users[u], p))
    /\ UNCHANGED <<tables, sessions, counters, history, flags>>

\* CountAdministrators: the last one is neither demoted nor disabled.
PatchCount(h) ==
    /\ req[h].op = "patch" /\ req[h].at = "count"
    /\ IF CountAdministrators <= 1 THEN Finish(h)
       ELSE Continue(h, [req[h] EXCEPT !.at = "put", !.n = CountAdministrators])
    /\ UNCHANGED <<tables, sessions, counters, history, flags>>

\* BeginTOTP: GetUser and a fresh secret.
BeginGet(h, s, u) ==
    /\ MayAccess(s, u) /\ secrets < MaxSecrets
    /\ Read(h, "begin", "put", u, [users[u] EXCEPT !.pending = secrets + 1])
    /\ secrets' = secrets + 1
    /\ UNCHANGED <<tables, sessions, issued, restarts, history, flags>>

\* Mutant: a code of any secret shown so far will do.
ConfirmGetAny(h, s, u, k) ==
    /\ MayAccess(s, u) /\ users[u].pending # 0
    /\ Read(h, "confirm", "put", u,
            [users[u] EXCEPT !.secret = users[u].pending, !.pending = 0, !.confirmed = TRUE])
    /\ verified' = verified \cup {k}
    /\ UNCHANGED <<tables, sessions, counters, spent, flags>>

\* verifyTOTP: a code made from secret k is taken for the secret alone.
VerifyTOTP(k, secret) == secret # 0 /\ k = secret

\* ConfirmTOTP: GetUser and verifyTOTP of a code of secret k.
ConfirmGet(h, s, u, k) ==
    /\ MayAccess(s, u) /\ VerifyTOTP(k, users[u].pending)
    /\ Read(h, "confirm", "put", u,
            [users[u] EXCEPT !.secret = k, !.pending = 0, !.confirmed = TRUE])
    /\ verified' = verified \cup {k}
    /\ UNCHANGED <<tables, sessions, counters, spent, flags>>

\* DisableTOTP: GetUser.
DisableGet(h, s, u) ==
    /\ MayAccess(s, u)
    /\ Read(h, "disable", "put", u,
            [users[u] EXCEPT !.secret = 0, !.pending = 0, !.confirmed = FALSE])
    /\ UNCHANGED <<tables, sessions, counters, history, flags>>

\* RotateRecoveryCodes: GetUser.
RotateGet(h, s, u) ==
    /\ MayAccess(s, u)
    /\ Read(h, "rotate", "codes", u, users[u])
    /\ UNCHANGED <<tables, sessions, counters, history, flags>>

\* Mutant: codes are left in place when TOTP is switched off.
FollowedByPut(op) == op = "confirm"

\* Operations that replace the recovery codes after the row.
FollowedByCodes(op) == op \in {"confirm", "disable"}

\* UpdateUser: the whole row as read, with the operation's changes.
Put(h) ==
    LET u == req[h].user
        new == req[h].row
        reqs == [req EXCEPT ![h] = IF FollowedByCodes(@.op)
                                   THEN [@ EXCEPT !.at = "codes", !.base = new] ELSE Idle]
    IN
    /\ req[h].at = "put"
    /\ users' = [users EXCEPT ![u] = new]
    /\ outdated' = (outdated \/ RowChanged(h)
                        \/ (req[h].n # 0 /\ req[h].n # CountAdministrators))
    /\ IF TOTPEnabled(new) THEN req' = reqs /\ UNCHANGED sessions
       ELSE NoteOff(u, reqs)
    /\ UNCHANGED <<codes, begun, counters, history, torn>>

\* ReplaceRecoveryCodes, one transaction: none, or a fresh set.
ReplaceCodes(h) ==
    LET u == req[h].user IN
    /\ req[h].at = "codes"
    /\ IF req[h].op = "disable"
       THEN /\ codes' = [codes EXCEPT ![u] = NoCodes]
            /\ UNCHANGED issued
       ELSE /\ issued < MaxCodes
            /\ issued' = issued + 1
            /\ codes' = [codes EXCEPT ![u] = [id |-> issued + 1, used |-> FALSE,
                                                   secret |-> InForce(u)]]
    /\ outdated' = (outdated \/ RowChanged(h))
    /\ Finish(h)
    /\ UNCHANGED <<users, sessions, secrets, restarts, history, torn>>

-----------------------------------------------------------------------------
(* Failure *)

HalfDone(h) == req[h].at = "codes" /\ FollowedByCodes(req[h].op)

\* A refused form, a failed statement, or a client that hangs up.
Abandon(h) ==
    /\ req[h] # Idle
    /\ Finish(h)
    /\ torn' = (torn \/ HalfDone(h))
    /\ UNCHANGED <<tables, sessions, counters, history, outdated>>

\* The controller is restarted: requests and sessions are gone, tables stay.
Restart ==
    /\ restarts < MaxRestarts
    /\ restarts' = restarts + 1
    /\ req' = [h \in Handlers |-> Idle]
    /\ sessions' = [s \in Sessions |-> NoSession]
    /\ torn' = (torn \/ \E h \in Handlers : HalfDone(h))
    /\ UNCHANGED <<tables, begun, secrets, issued, history, outdated>>

Next ==
    \/ \E h \in Handlers :
         \/ SetupCheck(h) \/ SetupCount(h) \/ SetupCreate(h)
         \/ TouchGet(h) \/ ListCodes(h) \/ MarkCode(h) \/ ClearMFA(h)
         \/ PatchCount(h) \/ Put(h) \/ ReplaceCodes(h) \/ Abandon(h)
         \/ \E u \in Users : LoginRead(h, u)
         \/ \E s \in Sessions :
              \/ PutSession(h, s) \/ TouchRead(h, s) \/ MFARead(h, s)
              \/ \E u \in Users :
                   \/ \E p \in UserPatch : PatchGet(h, s, u, p)
                   \/ BeginGet(h, s, u) \/ DisableGet(h, s, u) \/ RotateGet(h, s, u)
                   \/ \E k \in 1..secrets : ConfirmGet(h, s, u, k)
    \/ \E s \in Sessions :
         \/ EndSession(s)
         \/ \E u \in Users, role \in Roles : CreateUser(s, u, role)
    \/ Restart

Spec == Init /\ [][Next]_vars

-----------------------------------------------------------------------------
(* Properties *)

\* Once accounts exist, one of them is an enabled administrator, whatever
\* sequence of creations, demotions and disablings was asked for, as long as no
\* request wrote on the strength of an outdated read (Accounts.Patch counts
\* first and writes later).
AdministratorRemains ==
    Existing # {} /\ ~outdated => EnabledAdministrators # {}

\* A recovery code that has let someone in is refused to every login that lists
\* the codes later, whatever enrolments, rotations, restarts and stale rows lie in
\* between: no request ever goes on with such a code (ConsumeMFA).
CodeUsedOnce == \A h \in Handlers : ~req[h].used

\* When no request is half-way through its two writes, and none was cut off
\* there, the recovery codes of an account belong to the TOTP secret in force,
\* and an account with TOTP has some (ConfirmTOTP, DisableTOTP).
CodesMatchEnrolment ==
    \A u \in Existing :
        ~outdated /\ ~torn /\ (\A h \in Handlers : req[h].user = u => ~HalfDone(h)) =>
            /\ codes[u].id # 0 => codes[u].secret = InForce(u)
            /\ InForce(u) # 0 => codes[u].id # 0

\* A secret guards an account only after its user showed a code of it, whatever
\* stale rows are written back (ConfirmTOTP verifies before it writes).
OnlyVerifiedSecrets ==
    \A u \in Existing : TOTPEnabled(users[u]) => users[u].secret \in verified

\* A session whose account had TOTP on throughout, from the password check on,
\* is usable only after a TOTP or recovery code was accepted for it.
SecondFactorGiven ==
    \A s \in Sessions : Usable(s) /\ ~sessions[s].off => sessions[s].factor

-----------------------------------------------------------------------------
(* What the program says of itself and does not do when two requests overlap *)

\* The refusals of Accounts.Patch, "cannot demote the last administrator" and
\* "cannot disable the last administrator", taken at their word.
LastAdministratorKept == Existing # {} => EnabledAdministrators # {}

\* "initial administrator already exists" (SetupFirstAdministrator): the setup form
\* creates an account only while there is none.  But two forms may both have
\* counted zero before either INSERT.
SetupCreatesFirst ==
    [][\A h \in Handlers : req[h].at = "create" /\ req'[h].at = "session" => Existing = {}]_vars

\* "Each code can be used once." (webui/i18n/en.json:302): no code is marked that
\* has let someone in.  But two logins may both list it before either marks it.
EachCodeOnce ==
    [][\A h \in Handlers : req[h].at = "mark" /\ req'[h].at = "clear" => req[h].code \notin spent]_vars
=============================================================================
