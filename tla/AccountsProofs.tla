--------------------------- MODULE AccountsProofs ---------------------------
(***************************************************************************)
(* Proofs about Accounts, for any finite set of accounts, any number of    *)
(* requests under way and of sessions, and any bounds.                     *)
(***************************************************************************)
EXTENDS Accounts, FiniteSetTheorems, TLAPS

\* An administrator a human can log in as.
InService(row) == row.role = Admin /\ ~row.disabled

\* A row whose secret, if it asks for one, was verified.
Sound(row) == row \in Row /\ (TOTPEnabled(row) => row.secret \in verified)

\* The statements an operation goes through.
Placed(r) ==
    \/ r.op = "setup" /\ r.at \in {"count", "create"}
    \/ r.op = "setup" /\ r.at = "session" /\ ~TOTPEnabled(r.row)
    \/ r.op = "login" /\ r.at = "session"
    \/ r.op = "touch" /\ r.at \in {"get", "put"}
    \/ r.op = "mfa" /\ r.at \in {"list", "mark", "clear"}
    \/ r.op = "patch" /\ r.at \in {"count", "put"}
    \/ r.op = "begin" /\ r.at = "put"
    \/ r.op \in {"confirm", "disable"} /\ r.at \in {"put", "codes"}
    \/ r.op = "rotate" /\ r.at = "codes"

\* What a request holds is of the right kind where it is: an account that
\* exists, sound rows, codes that were handed out and let nobody in before they
\* were listed, and that no other account has when they are marked, a session.
Equipped(r) ==
    /\ r.at \notin {"count", "create"} => r.user \in Existing
    /\ r.op = "patch" => r.user \in Existing /\ Sound(r.row)
    /\ r.at \in {"session", "put", "codes"} => Sound(r.row)
    /\ r.at = "put" \/ r.op \in {"mfa", "patch"} => Sound(r.base)
    /\ r.code \in 0..issued /\ ~r.used
    /\ r.at \in {"list", "mark"} => r.code # 0
    /\ r.at = "mark" => \A v \in Users : codes[v].id = r.code => v = r.user
    /\ r.op = "mfa" => r.sess \in Sessions

\* How the row a request is about to write differs from the one it read.
Careful(r) ==
    /\ r.at = "put" => (InService(r.base) => InService(r.row)) \/ r.n > 1
    /\ r.op = "patch" \/ (r.at = "put" /\ ~FollowedByCodes(r.op)) =>
          r.row.secret = r.base.secret /\ r.row.confirmed = r.base.confirmed
    /\ r.op = "disable" => ~TOTPEnabled(r.row)
    /\ r.at = "codes" => r.base = r.row

\* What a login and a second-factor request know about TOTP of their account.
Aware(r) ==
    /\ r.op = "login" /\ ~TOTPEnabled(users[r.user]) => r.off \/ ~TOTPEnabled(r.row)
    /\ r.op = "mfa" /\ sessions[r.sess] # NoSession =>
          /\ sessions[r.sess].user = r.user
          /\ ~TOTPEnabled(r.base) => sessions[r.sess].off

RequestOK(r) ==
    r = Idle \/ (r \in Request /\ Placed(r) /\ Equipped(r) /\ Careful(r) /\ Aware(r))

RequestsOK == \A h \in Handlers : RequestOK(req[h])

\* A session is of an account that exists, and knows that TOTP of it is off.
SessionsOK ==
    \A s \in Sessions : sessions[s] # NoSession =>
        /\ sessions[s].user \in Existing
        /\ ~TOTPEnabled(users[sessions[s].user]) => sessions[s].off

\* Recovery codes: every set was handed out once, to one account, and a code
\* that let someone in is marked as long as it is stored.
CodesOK ==
    /\ \A u \in Users : codes[u].id \in 0..issued /\ (u \notin Existing => codes[u].id = 0)
    /\ \A u, v \in Users : codes[u].id = codes[v].id /\ codes[u].id # 0 => u = v
    /\ spent \subseteq 1..issued
    /\ \A u \in Users : codes[u].id \in spent => codes[u].used

IInv ==
    /\ TypeOK /\ RequestsOK /\ SessionsOK /\ CodesOK /\ AdministratorRemains
    /\ CodesMatchEnrolment /\ OnlyVerifiedSecrets /\ SecondFactorGiven

-----------------------------------------------------------------------------
(* Accounts in service *)

\* The row of an account that exists is a row.
LEMMA ExistingRow ==
    ASSUME TypeOK, NEW u \in Existing
    PROVE  u \in Users /\ users[u] \in Row /\ users[u] # NoRow
  BY NoneAssumption DEF TypeOK, Existing

\* Numbers that stand for "no secret" and "no codes", and for the first of each.
LEMMA Numbers ==
    /\ 0 \in 0..MaxSecrets /\ 1 \in 0..MaxSecrets
    /\ 0 \in 0..MaxCodes /\ 1 \in 0..MaxCodes
    /\ 0 \in 0..MaxRestarts /\ 0 \in 0..MaxRequests
  BY AccountBounds

\* A new account has a row, and no TOTP.
LEMMA NewRows ==
    ASSUME NEW role \in Roles
    PROVE  /\ NewRow(role) \in Row /\ NewRow(role) # NoRow
           /\ ~TOTPEnabled(NewRow(role))
           /\ NewRow(role).secret = 0 /\ NewRow(role).role = role /\ ~NewRow(role).disabled
  <1>1. NewRow(role) \in Row
    BY Numbers DEF NewRow, Row
  <1>2. NewRow(role) # NoRow
    BY <1>1, NoneAssumption
  <1> QED  BY <1>1, <1>2 DEF NewRow, TOTPEnabled

\* CountAdministrators is a number, and above one there is another administrator.
LEMMA Counts ==
    /\ CountAdministrators \in Nat
    /\ \A u : CountAdministrators > 1 => \E v \in EnabledAdministrators : v # u
  <1>1. EnabledAdministrators \in SUBSET Users
    BY DEF Existing, EnabledAdministrators
  <1>2. IsFiniteSet(EnabledAdministrators)
    BY <1>1, UsersAssumption, FS_Subset
  <1>3. CountAdministrators \in Nat
    BY <1>2, FS_CardinalityType DEF CountAdministrators
  <1>4. ASSUME NEW u, CountAdministrators > 1, \A v \in EnabledAdministrators : v = u
        PROVE  FALSE
    <2>1. EnabledAdministrators \in SUBSET {u}
      BY <1>4
    <2>2. Cardinality(EnabledAdministrators) <= Cardinality({u}) /\ Cardinality({u}) = 1
      BY <2>1, FS_Subset, FS_Singleton
    <2> QED  BY <1>3, <1>4, <2>2 DEF CountAdministrators
  <1> QED  BY <1>3, <1>4

-----------------------------------------------------------------------------
(* The invariant holds initially *)

\* The installations the runs start from satisfy the invariant.
LEMMA InitIInv == Init => IInv
  <1> SUFFICES ASSUME Init PROVE IInv
    OBVIOUS
  <1>1. NewRow(Admin) \in Row /\ NewRow(Admin) # NoRow /\ ~TOTPEnabled(NewRow(Admin))
    BY NewRows, RolesAssumption
  <1>2. RequestsOK
    BY DEF Init, RequestsOK, RequestOK
  <1>3. SessionsOK /\ SecondFactorGiven
    BY DEF Init, SessionsOK, SecondFactorGiven, Usable
  <1>4. CASE Fresh
    <2>1. TypeOK
      BY <1>4, Numbers DEF Init, Fresh, TypeOK, Codes, NoCodes
    <2>2. Existing = {}
      BY <1>4 DEF Fresh, Existing
    <2>3. CodesOK /\ AdministratorRemains
      BY <1>4, <2>2 DEF Init, Fresh, CodesOK, AdministratorRemains, NoCodes
    <2>4. CodesMatchEnrolment /\ OnlyVerifiedSecrets
      BY <2>2 DEF CodesMatchEnrolment, OnlyVerifiedSecrets
    <2> QED  BY <1>2, <1>3, <2>1, <2>3, <2>4 DEF IInv
  <1>5. CASE Established
    <2>1. PICK e \in Users :
            /\ users = [u \in Users |-> IF u = e
                          THEN [NewRow(Admin) EXCEPT !.secret = 1, !.confirmed = TRUE]
                          ELSE NewRow(Admin)]
            /\ codes = [u \in Users |-> IF u = e THEN [id |-> 1, used |-> FALSE, secret |-> 1]
                                                ELSE NoCodes]
            /\ secrets = 1 /\ issued = 1 /\ verified = {1}
      BY <1>5 DEF Established
    <2> DEFINE enrolled == [NewRow(Admin) EXCEPT !.secret = 1, !.confirmed = TRUE]
    <2>2. enrolled \in Row /\ enrolled # NoRow /\ InService(enrolled) /\ enrolled.secret = 1
          /\ TOTPEnabled(enrolled)
      <3>1. enrolled \in Row
        BY Numbers, RolesAssumption DEF Row, NewRow
      <3>2. enrolled # NoRow
        BY <3>1, NoneAssumption
      <3> QED  BY <3>1, <3>2 DEF InService, TOTPEnabled, NewRow
    <2>3. \A u \in Users : users[u] = IF u = e THEN enrolled ELSE NewRow(Admin)
      BY <2>1
    <2> HIDE DEF enrolled
    <2>4. TypeOK
      <3>1. users \in [Users -> Row \cup {NoRow}]
        BY <1>1, <2>1, <2>2 DEF enrolled
      <3>2. codes \in [Users -> Codes]
        BY <2>1, Numbers DEF Codes, NoCodes
      <3>3. verified \subseteq 1..MaxSecrets
        BY <2>1, Numbers
      <3> QED  BY <2>1, <3>1, <3>2, <3>3, Numbers DEF Init, TypeOK
    <2>5. Existing = Users /\ e \in EnabledAdministrators
      BY <1>1, <2>2, <2>3 DEF Existing, EnabledAdministrators, InService
    <2>6. CodesOK /\ AdministratorRemains
      BY <2>1, <2>5 DEF Init, CodesOK, AdministratorRemains, NoCodes
    <2>7. CodesMatchEnrolment /\ OnlyVerifiedSecrets
      <3>1. \A u \in Users : InForce(u) = codes[u].secret /\ (codes[u].id = 0 <=> u # e)
        BY <1>1, <2>1, <2>2, <2>3 DEF InForce, NoCodes
      <3>2. \A u \in Users : InForce(u) # 0 => u = e
        BY <1>1, <2>3 DEF InForce
      <3>3. CodesMatchEnrolment
        BY <3>1, <3>2, <2>5 DEF CodesMatchEnrolment
      <3> QED  BY <1>1, <2>1, <2>2, <2>3, <2>5, <3>3 DEF OnlyVerifiedSecrets
    <2> QED  BY <1>2, <1>3, <2>4, <2>6, <2>7 DEF IInv
  <1> QED  BY <1>4, <1>5 DEF Init

-----------------------------------------------------------------------------
(* Steps that only move a request on *)

\* As long as the tables stay as they are, no second write is silently dropped,
\* and requests and sessions stay well equipped, the invariant is kept.
LEMMA TablesKept ==
    ASSUME IInv, TypeOK', RequestsOK', SessionsOK', SecondFactorGiven',
           UNCHANGED <<tables, issued, spent, outdated>>,
           verified \subseteq verified', torn => torn',
           \A g \in Handlers : HalfDone(g) =>
               torn' \/ (HalfDone(g)' /\ req'[g].user = req[g].user)
    PROVE  IInv'
  <1> USE DEF tables
  <1>1. Existing' = Existing /\ EnabledAdministrators' = EnabledAdministrators
    BY DEF Existing, EnabledAdministrators
  <1>2. \A u : InForce(u)' = InForce(u)
    BY DEF InForce, TOTPEnabled
  <1>3. CodesOK' /\ AdministratorRemains'
    BY <1>1 DEF IInv, CodesOK, AdministratorRemains
  <1>4. CodesMatchEnrolment'
    <2> SUFFICES ASSUME NEW u \in Existing, ~outdated, ~torn',
                        \A g \in Handlers : req'[g].user = u => ~HalfDone(g)'
                 PROVE  /\ codes[u].id # 0 => codes[u].secret = InForce(u)
                        /\ InForce(u) # 0 => codes[u].id # 0
      BY <1>1, <1>2 DEF CodesMatchEnrolment
    <2>1. \A g \in Handlers : req[g].user = u => ~HalfDone(g)
      OBVIOUS
    <2> QED  BY <2>1 DEF IInv, CodesMatchEnrolment
  <1>5. OnlyVerifiedSecrets'
    BY <1>1 DEF IInv, OnlyVerifiedSecrets
  <1> QED  BY <1>3, <1>4, <1>5 DEF IInv

\* So does a step that moves one request to a place where it is well equipped.
LEMMA QuietStep ==
    ASSUME IInv, NEW h \in Handlers,
           req' = [req EXCEPT ![h] = req'[h]], RequestOK(req[h])',
           UNCHANGED <<tables, sessions, issued, spent, outdated>>,
           secrets' \in 0..MaxSecrets, restarts' \in 0..MaxRestarts,
           begun' \in 0..MaxRequests,
           verified \subseteq verified', verified' \subseteq 1..MaxSecrets,
           torn' \in BOOLEAN, torn \/ HalfDone(h) => torn'
    PROVE  IInv'
  <1>1. TypeOK'
    <2>1. req' \in [Handlers -> Request \cup {Idle}]
      BY DEF IInv, TypeOK, RequestOK
    <2> QED  BY <2>1 DEF IInv, TypeOK, tables
  <1>2. Existing' = Existing
    BY DEF Existing, tables
  <1>3. \A g \in Handlers : g # h => req'[g] = req[g]
    BY DEF IInv, TypeOK
  <1>4. RequestsOK'
    <2> SUFFICES ASSUME NEW g \in Handlers, g # h PROVE RequestOK(req[g])'
      BY DEF RequestsOK
    <2>1. RequestOK(req[g])
      BY DEF IInv, RequestsOK
    <2> QED  BY <1>2, <1>3, <2>1 DEF RequestOK, Equipped, Aware, Sound, tables
  <1>5. SessionsOK' /\ SecondFactorGiven'
    BY <1>2 DEF IInv, SessionsOK, SecondFactorGiven, Usable, tables
  <1>6. \A g \in Handlers : HalfDone(g) =>
            torn' \/ (HalfDone(g)' /\ req'[g].user = req[g].user)
    BY <1>3 DEF HalfDone
  <1> QED  BY <1>1, <1>4, <1>5, <1>6, TablesKept DEF tables

\* What a request holds after the GetUser it starts with.
LEMMA ReadRequest ==
    ASSUME TypeOK, NEW h \in Handlers, NEW u \in Existing, NEW row \in Row,
           NEW op \in {"login", "touch", "patch", "begin", "confirm", "disable", "rotate"},
           NEW at \in {"session", "put", "count", "codes"},
           Read(h, op, at, u, row)
    PROVE  /\ req' = [req EXCEPT ![h] = req'[h]] /\ begun' \in 0..MaxRequests
           /\ req'[h] \in Request
           /\ req'[h].op = op /\ req'[h].at = at /\ req'[h].user = u
           /\ req'[h].base = users[u] /\ req'[h].row = row
           /\ req'[h].code = 0 /\ ~req'[h].used /\ req'[h].n = 0
           /\ ~HalfDone(h)
  <1> DEFINE r == [Idle EXCEPT !.op = op, !.at = at, !.user = u, !.base = users[u], !.row = row]
  <1>1. u \in Users /\ users[u] \in Row
    BY ExistingRow
  <1>2. r \in Request
    BY <1>1, Numbers DEF Idle, Request
  <1>3. /\ r.op = op /\ r.at = at /\ r.user = u /\ r.base = users[u] /\ r.row = row
        /\ r.code = 0 /\ ~r.used /\ r.n = 0
    BY DEF Idle
  <1>4. req' = [req EXCEPT ![h] = r] /\ req[h] = Idle /\ begun' \in 0..MaxRequests
    BY AccountBounds DEF Read, Begin, TypeOK
  <1> HIDE DEF r
  <1>5. req'[h] = r /\ req' = [req EXCEPT ![h] = req'[h]]
    BY <1>4 DEF TypeOK
  <1>6. ~HalfDone(h)
    BY <1>4 DEF HalfDone, Idle
  <1> QED  BY <1>2, <1>3, <1>4, <1>5, <1>6

\* Rows that exist are sound, and a sound row stays so.
LEMMA SoundRows ==
    ASSUME IInv, NEW u \in Existing
    PROVE  Sound(users[u]) /\ u \in Users /\ users[u] \in Row
  BY ExistingRow DEF IInv, OnlyVerifiedSecrets, Sound

\* A request may start with GetUser when the row it would write is sound, keeps
\* the account's administrator in service unless it is to be counted first, and
\* changes the enrolment only in the operations that go on to the codes.
LEMMA ReadKeeps ==
    ASSUME IInv, NEW h \in Handlers, NEW u \in Existing, NEW row \in Row,
           NEW op \in {"login", "touch", "patch", "begin", "confirm", "disable", "rotate"},
           NEW at \in {"session", "put", "count", "codes"},
           Read(h, op, at, u, row),
           UNCHANGED <<tables, sessions, issued, restarts, spent, flags>>,
           secrets' \in 0..MaxSecrets,
           verified \subseteq verified', verified' \subseteq 1..MaxSecrets,
           TOTPEnabled(row) => row.secret \in verified',
           \/ op = "login" /\ at = "session" /\ row = users[u]
           \/ op = "patch" /\ at = "count"
           \/ op = "rotate" /\ at = "codes" /\ row = users[u]
           \/ op \notin {"login", "rotate"} /\ at = "put",
           at = "put" => (InService(users[u]) => InService(row)),
           at \in {"put", "count"} /\ ~FollowedByCodes(op) =>
               row.secret = users[u].secret /\ row.confirmed = users[u].confirmed,
           op = "disable" => ~TOTPEnabled(row)
    PROVE  IInv'
  <1>1. /\ req' = [req EXCEPT ![h] = req'[h]] /\ begun' \in 0..MaxRequests
        /\ req'[h] \in Request
        /\ req'[h].op = op /\ req'[h].at = at /\ req'[h].user = u
        /\ req'[h].base = users[u] /\ req'[h].row = row
        /\ req'[h].code = 0 /\ ~req'[h].used /\ ~HalfDone(h)
    BY ReadRequest DEF IInv
  <1>2. Sound(users[u])
    BY SoundRows
  <1>3. 0 \in 0..issued /\ users' = users /\ issued' = issued
    BY DEF IInv, TypeOK, tables
  <1>4. Placed(req[h])'
    BY <1>1 DEF Placed
  <1>5. Equipped(req[h])'
    BY <1>1, <1>2, <1>3 DEF Equipped, Sound, Existing
  <1>6. Careful(req[h])'
    BY <1>1 DEF Careful, FollowedByCodes
  <1>7. Aware(req[h])'
    BY <1>1, <1>3 DEF Aware
  <1> QED
    BY <1>1, <1>4, <1>5, <1>6, <1>7, QuietStep DEF RequestOK, IInv, TypeOK, flags

\* AuthenticatePassword starts a login with the row as it is.
LEMMA LoginReadKeeps ==
    ASSUME IInv, NEW h \in Handlers, NEW u \in Users, LoginRead(h, u)
    PROVE  IInv'
  <1>1. u \in Existing /\ Read(h, "login", "session", u, users[u])
    BY DEF LoginRead
  <1>2. Sound(users[u]) /\ users[u] \in Row
    BY <1>1, SoundRows
  <1> QED
    BY <1>1, <1>2, ReadKeeps DEF LoginRead, IInv, TypeOK, Sound, counters, history, flags

\* postLocale and settingsPassword write the row back as they read it.
LEMMA TouchReadKeeps ==
    ASSUME IInv, NEW h \in Handlers, NEW s \in Sessions, TouchRead(h, s)
    PROVE  IInv'
  <1> DEFINE u == sessions[s].user
  <1>1. u \in Existing /\ Read(h, "touch", "put", u, users[u])
    BY DEF TouchRead, Usable, IInv, SessionsOK
  <1>2. Sound(users[u]) /\ users[u] \in Row
    BY <1>1, SoundRows
  <1> HIDE DEF u
  <1> QED
    BY <1>1, <1>2, ReadKeeps DEF TouchRead, IInv, TypeOK, Sound, counters, history, flags

\* A patch that may take an administrator out of service is counted first.
LEMMA PatchGetKeeps ==
    ASSUME IInv, NEW h \in Handlers, NEW s \in Sessions, NEW u \in Users,
           NEW p \in UserPatch, PatchGet(h, s, u, p)
    PROVE  IInv'
  <1> DEFINE row == Patched(users[u], p)
             at == IF NeedsCount(users[u], p) THEN "count" ELSE "put"
  <1>1. u \in Existing /\ Read(h, "patch", at, u, row)
    BY DEF PatchGet
  <1>2. Sound(users[u]) /\ users[u] \in Row
    BY <1>1, SoundRows
  <1>3. /\ row \in Row /\ row.secret = users[u].secret /\ row.confirmed = users[u].confirmed
        /\ row.role = IF p.role = "omitted" THEN users[u].role ELSE p.role
        /\ row.disabled = IF p.disabled = "omitted" THEN users[u].disabled
                                                    ELSE p.disabled = "yes"
    BY <1>2 DEF Patched, Row, UserPatch
  <1>4. TOTPEnabled(row) => row.secret \in verified
    BY <1>2, <1>3 DEF Sound, TOTPEnabled
  <1>5. ~NeedsCount(users[u], p) => (InService(users[u]) => InService(row))
    BY <1>2, <1>3 DEF NeedsCount, InService, UserPatch
  <1>6. /\ at \in {"count", "put"}
        /\ at = "put" => ~NeedsCount(users[u], p)
    OBVIOUS
  <1> HIDE DEF row, at
  <1> QED
    BY <1>1, <1>3, <1>4, <1>5, <1>6, ReadKeeps
       DEF PatchGet, IInv, TypeOK, counters, history, flags

\* BeginTOTP writes a pending secret only.
LEMMA BeginGetKeeps ==
    ASSUME IInv, NEW h \in Handlers, NEW s \in Sessions, NEW u \in Users, BeginGet(h, s, u)
    PROVE  IInv'
  <1> DEFINE row == [users[u] EXCEPT !.pending = secrets + 1]
  <1>1. u \in Existing /\ Read(h, "begin", "put", u, row)
    BY DEF BeginGet, MayAccess
  <1>2. secrets' \in 0..MaxSecrets /\ secrets + 1 \in 0..MaxSecrets
    BY AccountBounds DEF BeginGet, IInv, TypeOK
  <1>3. Sound(users[u]) /\ users[u] \in Row
    BY <1>1, SoundRows
  <1>4. /\ row \in Row
        /\ row.secret = users[u].secret /\ row.confirmed = users[u].confirmed
        /\ row.role = users[u].role /\ row.disabled = users[u].disabled
    BY <1>2, <1>3 DEF Row
  <1>5. /\ TOTPEnabled(row) => row.secret \in verified
        /\ InService(users[u]) => InService(row)
    BY <1>3, <1>4 DEF Sound, TOTPEnabled, InService
  <1> HIDE DEF row
  <1> QED
    BY <1>1, <1>2, <1>4, <1>5, ReadKeeps DEF BeginGet, IInv, TypeOK, history, flags

\* ConfirmTOTP would enable the secret whose code it has just verified.
LEMMA ConfirmGetKeeps ==
    ASSUME IInv, NEW h \in Handlers, NEW s \in Sessions, NEW u \in Users,
           NEW k \in 1..secrets, ConfirmGet(h, s, u, k)
    PROVE  IInv'
  <1> DEFINE row == [users[u] EXCEPT !.secret = k, !.pending = 0, !.confirmed = TRUE]
  <1>1. u \in Existing /\ Read(h, "confirm", "put", u, row)
    BY DEF ConfirmGet, MayAccess
  <1>2. /\ k \in 0..MaxSecrets /\ k \in 1..MaxSecrets /\ verified' = verified \cup {k}
        /\ verified' \subseteq 1..MaxSecrets
    BY AccountBounds DEF ConfirmGet, IInv, TypeOK
  <1>3. Sound(users[u]) /\ users[u] \in Row
    BY <1>1, SoundRows
  <1>4. /\ row \in Row /\ row.secret = k
        /\ row.role = users[u].role /\ row.disabled = users[u].disabled
    BY <1>2, <1>3, Numbers DEF Row
  <1>5. InService(users[u]) => InService(row)
    BY <1>4 DEF InService
  <1> HIDE DEF row
  <1> QED
    BY <1>1, <1>2, <1>4, <1>5, ReadKeeps
       DEF ConfirmGet, FollowedByCodes, IInv, TypeOK, counters, flags

\* DisableTOTP would leave the account without a secret.
LEMMA DisableGetKeeps ==
    ASSUME IInv, NEW h \in Handlers, NEW s \in Sessions, NEW u \in Users, DisableGet(h, s, u)
    PROVE  IInv'
  <1> DEFINE row == [users[u] EXCEPT !.secret = 0, !.pending = 0, !.confirmed = FALSE]
  <1>1. u \in Existing /\ Read(h, "disable", "put", u, row)
    BY DEF DisableGet, MayAccess
  <1>2. Sound(users[u]) /\ users[u] \in Row
    BY <1>1, SoundRows
  <1>3. /\ row \in Row /\ row.secret = 0
        /\ row.role = users[u].role /\ row.disabled = users[u].disabled
    BY <1>2, Numbers DEF Row
  <1>4. ~TOTPEnabled(row) /\ (InService(users[u]) => InService(row))
    BY <1>3 DEF TOTPEnabled, InService
  <1> HIDE DEF row
  <1> QED
    BY <1>1, <1>3, <1>4, ReadKeeps
       DEF DisableGet, FollowedByCodes, IInv, TypeOK, counters, history, flags

\* RotateRecoveryCodes reads the row and goes on to the codes.
LEMMA RotateGetKeeps ==
    ASSUME IInv, NEW h \in Handlers, NEW s \in Sessions, NEW u \in Users, RotateGet(h, s, u)
    PROVE  IInv'
  <1>1. u \in Existing /\ Read(h, "rotate", "codes", u, users[u])
    BY DEF RotateGet, MayAccess
  <1>2. Sound(users[u]) /\ users[u] \in Row
    BY <1>1, SoundRows
  <1> QED
    BY <1>1, <1>2, ReadKeeps DEF RotateGet, IInv, TypeOK, Sound, counters, history, flags

\* A request under way is well placed and equipped.
LEMMA UnderWay ==
    ASSUME IInv, NEW h \in Handlers, req[h].at # "done"
    PROVE  /\ req[h] \in Request /\ Placed(req[h]) /\ Equipped(req[h])
           /\ Careful(req[h]) /\ Aware(req[h])
  <1>1. req[h] # Idle
    BY DEF Idle
  <1> QED  BY <1>1 DEF IInv, RequestsOK, RequestOK

\* A request that ends without dropping a second write.
LEMMA FinishKeeps ==
    ASSUME IInv, NEW h \in Handlers, Finish(h),
           UNCHANGED <<tables, sessions, counters, history, outdated>>,
           torn' = (torn \/ HalfDone(h))
    PROVE  IInv'
  <1>1. req' = [req EXCEPT ![h] = req'[h]] /\ req'[h] = Idle /\ begun' = begun
    BY DEF Finish, Continue, IInv, TypeOK
  <1>2. RequestOK(req[h])'
    BY <1>1 DEF RequestOK
  <1> QED  BY <1>1, <1>2, QuietStep DEF IInv, TypeOK, tables, counters, history

\* Abandoning a request is noted when it had its second write to do.
LEMMA AbandonKeeps ==
    ASSUME IInv, NEW h \in Handlers, Abandon(h)
    PROVE  IInv'
  BY FinishKeeps DEF Abandon

\* A request that goes on to another statement, with nothing else changed.
LEMMA GotoRequest ==
    ASSUME IInv, NEW h \in Handlers, req[h].at # "done",
           NEW at \in {"create", "mark", "clear"}, Goto(h, at)
    PROVE  /\ req' = [req EXCEPT ![h] = req'[h]] /\ begun' = begun
           /\ req'[h] \in Request /\ req'[h].at = at
           /\ req'[h].op = req[h].op /\ req'[h].user = req[h].user /\ req'[h].sess = req[h].sess
           /\ req'[h].base = req[h].base /\ req'[h].row = req[h].row /\ req'[h].n = req[h].n
           /\ req'[h].code = req[h].code /\ req'[h].used = req[h].used
  <1>1. req[h] \in Request
    BY UnderWay
  <1>2. req' = [req EXCEPT ![h] = req'[h]] /\ begun' = begun
        /\ req'[h] = [req[h] EXCEPT !.at = at]
    BY DEF Goto, Continue, IInv, TypeOK
  <1> QED  BY <1>1, <1>2 DEF Request

\* postSetup starts when no account exists.
LEMMA SetupCheckKeeps ==
    ASSUME IInv, NEW h \in Handlers, SetupCheck(h)
    PROVE  IInv'
  <1> DEFINE r == [Idle EXCEPT !.op = "setup", !.at = "count"]
  <1>1. r \in Request /\ r.op = "setup" /\ r.at = "count" /\ r.n = 0 /\ r.code = 0 /\ ~r.used
    BY Numbers DEF Idle, Request
  <1>2. req' = [req EXCEPT ![h] = r] /\ req[h] = Idle /\ begun' \in 0..MaxRequests
    BY AccountBounds DEF SetupCheck, Begin, IInv, TypeOK
  <1> HIDE DEF r
  <1>3. req'[h] = r /\ req' = [req EXCEPT ![h] = req'[h]] /\ ~HalfDone(h)
    BY <1>2 DEF IInv, TypeOK, HalfDone, Idle
  <1>4. 0 \in 0..issued'
    BY DEF SetupCheck, IInv, TypeOK, counters
  <1>5. RequestOK(req[h])'
    BY <1>1, <1>3, <1>4 DEF RequestOK, Placed, Equipped, Careful, Aware
  <1> QED
    BY <1>2, <1>3, <1>5, QuietStep
       DEF SetupCheck, IInv, TypeOK, tables, counters, history, flags

\* SetupFirstAdministrator goes on to the INSERT, or is refused.
LEMMA SetupCountKeeps ==
    ASSUME IInv, NEW h \in Handlers, SetupCount(h)
    PROVE  IInv'
  <1>1. /\ req[h].op = "setup" /\ req[h].at = "count"
        /\ UNCHANGED <<tables, sessions, counters, history, flags>>
        /\ Finish(h) \/ Goto(h, "create")
    BY DEF SetupCount
  <1>2. ~HalfDone(h)
    BY <1>1 DEF HalfDone
  <1>3. CASE Finish(h)
    BY <1>1, <1>2, <1>3, FinishKeeps DEF flags, IInv, TypeOK
  <1>4. CASE Goto(h, "create")
    <2>1. Placed(req[h]) /\ Equipped(req[h])
      BY <1>1, UnderWay
    <2>2. /\ req' = [req EXCEPT ![h] = req'[h]] /\ begun' = begun
          /\ req'[h] \in Request /\ req'[h].at = "create" /\ req'[h].op = req[h].op
          /\ req'[h].n = req[h].n /\ req'[h].code = req[h].code /\ req'[h].used = req[h].used
      BY <1>1, <1>4, GotoRequest
    <2>3. RequestOK(req[h])'
      BY <1>1, <2>1, <2>2 DEF RequestOK, Placed, Equipped, Careful, Aware, counters
    <2> QED
      BY <1>1, <1>2, <2>2, <2>3, QuietStep DEF IInv, TypeOK, tables, counters, history, flags
  <1> QED  BY <1>1, <1>3, <1>4

\* TouchLogin and SetLocale read the row they write back.
LEMMA TouchGetKeeps ==
    ASSUME IInv, NEW h \in Handlers, TouchGet(h)
    PROVE  IInv'
  <1> DEFINE u == req[h].user
             r == [req[h] EXCEPT !.at = "put", !.base = users[u], !.row = users[u]]
  <1>1. /\ req[h].op = "touch" /\ req[h].at = "get"
        /\ UNCHANGED <<tables, sessions, counters, history, flags>>
    BY DEF TouchGet
  <1>2. req[h] \in Request /\ Equipped(req[h])
    BY <1>1, UnderWay
  <1>3. u \in Existing
    BY <1>1, <1>2 DEF Equipped
  <1>4. Sound(users[u]) /\ users[u] \in Row
    BY <1>3, SoundRows
  <1>5. req' = [req EXCEPT ![h] = r] /\ req'[h] = r /\ begun' = begun
    BY DEF TouchGet, Continue, IInv, TypeOK
  <1>6. /\ r \in Request
        /\ r.op = "touch" /\ r.at = "put" /\ r.user = u /\ r.base = users[u] /\ r.row = users[u]
        /\ r.code = req[h].code /\ r.used = req[h].used
    BY <1>1, <1>2, <1>4 DEF Request
  <1> HIDE DEF u, r
  <1>7. RequestOK(req[h])'
    BY <1>1, <1>2, <1>3, <1>4, <1>5, <1>6
       DEF RequestOK, Placed, Equipped, Careful, Aware, Sound, Existing, tables, counters, history
  <1>8. ~HalfDone(h)
    BY <1>1 DEF HalfDone
  <1> QED
    BY <1>1, <1>5, <1>7, <1>8, QuietStep DEF IInv, TypeOK, tables, counters, history, flags

\* postMFA reads the row of the session's account; if TOTP is off by now, the
\* session knows.
LEMMA MFAReadKeeps ==
    ASSUME IInv, NEW h \in Handlers, NEW s \in Sessions, MFARead(h, s)
    PROVE  IInv'
  <1> DEFINE u == sessions[s].user
             r(at, code) == [Idle EXCEPT !.op = "mfa", !.at = at, !.user = u, !.sess = s,
                                         !.base = users[u], !.code = code]
  <1>1. /\ sessions[s] # NoSession
        /\ UNCHANGED <<tables, sessions, counters, history, flags>>
    BY DEF MFARead
  <1>2. PICK at \in {"list", "clear"}, code \in 0..issued :
          Begin(h, r(at, code)) /\ (at = "list" => code # 0)
    <2>1. 0 \in 0..issued /\ \A code \in 1..issued : code \in 0..issued /\ code # 0
      BY DEF IInv, TypeOK
    <2> QED  BY <2>1 DEF MFARead
  <1>3. u \in Existing /\ (~TOTPEnabled(users[u]) => sessions[s].off)
    BY <1>1 DEF IInv, SessionsOK
  <1>4. Sound(users[u]) /\ u \in Users /\ users[u] \in Row
    BY <1>3, SoundRows
  <1>5. code \in 0..MaxCodes
    BY AccountBounds DEF IInv, TypeOK
  <1>6. /\ r(at, code) \in Request
        /\ r(at, code).op = "mfa" /\ r(at, code).at = at /\ r(at, code).user = u
        /\ r(at, code).sess = s /\ r(at, code).base = users[u] /\ r(at, code).code = code
        /\ ~r(at, code).used
    BY <1>4, <1>5, Numbers DEF Idle, Request
  <1>7. req' = [req EXCEPT ![h] = r(at, code)] /\ req[h] = Idle /\ begun' \in 0..MaxRequests
    BY <1>2, AccountBounds DEF Begin, IInv, TypeOK
  <1>8. req'[h] = r(at, code) /\ req' = [req EXCEPT ![h] = req'[h]] /\ ~HalfDone(h)
    BY <1>7 DEF IInv, TypeOK, HalfDone, Idle
  <1> HIDE DEF u, r
  <1>9. RequestOK(req[h])'
    <2>1. Placed(req[h])' /\ Careful(req[h])'
      BY <1>6, <1>8 DEF Placed, Careful
    <2>2. Equipped(req[h])'
      BY <1>1, <1>2, <1>3, <1>4, <1>6, <1>8
         DEF Equipped, Sound, Existing, tables, counters, history
    <2>3. Aware(req[h])'
      BY <1>1, <1>3, <1>6, <1>8 DEF Aware, tables, u
    <2> QED  BY <1>6, <1>8, <2>1, <2>2, <2>3 DEF RequestOK
  <1> QED
    BY <1>1, <1>7, <1>8, <1>9, QuietStep DEF IInv, TypeOK, tables, counters, history, flags

\* ConsumeMFA goes on with a code that is stored for the account alone and let
\* nobody in so far, or refuses.
LEMMA ListCodesKeeps ==
    ASSUME IInv, NEW h \in Handlers, ListCodes(h)
    PROVE  IInv'
  <1> DEFINE u == req[h].user
             c == req[h].code
             r == [req[h] EXCEPT !.at = "mark", !.used = c \in spent]
  <1>1. /\ req[h].at = "list"
        /\ UNCHANGED <<tables, sessions, counters, history, flags>>
        /\ Finish(h) \/ (codes[u].id = c /\ ~codes[u].used /\ Continue(h, r))
    BY DEF ListCodes, Accept
  <1>2. ~HalfDone(h)
    BY <1>1 DEF HalfDone
  <1>3. CASE Finish(h)
    BY <1>1, <1>2, <1>3, FinishKeeps DEF flags, IInv, TypeOK
  <1>4. CASE codes[u].id = c /\ ~codes[u].used /\ Continue(h, r)
    <2>1. req[h] \in Request /\ Placed(req[h]) /\ Equipped(req[h]) /\ Aware(req[h])
      BY <1>1, UnderWay
    <2>2. u \in Existing /\ c # 0 /\ req[h].op = "mfa"
      BY <1>1, <2>1 DEF Equipped, Placed
    <2>3. u \in Users
      BY <2>2, SoundRows
    <2>4. c \notin spent /\ \A v \in Users : codes[v].id = c => v = u
      BY <1>4, <2>2, <2>3 DEF IInv, CodesOK
    <2>5. req' = [req EXCEPT ![h] = r] /\ req'[h] = r /\ begun' = begun
      BY <1>4 DEF Continue, IInv, TypeOK
    <2>6. r = [req[h] EXCEPT !.at = "mark", !.used = FALSE]
      <3>1. (c \in spent) = FALSE
        BY <2>4
      <3> QED  BY <3>1, Zenon
    <2>7. /\ r \in Request /\ r.at = "mark" /\ r.op = "mfa" /\ r.user = u /\ ~r.used
          /\ r.sess = req[h].sess /\ r.base = req[h].base /\ r.code = c
      <3> HIDE DEF r
      <3> QED  BY <2>1, <2>2, <2>6 DEF Request
    <2> HIDE DEF r
    <2>8. Placed(req[h])' /\ Careful(req[h])'
      BY <2>5, <2>7 DEF Placed, Careful
    <2>9. Equipped(req[h])'
      BY <1>1, <2>1, <2>2, <2>4, <2>5, <2>7
         DEF Equipped, Sound, Existing, tables, counters, history
    <2>10. Aware(req[h])'
      BY <1>1, <2>1, <2>2, <2>5, <2>7 DEF Aware, tables
    <2> QED
      BY <1>1, <1>2, <2>5, <2>7, <2>8, <2>9, <2>10, QuietStep
         DEF RequestOK, IInv, TypeOK, tables, counters, history, flags
  <1> QED  BY <1>1, <1>3, <1>4

\* A patch that needs the count writes only when there is another administrator.
LEMMA PatchCountKeeps ==
    ASSUME IInv, NEW h \in Handlers, PatchCount(h)
    PROVE  IInv'
  <1> DEFINE n == CountAdministrators
             r == [req[h] EXCEPT !.at = "put", !.n = n]
  <1>1. /\ req[h].op = "patch" /\ req[h].at = "count"
        /\ UNCHANGED <<tables, sessions, counters, history, flags>>
        /\ Finish(h) \/ (~(n <= 1) /\ Continue(h, r))
    BY DEF PatchCount
  <1>2. ~HalfDone(h)
    BY <1>1 DEF HalfDone
  <1>3. CASE Finish(h)
    BY <1>1, <1>2, <1>3, FinishKeeps DEF flags, IInv, TypeOK
  <1>4. CASE ~(n <= 1) /\ Continue(h, r)
    <2>1. req[h] \in Request /\ Placed(req[h]) /\ Equipped(req[h])
      BY <1>1, UnderWay
    <2>2. n \in Nat /\ n > 1
      BY <1>4, Counts
    <2>3. req' = [req EXCEPT ![h] = r] /\ req'[h] = r /\ begun' = begun
      BY <1>4 DEF Continue, IInv, TypeOK
    <2>4. /\ r \in Request /\ r.op = "patch" /\ r.at = "put" /\ r.n = n
          /\ r.user = req[h].user /\ r.base = req[h].base /\ r.row = req[h].row
          /\ r.code = req[h].code /\ r.used = req[h].used
      BY <1>1, <2>1, <2>2 DEF Request
    <2> HIDE DEF n, r
    <2>5. Placed(req[h])' /\ Equipped(req[h])' /\ Aware(req[h])'
      BY <1>1, <2>1, <2>3, <2>4
         DEF Placed, Equipped, Aware, Sound, Existing, tables, counters, history
    <2>6. Careful(req[h])'
      <3>1. Careful(req[h])
        BY <1>1, UnderWay
      <3> QED  BY <1>1, <2>2, <2>3, <2>4, <3>1 DEF Careful, FollowedByCodes
    <2> QED
      BY <1>1, <1>2, <2>3, <2>4, <2>5, <2>6, QuietStep
         DEF RequestOK, IInv, TypeOK, tables, counters, history, flags
  <1> QED  BY <1>1, <1>3, <1>4

-----------------------------------------------------------------------------
(* Sessions *)

\* The request that touches the account after a login.
LEMMA TouchLoginOK ==
    ASSUME IInv, NEW u \in Existing
    PROVE  /\ TouchLogin(u) \in Request /\ Placed(TouchLogin(u)) /\ Careful(TouchLogin(u))
           /\ TouchLogin(u).user = u /\ TouchLogin(u).op = "touch" /\ TouchLogin(u).at = "get"
           /\ TouchLogin(u).code = 0 /\ ~TouchLogin(u).used /\ TouchLogin(u).sess = NoSession
  <1> DEFINE r == TouchLogin(u)
  <1>1. u \in Users
    BY SoundRows
  <1>2. r \in Request /\ r.op = "touch" /\ r.at = "get" /\ r.user = u /\ r.code = 0 /\ ~r.used
        /\ r.sess = NoSession
    BY <1>1, Numbers DEF TouchLogin, Idle, Request
  <1> HIDE DEF r
  <1>3. Placed(r) /\ Careful(r)
    BY <1>2 DEF Placed, Careful
  <1> QED  BY <1>2, <1>3 DEF r

\* The account is touched after the login: TouchLogin may begin.
LEMMA TouchLoginKeeps ==
    ASSUME IInv, NEW h \in Handlers, NEW u \in Existing, req'[h] = TouchLogin(u),
           users' = users, issued' = issued
    PROVE  RequestOK(req[h])'
  <1>1. 0 \in 0..issued
    BY DEF IInv, TypeOK
  <1>2. Equipped(req[h])' /\ Aware(req[h])'
    BY <1>1, TouchLoginOK DEF Equipped, Aware, Existing
  <1>3. Placed(req[h])' /\ Careful(req[h])'
    BY TouchLoginOK DEF Placed, Careful
  <1> QED  BY <1>2, <1>3, TouchLoginOK DEF RequestOK

\* A new session knows whether TOTP of its account was off since its password
\* check, and is pending otherwise.
LEMMA PutSessionKeeps ==
    ASSUME IInv, NEW h \in Handlers, NEW s \in Sessions, PutSession(h, s)
    PROVE  IInv'
  <1> DEFINE u == req[h].user
             new == NewSession(h)
  <1>1. /\ req[h].at = "session" /\ FreshId(s) /\ sessions' = [sessions EXCEPT ![s] = new]
        /\ Finish(h) \/ Continue(h, TouchLogin(u))
        /\ UNCHANGED <<tables, counters, history, flags>>
    BY DEF PutSession
  <1>2. req[h] \in Request /\ Placed(req[h]) /\ Equipped(req[h]) /\ Aware(req[h])
    BY <1>1, UnderWay
  <1>3. u \in Existing /\ req[h].row \in Row
    BY <1>1, <1>2 DEF Equipped, Sound
  <1>4. u \in Users
    BY <1>3, SoundRows
  <1>5. /\ new \in Session /\ new.user = u
        /\ new.off = (req[h].off \/ ~TOTPEnabled(req[h].row))
        /\ new.pending = TOTPEnabled(req[h].row)
    BY <1>2, <1>3, <1>4 DEF NewSession, Session, Row, Request, TOTPEnabled
  <1>6. ~TOTPEnabled(users[u]) => new.off
    BY <1>1, <1>2, <1>5 DEF Placed, Aware
  <1> HIDE DEF u, new
  <1>7. /\ sessions' \in [Sessions -> Session \cup {NoSession}] /\ sessions'[s] = new
        /\ \A t \in Sessions : t # s => sessions'[t] = sessions[t]
    BY <1>1, <1>5 DEF IInv, TypeOK
  <1>8. SessionsOK' /\ SecondFactorGiven'
    BY <1>1, <1>3, <1>5, <1>6, <1>7
       DEF IInv, SessionsOK, SecondFactorGiven, Usable, Existing, tables
  <1>9. /\ req'[h] = Idle \/ req'[h] = TouchLogin(u)
        /\ \A g \in Handlers : g # h => req'[g] = req[g]
        /\ req' \in [Handlers -> Request \cup {Idle}]
    <2>1. TouchLogin(u) \in Request
      BY <1>3, TouchLoginOK
    <2> QED  BY <1>1, <2>1 DEF Finish, Continue, IInv, TypeOK
  <1>10. RequestsOK'
    <2> SUFFICES ASSUME NEW g \in Handlers PROVE RequestOK(req[g])'
      BY DEF RequestsOK
    <2>1. CASE g = h
      <3>1. CASE req'[h] = Idle
        BY <2>1, <3>1 DEF RequestOK
      <3>2. CASE req'[h] = TouchLogin(u)
        BY <1>1, <1>3, <2>1, <3>2, TouchLoginKeeps DEF tables, counters
      <3> QED  BY <1>9, <3>1, <3>2
    <2>2. CASE g # h
      <3>1. RequestOK(req[g]) /\ req'[g] = req[g] /\ req[g].sess # s
        BY <1>1, <1>9, <2>2 DEF IInv, RequestsOK, FreshId
      <3> QED
        BY <1>1, <1>7, <3>1
           DEF RequestOK, Equipped, Aware, Sound, Existing, tables, counters, history
    <2> QED  BY <2>1, <2>2
  <1>11. \A g \in Handlers : HalfDone(g) => HalfDone(g)' /\ req'[g].user = req[g].user
    BY <1>1, <1>9 DEF HalfDone
  <1>12. TypeOK'
    BY <1>1, <1>7, <1>9 DEF PutSession, Finish, Continue, IInv, TypeOK, tables, counters, history, flags
  <1> QED
    BY <1>1, <1>8, <1>10, <1>11, <1>12, TablesKept DEF tables, counters, history, flags

\* clearMFA: the session is of the request's account, and if no factor was asked
\* for because TOTP was off, it knows.
LEMMA ClearMFAKeeps ==
    ASSUME IInv, NEW h \in Handlers, ClearMFA(h)
    PROVE  IInv'
  <1> DEFINE u == req[h].user
             s == req[h].sess
             factor == TOTPEnabled(req[h].base)
  <1>1. /\ req[h].op = "mfa" /\ req[h].at = "clear"
        /\ sessions' = IF sessions[s] = NoSession THEN sessions
                       ELSE [sessions EXCEPT ![s].pending = FALSE, ![s].factor = factor]
        /\ Continue(h, TouchLogin(u))
        /\ UNCHANGED <<tables, counters, history, flags>>
    BY DEF ClearMFA
  <1>2. Equipped(req[h]) /\ Aware(req[h])
    BY <1>1, UnderWay
  <1>3. /\ u \in Existing /\ s \in Sessions /\ factor \in BOOLEAN
        /\ sessions[s] # NoSession /\ ~factor => sessions[s].off
    BY <1>1, <1>2 DEF Equipped, Aware, TOTPEnabled, Sound, Row
  <1> HIDE DEF u, s, factor
  <1>4. /\ sessions' \in [Sessions -> Session \cup {NoSession}]
        /\ \A t \in Sessions :
             /\ t # s => sessions'[t] = sessions[t]
             /\ sessions'[t] = NoSession <=> sessions[t] = NoSession
             /\ sessions[t] # NoSession =>
                  sessions'[t].user = sessions[t].user /\ sessions'[t].off = sessions[t].off
        /\ sessions[s] # NoSession => sessions'[s].factor = factor
    <2>1. CASE sessions[s] = NoSession
      BY <1>1, <2>1 DEF IInv, TypeOK
    <2>2. CASE sessions[s] # NoSession
      <3> DEFINE new == [sessions[s] EXCEPT !.pending = FALSE, !.factor = factor]
      <3>1. sessions[s] \in Session
        BY <1>3, <2>2 DEF IInv, TypeOK
      <3>2. /\ new \in Session /\ new.user = sessions[s].user /\ new.off = sessions[s].off
            /\ new.factor = factor
        BY <1>3, <3>1 DEF Session
      <3>3. sessions' = [sessions EXCEPT ![s] = new]
        BY <1>1, <1>3, <2>2 DEF IInv, TypeOK
      <3> HIDE DEF new
      <3> QED  BY <1>3, <2>2, <3>2, <3>3, NoneAssumption DEF IInv, TypeOK
    <2> QED  BY <2>1, <2>2
  <1>5. SessionsOK'
    BY <1>1, <1>4 DEF IInv, SessionsOK, Existing, tables
  <1>6. SecondFactorGiven'
    BY <1>3, <1>4 DEF IInv, SecondFactorGiven, Usable
  <1>7. TouchLogin(u) \in Request
    BY <1>3, TouchLoginOK
  <1>8. /\ req'[h] = TouchLogin(u) /\ begun' = begun
        /\ \A g \in Handlers : g # h => req'[g] = req[g]
        /\ req' \in [Handlers -> Request \cup {Idle}]
    BY <1>1, <1>7 DEF Continue, IInv, TypeOK
  <1>9. RequestsOK'
    <2> SUFFICES ASSUME NEW g \in Handlers PROVE RequestOK(req[g])'
      BY DEF RequestsOK
    <2>1. CASE g = h
      BY <1>1, <1>3, <1>8, <2>1, TouchLoginKeeps DEF tables, counters
    <2>2. CASE g # h
      <3>1. RequestOK(req[g]) /\ req'[g] = req[g]
        BY <1>8, <2>2 DEF IInv, RequestsOK
      <3> QED
        BY <1>1, <1>4, <3>1
           DEF RequestOK, Equipped, Aware, Sound, Existing, tables, counters, history
    <2> QED  BY <2>1, <2>2
  <1>10. \A g \in Handlers : HalfDone(g) => HalfDone(g)' /\ req'[g].user = req[g].user
    BY <1>1, <1>8 DEF HalfDone
  <1>11. TypeOK'
    BY <1>1, <1>4, <1>8 DEF IInv, TypeOK, tables, counters, history, flags
  <1> QED
    BY <1>1, <1>5, <1>6, <1>9, <1>10, <1>11, TablesKept DEF tables, counters, history, flags

\* Sessions that end take nothing with them.
LEMMA EndSessionKeeps ==
    ASSUME IInv, NEW s \in Sessions, EndSession(s)
    PROVE  IInv'
  <1>1. /\ sessions' = [sessions EXCEPT ![s] = NoSession]
        /\ UNCHANGED <<tables, req, begun, counters, history, flags>>
    BY DEF EndSession
  <1>2. /\ sessions' \in [Sessions -> Session \cup {NoSession}]
        /\ \A t \in Sessions : sessions'[t] = NoSession \/ sessions'[t] = sessions[t]
    BY <1>1 DEF IInv, TypeOK
  <1>3. SessionsOK' /\ SecondFactorGiven'
    BY <1>1, <1>2 DEF IInv, SessionsOK, SecondFactorGiven, Usable, Existing, tables
  <1>4. RequestsOK'
    <2> SUFFICES ASSUME NEW g \in Handlers PROVE RequestOK(req[g])'
      BY DEF RequestsOK
    <2>1. RequestOK(req[g]) /\ req'[g] = req[g]
      BY <1>1 DEF IInv, RequestsOK
    <2> QED
      BY <1>1, <1>2, <2>1
         DEF RequestOK, Equipped, Aware, Sound, Existing, tables, counters, history
  <1>5. \A g \in Handlers : HalfDone(g)' = HalfDone(g) /\ req'[g].user = req[g].user
    BY <1>1 DEF HalfDone
  <1>6. TypeOK'
    BY <1>1, <1>2 DEF IInv, TypeOK, tables, counters, history, flags
  <1> QED
    BY <1>1, <1>3, <1>4, <1>5, <1>6, TablesKept DEF tables, counters, history, flags

\* A restart drops requests and sessions; a second write lost with them is noted.
LEMMA RestartKeeps ==
    ASSUME IInv, Restart
    PROVE  IInv'
  <1>1. /\ req' = [h \in Handlers |-> Idle] /\ sessions' = [s \in Sessions |-> NoSession]
        /\ torn' = (torn \/ \E h \in Handlers : HalfDone(h))
        /\ UNCHANGED <<tables, begun, secrets, issued, history, outdated>>
    BY DEF Restart
  <1>2. RequestsOK' /\ SessionsOK' /\ SecondFactorGiven'
    BY <1>1 DEF RequestsOK, RequestOK, SessionsOK, SecondFactorGiven, Usable
  <1>3. restarts' \in 0..MaxRestarts
    BY AccountBounds DEF Restart, IInv, TypeOK
  <1>4. TypeOK'
    BY <1>1, <1>3 DEF IInv, TypeOK, tables, history
  <1> QED  BY <1>1, <1>2, <1>4, TablesKept DEF tables, history

-----------------------------------------------------------------------------
(* Recovery codes *)

\* MarkRecoveryCodeUsed: wherever the code is stored, it is marked from now on.
LEMMA MarkCodeKeeps ==
    ASSUME IInv, NEW h \in Handlers, MarkCode(h)
    PROVE  IInv'
  <1> DEFINE u == req[h].user
             c == req[h].code
  <1>1. /\ req[h].at = "mark"
        /\ codes' = IF codes[u].id = c THEN [codes EXCEPT ![u].used = TRUE] ELSE codes
        /\ spent' = spent \cup {c}
        /\ Goto(h, "clear")
        /\ UNCHANGED <<users, sessions, counters, verified, flags>>
    BY DEF MarkCode
  <1>2. Placed(req[h]) /\ Equipped(req[h]) /\ Aware(req[h])
    BY <1>1, UnderWay
  <1>3. /\ u \in Existing /\ c \in 0..issued /\ c # 0 /\ req[h].op = "mfa"
        /\ \A v \in Users : codes[v].id = c => v = u
    BY <1>1, <1>2, UnderWay DEF Equipped, Placed, Request
  <1>4. c \in 1..issued /\ c \in 1..MaxCodes
    BY <1>3, AccountBounds DEF IInv, TypeOK
  <1>5. u \in Users
    BY <1>3, SoundRows
  <1>6. /\ req' = [req EXCEPT ![h] = req'[h]] /\ begun' = begun
        /\ req'[h] \in Request /\ req'[h].at = "clear" /\ req'[h].op = req[h].op
        /\ req'[h].user = req[h].user /\ req'[h].sess = req[h].sess
        /\ req'[h].base = req[h].base
        /\ req'[h].code = req[h].code /\ req'[h].used = req[h].used
    BY <1>1, GotoRequest
  <1> HIDE DEF u, c
  <1>7. /\ codes' \in [Users -> Codes]
        /\ \A v \in Users :
             /\ codes'[v].id = codes[v].id /\ codes'[v].secret = codes[v].secret
             /\ codes[v].used => codes'[v].used
        /\ codes[u].id = c => codes'[u].used
    <2>1. CASE codes[u].id = c
      <3> DEFINE new == [codes[u] EXCEPT !.used = TRUE]
      <3>1. codes[u] \in Codes
        BY <1>5 DEF IInv, TypeOK
      <3>2. new \in Codes /\ new.id = codes[u].id /\ new.secret = codes[u].secret /\ new.used
        BY <3>1 DEF Codes
      <3>3. codes' = [codes EXCEPT ![u] = new]
        BY <1>1, <2>1
      <3> HIDE DEF new
      <3> QED  BY <1>5, <3>2, <3>3 DEF IInv, TypeOK
    <2>2. CASE codes[u].id # c
      BY <1>1, <2>2 DEF IInv, TypeOK
    <2> QED  BY <2>1, <2>2
  <1>8. TypeOK'
    <2>1. /\ spent' \subseteq 1..MaxCodes
          /\ req' \in [Handlers -> Request \cup {Idle}]
      BY <1>1, <1>4, <1>6 DEF IInv, TypeOK
    <2> QED  BY <1>1, <1>6, <1>7, <2>1 DEF IInv, TypeOK, counters, flags
  <1>9. RequestsOK'
    <2> SUFFICES ASSUME NEW g \in Handlers PROVE RequestOK(req[g])'
      BY DEF RequestsOK
    <2>1. CASE g = h
      <3>1. Placed(req[h])' /\ Careful(req[h])'
        BY <1>3, <1>6 DEF Placed, Careful
      <3>2. Equipped(req[h])' /\ Aware(req[h])'
        BY <1>1, <1>2, <1>3, <1>6 DEF Equipped, Aware, Sound, Existing, counters, u
      <3> QED  BY <1>6, <2>1, <3>1, <3>2 DEF RequestOK
    <2>2. CASE g # h
      <3>1. RequestOK(req[g]) /\ req'[g] = req[g]
        BY <1>6, <2>2 DEF IInv, RequestsOK, TypeOK
      <3> QED
        BY <1>1, <1>7, <3>1 DEF RequestOK, Equipped, Aware, Sound, Existing, counters
    <2> QED  BY <2>1, <2>2
  <1>10. Existing' = Existing /\ EnabledAdministrators' = EnabledAdministrators
    BY <1>1 DEF Existing, EnabledAdministrators
  <1>11. SessionsOK' /\ SecondFactorGiven' /\ OnlyVerifiedSecrets'
    BY <1>1, <1>10
       DEF IInv, SessionsOK, SecondFactorGiven, OnlyVerifiedSecrets, Usable, TOTPEnabled
  <1>12. AdministratorRemains'
    BY <1>1, <1>10 DEF IInv, AdministratorRemains, flags
  <1>13. CodesOK'
    <2>1. /\ \A v \in Users : codes'[v].id \in 0..issued /\ (v \notin Existing => codes'[v].id = 0)
          /\ \A v, w \in Users : codes'[v].id = codes'[w].id /\ codes'[v].id # 0 => v = w
      BY <1>7 DEF IInv, CodesOK
    <2>2. spent' \subseteq 1..issued
      BY <1>1, <1>4 DEF IInv, CodesOK
    <2>3. ASSUME NEW v \in Users, codes'[v].id \in spent'
          PROVE  codes'[v].used
      <3>1. CASE codes[v].id \in spent
        BY <1>7, <3>1 DEF IInv, CodesOK
      <3>2. CASE codes[v].id = c
        BY <1>3, <1>5, <1>7, <3>2
      <3> QED  BY <1>1, <1>7, <2>3, <3>1, <3>2
    <2> QED  BY <1>1, <1>10, <2>1, <2>2, <2>3 DEF CodesOK, counters
  <1>14. CodesMatchEnrolment'
    <2> SUFFICES ASSUME NEW v \in Existing, ~outdated', ~torn',
                        \A g \in Handlers : req'[g].user = v => ~HalfDone(g)'
                 PROVE  /\ codes'[v].id # 0 => codes'[v].secret = InForce(v)
                        /\ InForce(v) # 0 => codes'[v].id # 0
      <3>1. \A v : InForce(v)' = InForce(v)
        BY <1>1 DEF InForce, TOTPEnabled
      <3> QED  BY <1>10, <3>1 DEF CodesMatchEnrolment
    <2>1. \A g \in Handlers : req[g].user = v => ~HalfDone(g)
      BY <1>1, <1>6 DEF IInv, TypeOK, HalfDone
    <2>2. ~outdated /\ ~torn /\ v \in Users
      BY <1>1, SoundRows DEF flags
    <2> QED  BY <1>7, <2>1, <2>2 DEF IInv, CodesMatchEnrolment
  <1> QED
    BY <1>8, <1>9, <1>11, <1>12, <1>13, <1>14 DEF IInv

\* ReplaceRecoveryCodes: a fresh set, for the secret in force, or none when the
\* account has no secret any more.
LEMMA ReplaceCodesKeeps ==
    ASSUME IInv, NEW h \in Handlers, ReplaceCodes(h)
    PROVE  IInv'
  <1> DEFINE u == req[h].user
             fresh == [id |-> issued + 1, used |-> FALSE, secret |-> InForce(u)]
  <1>1. /\ req[h].at = "codes"
        /\ outdated' = (outdated \/ RowChanged(h))
        /\ Finish(h)
        /\ UNCHANGED <<users, sessions, secrets, restarts, history, torn>>
        /\ \/ /\ req[h].op = "disable"
              /\ codes' = [codes EXCEPT ![u] = NoCodes]
              /\ issued' = issued
           \/ /\ issued < MaxCodes
              /\ issued' = issued + 1
              /\ codes' = [codes EXCEPT ![u] = fresh]
    BY DEF ReplaceCodes
  <1>2. req[h] \in Request /\ Placed(req[h]) /\ Equipped(req[h]) /\ Careful(req[h])
    BY <1>1, UnderWay
  <1>3. u \in Existing /\ req[h].base = req[h].row
    BY <1>1, <1>2 DEF Equipped, Careful
  <1>4. u \in Users /\ users[u] \in Row
    BY <1>3, SoundRows
  <1>5. InForce(u) \in 0..MaxSecrets
    BY <1>4, Numbers DEF InForce, Row
  <1>6. /\ issued \in 0..MaxCodes /\ issued \in Nat /\ issued' \in 0..MaxCodes
        /\ issued <= issued' /\ issued' \in Nat
        /\ issued < MaxCodes => issued + 1 \in 0..MaxCodes
    BY <1>1, AccountBounds DEF IInv, TypeOK
  <1>7. ~outdated' => ~outdated /\ users[u] = req[h].base
    BY <1>1 DEF RowChanged, u
  <1>8. NoCodes \in Codes /\ NoCodes.id = 0
    BY Numbers DEF NoCodes, Codes
  <1>9. issued < MaxCodes => /\ fresh \in Codes /\ fresh.id = issued + 1
                             /\ fresh.secret = InForce(u)
    BY <1>5, <1>6 DEF Codes
  <1>10. req[h].op = "disable" => ~TOTPEnabled(req[h].base)
    BY <1>1, <1>2, <1>3 DEF Careful
  <1> HIDE DEF u, fresh
  <1>11. /\ codes' \in [Users -> Codes]
         /\ \A v \in Users : v # u => codes'[v] = codes[v]
         /\ \/ codes'[u].id = 0 /\ issued' = issued /\ (~outdated' => InForce(u) = 0)
            \/ codes'[u].id = issued + 1 /\ issued' = issued + 1 /\ codes'[u].secret = InForce(u)
    <2>1. CASE req[h].op = "disable" /\ codes' = [codes EXCEPT ![u] = NoCodes] /\ issued' = issued
      BY <1>4, <1>7, <1>8, <1>10, <2>1 DEF IInv, TypeOK, InForce
    <2>2. CASE issued < MaxCodes /\ issued' = issued + 1 /\ codes' = [codes EXCEPT ![u] = fresh]
      BY <1>4, <1>9, <2>2 DEF IInv, TypeOK
    <2> QED  BY <1>1, <2>1, <2>2
  <1>12. /\ req'[h] = Idle /\ begun' = begun
         /\ \A g \in Handlers : g # h => req'[g] = req[g]
         /\ req' \in [Handlers -> Request \cup {Idle}]
    BY <1>1 DEF Finish, Continue, IInv, TypeOK
  <1>13. TypeOK'
    <2>1. outdated' \in BOOLEAN
      BY <1>1 DEF IInv, TypeOK, RowChanged
    <2> QED  BY <1>1, <1>6, <1>11, <1>12, <2>1 DEF IInv, TypeOK, history
  <1>14. RequestsOK'
    <2> SUFFICES ASSUME NEW g \in Handlers PROVE RequestOK(req[g])'
      BY DEF RequestsOK
    <2>1. CASE g = h
      BY <1>12, <2>1 DEF RequestOK
    <2>2. CASE g # h
      <3>1. RequestOK(req[g]) /\ req'[g] = req[g]
        BY <1>12, <2>2 DEF IInv, RequestsOK
      <3>2. \A c \in 0..issued : c \in 0..issued' /\ c # issued + 1
        BY <1>6
      <3>3. \A c \in 0..issued : c # 0 =>
              \A v \in Users : codes'[v].id = c => codes[v].id = c
        BY <1>11, <3>2
      <3> QED
        BY <1>1, <3>1, <3>2, <3>3 DEF RequestOK, Equipped, Aware, Sound, Existing, history
    <2> QED  BY <2>1, <2>2
  <1>15. Existing' = Existing /\ EnabledAdministrators' = EnabledAdministrators
    BY <1>1 DEF Existing, EnabledAdministrators
  <1>16. SessionsOK' /\ SecondFactorGiven' /\ OnlyVerifiedSecrets'
    BY <1>1, <1>15
       DEF IInv, SessionsOK, SecondFactorGiven, OnlyVerifiedSecrets, Usable, TOTPEnabled, history
  <1>17. AdministratorRemains'
    BY <1>1, <1>15 DEF IInv, AdministratorRemains
  <1>18. CodesOK'
    <2>1. \A v \in Users : codes[v].id \in 0..issued /\ (v \notin Existing => codes[v].id = 0)
      BY DEF IInv, CodesOK
    <2>2. \A v \in Users : codes'[v].id \in 0..issued' /\ (v \notin Existing => codes'[v].id = 0)
      BY <1>3, <1>6, <1>11, <2>1
    <2>3. \A v, w \in Users : codes'[v].id = codes'[w].id /\ codes'[v].id # 0 => v = w
      BY <1>4, <1>6, <1>11, <2>1 DEF IInv, CodesOK
    <2>4. spent \subseteq 1..issued /\ spent' = spent
      BY <1>1 DEF IInv, CodesOK, history
    <2>5. spent' \subseteq 1..issued'
      BY <1>6, <2>4
    <2>6. issued + 1 \notin spent /\ 0 \notin spent
      BY <1>6, <2>4
    <2>7. ASSUME NEW v \in Users, codes'[v].id \in spent'
          PROVE  codes'[v].used
      <3>1. v # u
        BY <1>11, <2>4, <2>6, <2>7
      <3> QED  BY <1>11, <2>4, <2>7, <3>1 DEF IInv, CodesOK
    <2> QED  BY <1>15, <2>2, <2>3, <2>5, <2>7 DEF CodesOK
  <1>19. CodesMatchEnrolment'
    <2> SUFFICES ASSUME NEW v \in Existing, ~outdated', ~torn',
                        \A g \in Handlers : req'[g].user = v => ~HalfDone(g)'
                 PROVE  /\ codes'[v].id # 0 => codes'[v].secret = InForce(v)
                        /\ InForce(v) # 0 => codes'[v].id # 0
      <3>1. \A v : InForce(v)' = InForce(v)
        BY <1>1 DEF InForce, TOTPEnabled
      <3> QED  BY <1>15, <3>1 DEF CodesMatchEnrolment
    <2>1. CASE v = u
      BY <1>6, <1>11, <2>1
    <2>2. CASE v # u
      <3>1. \A g \in Handlers : req[g].user = v => ~HalfDone(g)
        BY <1>12, <2>2 DEF HalfDone, u
      <3>2. ~outdated /\ ~torn /\ v \in Users
        BY <1>1, <1>7, SoundRows
      <3> QED  BY <1>11, <2>2, <3>1, <3>2 DEF IInv, CodesMatchEnrolment
    <2> QED  BY <2>1, <2>2
  <1> QED
    BY <1>13, <1>14, <1>16, <1>17, <1>18, <1>19 DEF IInv

-----------------------------------------------------------------------------
(* Rows *)

\* A new account leaves what is known of the others as it was.
LEMMA NewAccountKeeps ==
    ASSUME IInv, NEW u \in Users \ Existing, NEW role \in Roles,
           users' = [users EXCEPT ![u] = NewRow(role)],
           TypeOK', RequestsOK',
           UNCHANGED <<codes, sessions, counters, history, flags>>,
           \A g \in Handlers : HalfDone(g) => HalfDone(g)' /\ req'[g].user = req[g].user,
           Existing = {} => role = Admin
    PROVE  IInv'
  <1>1. /\ NewRow(role) # NoRow /\ ~TOTPEnabled(NewRow(role))
        /\ NewRow(role).role = role /\ ~NewRow(role).disabled
    BY NewRows
  <1>2. /\ users'[u] = NewRow(role) /\ u \notin Existing
        /\ \A v \in Users : v # u => users'[v] = users[v]
    BY DEF IInv, TypeOK
  <1>3. /\ Existing' = Existing \cup {u}
        /\ \A v \in Existing : users'[v] = users[v] /\ v \in Users
        /\ EnabledAdministrators \subseteq EnabledAdministrators'
        /\ role = Admin => u \in EnabledAdministrators'
    BY <1>1, <1>2 DEF Existing, EnabledAdministrators
  <1>4. SessionsOK' /\ SecondFactorGiven'
    BY <1>3 DEF IInv, SessionsOK, SecondFactorGiven, Usable
  <1>5. OnlyVerifiedSecrets'
    BY <1>1, <1>2, <1>3 DEF IInv, OnlyVerifiedSecrets, history
  <1>6. CodesOK'
    BY <1>3 DEF IInv, CodesOK, counters, history
  <1>7. AdministratorRemains'
    BY <1>3 DEF IInv, AdministratorRemains, flags
  <1>8. CodesMatchEnrolment'
    <2> SUFFICES ASSUME NEW v \in Existing', ~outdated', ~torn',
                        \A g \in Handlers : req'[g].user = v => ~HalfDone(g)'
                 PROVE  /\ codes[v].id # 0 => codes[v].secret = InForce(v)'
                        /\ InForce(v)' # 0 => codes[v].id # 0
      BY DEF CodesMatchEnrolment
    <2>1. CASE v = u
      <3>1. InForce(v)' = 0
        BY <1>1, <1>2, <2>1 DEF InForce
      <3>2. codes[u].id = 0
        BY <1>2 DEF IInv, CodesOK
      <3> QED  BY <2>1, <3>1, <3>2
    <2>2. CASE v # u
      <3>1. v \in Existing /\ InForce(v)' = InForce(v)
        BY <1>3, <2>2 DEF InForce
      <3>2. \A g \in Handlers : req[g].user = v => ~HalfDone(g)
        OBVIOUS
      <3> QED  BY <3>1, <3>2 DEF IInv, CodesMatchEnrolment, flags
    <2> QED  BY <2>1, <2>2
  <1> QED
    BY <1>4, <1>5, <1>6, <1>7, <1>8 DEF IInv

\* Requests under way are not disturbed by a new account.
LEMMA NewAccountUnnoticed ==
    ASSUME IInv, NEW u \in Users \ Existing, NEW role \in Roles,
           users' = [users EXCEPT ![u] = NewRow(role)],
           UNCHANGED <<codes, sessions, issued, verified>>,
           NEW g \in Handlers, req'[g] = req[g]
    PROVE  RequestOK(req[g])'
  <1>1. NewRow(role) # NoRow
    BY NewRows
  <1>2. \A v \in Existing : v \in Existing' /\ users'[v] = users[v]
    BY <1>1 DEF IInv, TypeOK, Existing
  <1>3. RequestOK(req[g])
    BY DEF IInv, RequestsOK
  <1>4. req[g] # Idle => (req[g].op = "login" => req[g].user \in Existing)
    BY <1>3 DEF RequestOK, Placed, Equipped
  <1> QED  BY <1>2, <1>3, <1>4 DEF RequestOK, Equipped, Aware, Sound

\* userCreate: an administrator is logged in, so accounts exist.
LEMMA CreateUserKeeps ==
    ASSUME IInv, NEW s \in Sessions, NEW u \in Users, NEW role \in Roles,
           CreateUser(s, u, role)
    PROVE  IInv'
  <1>1. /\ u \in Users \ Existing /\ users' = [users EXCEPT ![u] = NewRow(role)]
        /\ UNCHANGED <<codes, sessions, req, begun, counters, history, flags>>
    BY DEF CreateUser
  <1>2. Existing # {}
    BY DEF CreateUser, AsAdmin, Usable, IInv, SessionsOK
  <1>3. users' \in [Users -> Row \cup {NoRow}]
    BY <1>1, NewRows DEF IInv, TypeOK
  <1>4. TypeOK'
    BY <1>1, <1>3 DEF IInv, TypeOK, counters, history, flags
  <1>5. RequestsOK'
    BY <1>1, NewAccountUnnoticed DEF RequestsOK, counters, history
  <1>6. \A g \in Handlers : HalfDone(g)' = HalfDone(g) /\ req'[g].user = req[g].user
    BY <1>1 DEF HalfDone
  <1> QED
    BY <1>1, <1>2, <1>4, <1>5, <1>6, NewAccountKeeps

\* SetupFirstAdministrator: the INSERT, whatever the count said.
LEMMA SetupCreateKeeps ==
    ASSUME IInv, NEW h \in Handlers, SetupCreate(h)
    PROVE  IInv'
  <1>1. /\ req[h].op = "setup" /\ req[h].at = "create"
        /\ UNCHANGED <<codes, sessions, counters, history, flags>>
    BY DEF SetupCreate
  <1>2. PICK u \in Users \ Existing :
          /\ users' = [users EXCEPT ![u] = NewRow(Admin)]
          /\ Continue(h, [req[h] EXCEPT !.at = "session", !.user = u, !.row = NewRow(Admin)])
    BY DEF SetupCreate
  <1>3. req[h] \in Request /\ Placed(req[h]) /\ Equipped(req[h])
    BY <1>1, UnderWay
  <1>4. /\ NewRow(Admin) \in Row /\ NewRow(Admin) # NoRow /\ ~TOTPEnabled(NewRow(Admin))
        /\ Admin \in Roles
    BY NewRows, RolesAssumption
  <1> DEFINE r == [req[h] EXCEPT !.at = "session", !.user = u, !.row = NewRow(Admin)]
  <1>5. /\ r \in Request /\ r.op = "setup" /\ r.at = "session" /\ r.user = u
        /\ r.row = NewRow(Admin) /\ r.code = req[h].code /\ r.used = req[h].used
    BY <1>1, <1>3, <1>4 DEF Request
  <1>6. /\ req'[h] = r /\ begun' = begun
        /\ \A g \in Handlers : g # h => req'[g] = req[g]
        /\ req' \in [Handlers -> Request \cup {Idle}]
    BY <1>2, <1>5 DEF Continue, IInv, TypeOK
  <1> HIDE DEF r
  <1>7. users' \in [Users -> Row \cup {NoRow}] /\ u \in Existing'
    BY <1>2, <1>4 DEF IInv, TypeOK, Existing
  <1>8. TypeOK'
    BY <1>1, <1>6, <1>7 DEF IInv, TypeOK, counters, history, flags
  <1>9. RequestsOK'
    <2> SUFFICES ASSUME NEW g \in Handlers PROVE RequestOK(req[g])'
      BY DEF RequestsOK
    <2>1. CASE g = h
      BY <1>1, <1>3, <1>4, <1>5, <1>6, <1>7, <2>1
         DEF RequestOK, Placed, Equipped, Careful, Aware, Sound, counters
    <2>2. CASE g # h
      BY <1>1, <1>2, <1>4, <1>6, <2>2, NewAccountUnnoticed DEF counters, history
    <2> QED  BY <2>1, <2>2
  <1>10. \A g \in Handlers : HalfDone(g) => HalfDone(g)' /\ req'[g].user = req[g].user
    BY <1>1, <1>6 DEF HalfDone
  <1> QED
    BY <1>1, <1>2, <1>4, <1>8, <1>9, <1>10, NewAccountKeeps

\* UpdateUser, seen from outside: the row, what is noted when it leaves TOTP off,
\* and where the requests are.
PutEffect(h, u, new) ==
    /\ users' = [users EXCEPT ![u] = new]
    /\ sessions' \in [Sessions -> Session \cup {NoSession}]
    /\ \A s \in Sessions :
         /\ sessions'[s] = NoSession <=> sessions[s] = NoSession
         /\ sessions[s] # NoSession =>
              /\ sessions'[s].user = sessions[s].user /\ sessions'[s].factor = sessions[s].factor
              /\ sessions'[s].pending = sessions[s].pending
              /\ sessions[s].off => sessions'[s].off
              /\ ~TOTPEnabled(new) /\ sessions[s].user = u => sessions'[s].off
    /\ req' \in [Handlers -> Request \cup {Idle}]
    /\ req'[h] = IF FollowedByCodes(req[h].op)
                 THEN [req[h] EXCEPT !.at = "codes", !.base = new] ELSE Idle
    /\ \A g \in Handlers : g # h =>
         \/ /\ req'[g] = req[g]
            /\ TOTPEnabled(new) \/ req[g].op # "login" \/ req[g].user # u
         \/ /\ req[g].op = "login"
            /\ req'[g] = [req[g] EXCEPT !.off = TRUE]

\* What UpdateUser leaves in the table, and what its writer knew.
LEMMA PutHasEffect ==
    ASSUME IInv, NEW h \in Handlers, Put(h)
    PROVE  PutEffect(h, req[h].user, req[h].row)
  <1> DEFINE u == req[h].user
             new == req[h].row
             second == IF FollowedByCodes(req[h].op)
                       THEN [req[h] EXCEPT !.at = "codes", !.base = new] ELSE Idle
             reqs == [req EXCEPT ![h] = second]
  <1>1. /\ req[h].at = "put" /\ users' = [users EXCEPT ![u] = new]
        /\ IF TOTPEnabled(new) THEN req' = reqs /\ UNCHANGED sessions ELSE NoteOff(u, reqs)
    BY DEF Put
  <1>2. req[h] \in Request /\ Equipped(req[h])
    BY <1>1, UnderWay
  <1>3. new \in Row
    BY <1>1, <1>2 DEF Equipped, Sound
  <1>4. second \in Request \cup {Idle} /\ second.op # "login"
    <2>1. CASE FollowedByCodes(req[h].op)
      <3>1. [req[h] EXCEPT !.at = "codes", !.base = new] \in Request
        BY <1>2, <1>3 DEF Request
      <3>2. [req[h] EXCEPT !.at = "codes", !.base = new].op = req[h].op
        BY <1>2 DEF Request
      <3> QED  BY <2>1, <3>1, <3>2 DEF FollowedByCodes
    <2>2. CASE ~FollowedByCodes(req[h].op)
      BY <2>2 DEF Idle
    <2> QED  BY <2>1, <2>2
  <1> HIDE DEF u, new, second
  <1>5. /\ reqs \in [Handlers -> Request \cup {Idle}] /\ reqs[h] = second
        /\ \A g \in Handlers : g # h => reqs[g] = req[g]
    BY <1>4 DEF IInv, TypeOK
  <1> HIDE DEF reqs
  <1>6. \A g \in Handlers : reqs[g].op = "login" => [reqs[g] EXCEPT !.off = TRUE] \in Request
    <2> SUFFICES ASSUME NEW g \in Handlers, reqs[g].op = "login"
                 PROVE  [reqs[g] EXCEPT !.off = TRUE] \in Request
      OBVIOUS
    <2>1. reqs[g] # Idle
      BY DEF Idle
    <2>2. reqs[g] \in Request
      BY <1>5, <2>1
    <2> QED  BY <2>2 DEF Request
  <1>7. \A s \in Sessions : sessions[s] # NoSession =>
          /\ sessions[s] \in Session
          /\ [sessions[s] EXCEPT !.off = TRUE] \in Session
          /\ [sessions[s] EXCEPT !.off = TRUE] # NoSession
          /\ [sessions[s] EXCEPT !.off = TRUE].user = sessions[s].user
          /\ [sessions[s] EXCEPT !.off = TRUE].factor = sessions[s].factor
          /\ [sessions[s] EXCEPT !.off = TRUE].pending = sessions[s].pending
          /\ [sessions[s] EXCEPT !.off = TRUE].off
    <2> SUFFICES ASSUME NEW s \in Sessions, sessions[s] \in Session
                 PROVE  /\ [sessions[s] EXCEPT !.off = TRUE] \in Session
                        /\ [sessions[s] EXCEPT !.off = TRUE].user = sessions[s].user
                        /\ [sessions[s] EXCEPT !.off = TRUE].factor = sessions[s].factor
                        /\ [sessions[s] EXCEPT !.off = TRUE].pending = sessions[s].pending
                        /\ [sessions[s] EXCEPT !.off = TRUE].off
      BY NoneAssumption DEF IInv, TypeOK
    <2> QED  BY DEF Session
  <1>8. ASSUME TOTPEnabled(new) PROVE PutEffect(h, u, new)
    <2>1. req' = reqs /\ sessions' = sessions
      BY <1>1, <1>8
    <2> QED  BY <1>1, <1>5, <1>8, <2>1 DEF PutEffect, second, IInv, TypeOK
  <1>9. ASSUME ~TOTPEnabled(new) PROVE PutEffect(h, u, new)
    <2>1. /\ req' = [g \in Handlers |-> IF reqs[g].op = "login" /\ reqs[g].user = u
                                        THEN [reqs[g] EXCEPT !.off = TRUE] ELSE reqs[g]]
          /\ sessions' = [s \in Sessions |-> IF sessions[s] # NoSession /\ sessions[s].user = u
                            THEN [sessions[s] EXCEPT !.off = TRUE] ELSE sessions[s]]
      BY <1>1, <1>9 DEF NoteOff
    <2>2. req' \in [Handlers -> Request \cup {Idle}]
      BY <1>5, <1>6, <2>1
    <2>3. req'[h] = second
      BY <1>4, <1>5, <2>1
    <2>4. \A g \in Handlers : g # h =>
            \/ /\ req'[g] = req[g]
               /\ TOTPEnabled(new) \/ req[g].op # "login" \/ req[g].user # u
            \/ /\ req[g].op = "login"
               /\ req'[g] = [req[g] EXCEPT !.off = TRUE]
      BY <1>5, <2>1
    <2>5. /\ sessions' \in [Sessions -> Session \cup {NoSession}]
          /\ \A s \in Sessions :
               /\ sessions'[s] = NoSession <=> sessions[s] = NoSession
               /\ sessions[s] # NoSession =>
                    /\ sessions'[s].user = sessions[s].user
                    /\ sessions'[s].factor = sessions[s].factor
                    /\ sessions'[s].pending = sessions[s].pending
                    /\ sessions[s].off => sessions'[s].off
                    /\ ~TOTPEnabled(new) /\ sessions[s].user = u => sessions'[s].off
      BY <1>7, <2>1 DEF IInv, TypeOK
    <2>6. /\ users' = [users EXCEPT ![u] = new]
          /\ req'[h] = IF FollowedByCodes(req[h].op)
                       THEN [req[h] EXCEPT !.at = "codes", !.base = new] ELSE Idle
      BY <1>1, <2>3 DEF second
    <2> QED  BY <2>2, <2>4, <2>5, <2>6, Zenon DEF PutEffect
  <1> QED  BY <1>8, <1>9 DEF u, new

\* Requests after an UpdateUser: a login of the account knows if TOTP is off now,
\* and a request that goes on to the codes holds the row it has written.
LEMMA PutRequestsKept ==
    ASSUME IInv, NEW h \in Handlers, Put(h), NEW u, NEW new, u = req[h].user, new = req[h].row
    PROVE  RequestsOK'
  <1>1. PutEffect(h, u, new) /\ UNCHANGED <<codes, counters, history>> /\ req[h].at = "put"
    BY PutHasEffect DEF Put
  <1>2. req[h] \in Request /\ Placed(req[h]) /\ Equipped(req[h]) /\ Careful(req[h])
    BY <1>1, UnderWay
  <1>3. u \in Existing /\ Sound(new)
    BY <1>1, <1>2 DEF Equipped
  <1>4. users'[u] = new /\ new # NoRow /\ \A v \in Users : v # u => users'[v] = users[v]
    BY <1>1, <1>3, SoundRows, NoneAssumption DEF PutEffect, IInv, TypeOK, Sound
  <1>5. Existing' = Existing
    BY <1>3, <1>4 DEF Existing
  <1>6. issued' = issued /\ verified' = verified
    BY <1>1 DEF counters, history
  <1> SUFFICES ASSUME NEW g \in Handlers PROVE RequestOK(req[g])'
    BY DEF RequestsOK
  <1>7. CASE g = h /\ FollowedByCodes(req[h].op)
    <2> DEFINE r == [req[h] EXCEPT !.at = "codes", !.base = new]
    <2>1. /\ r \in Request /\ r.op = req[h].op /\ r.at = "codes" /\ r.user = u /\ r.base = new
          /\ r.row = new /\ r.code = req[h].code /\ r.used = req[h].used
      BY <1>2, <1>3 DEF Request, Sound
    <2>2. req'[g] = r
      BY <1>1, <1>7 DEF PutEffect
    <2> HIDE DEF r
    <2>3. Placed(req[g])' /\ Careful(req[g])' /\ req[h].op # "mfa"
      BY <1>1, <1>2, <1>7, <2>1, <2>2 DEF Placed, Careful, FollowedByCodes
    <2>4. Equipped(req[g])' /\ Aware(req[g])'
      BY <1>2, <1>3, <1>5, <1>6, <1>7, <2>1, <2>2, <2>3
         DEF Equipped, Aware, Sound, FollowedByCodes
    <2> QED  BY <2>1, <2>2, <2>3, <2>4 DEF RequestOK
  <1>8. CASE g = h /\ ~FollowedByCodes(req[h].op)
    BY <1>1, <1>8 DEF PutEffect, RequestOK
  <1>9. CASE g # h /\ req[g] = Idle
    <2>1. req'[g] = Idle
      BY <1>1, <1>9 DEF PutEffect, Idle
    <2> QED  BY <2>1 DEF RequestOK
  <1>10. CASE g # h /\ req[g] # Idle
    <2>1. /\ req[g] \in Request /\ Placed(req[g]) /\ Equipped(req[g]) /\ Careful(req[g])
          /\ Aware(req[g])
      BY <1>10 DEF IInv, RequestsOK, RequestOK
    <2>2. CASE /\ req'[g] = req[g]
               /\ TOTPEnabled(new) \/ req[g].op # "login" \/ req[g].user # u
      <3>1. Equipped(req[g])'
        BY <1>1, <1>5, <1>6, <2>1, <2>2 DEF Equipped, Sound
      <3>2. req[g].op = "login" => req[g].user \in Users
        BY <2>1 DEF Placed, Equipped, Existing
      <3>3. req[g].op = "mfa" => req[g].sess \in Sessions
        BY <2>1 DEF Equipped
      <3>4. Aware(req[g])'
        BY <1>1, <1>4, <2>1, <2>2, <3>2, <3>3 DEF Aware, PutEffect
      <3> QED  BY <2>1, <2>2, <3>1, <3>4 DEF RequestOK
    <2>3. CASE req[g].op = "login" /\ req'[g] = [req[g] EXCEPT !.off = TRUE]
      <3>1. /\ req'[g] \in Request /\ req'[g].op = "login" /\ req'[g].off
            /\ req'[g].at = req[g].at /\ req'[g].user = req[g].user /\ req'[g].row = req[g].row
            /\ req'[g].code = req[g].code /\ req'[g].used = req[g].used
        BY <2>1, <2>3 DEF Request
      <3>2. req[g].at = "session"
        BY <2>1, <2>3 DEF Placed
      <3>3. Placed(req[g])' /\ Careful(req[g])' /\ Aware(req[g])'
        BY <3>1, <3>2 DEF Placed, Careful, Aware
      <3>4. Equipped(req[g])'
        BY <1>5, <1>6, <2>1, <3>1, <3>2 DEF Equipped, Sound
      <3> QED  BY <3>1, <3>3, <3>4 DEF RequestOK
    <2> QED  BY <1>1, <1>10, <2>2, <2>3 DEF PutEffect
  <1> QED  BY <1>7, <1>8, <1>9, <1>10

\* UpdateUser keeps the invariant: what it rests on is either still true, or the
\* write is noted as outdated.
LEMMA PutKeeps ==
    ASSUME IInv, NEW h \in Handlers, Put(h)
    PROVE  IInv'
  <1> DEFINE u == req[h].user
             new == req[h].row
  <1>1. /\ req[h].at = "put" /\ PutEffect(h, u, new)
        /\ outdated' = (outdated \/ RowChanged(h)
                           \/ (req[h].n # 0 /\ req[h].n # CountAdministrators))
        /\ UNCHANGED <<codes, begun, counters, history, torn>>
    BY PutHasEffect DEF Put
  <1>2. req[h] \in Request /\ Placed(req[h]) /\ Equipped(req[h]) /\ Careful(req[h])
    BY <1>1, UnderWay
  <1>3. u \in Existing /\ Sound(new)
    BY <1>1, <1>2 DEF Equipped
  <1>4. RequestsOK'
    BY PutRequestsKept
  <1>5. ~outdated' => /\ ~outdated /\ users[u] = req[h].base
                      /\ req[h].n # 0 => req[h].n = CountAdministrators
    BY <1>1 DEF RowChanged
  <1>6. /\ (InService(req[h].base) => InService(new)) \/ req[h].n > 1
        /\ ~FollowedByCodes(req[h].op) =>
             new.secret = req[h].base.secret /\ new.confirmed = req[h].base.confirmed
    BY <1>1, <1>2 DEF Careful
  <1>7. req'[h] = IF FollowedByCodes(req[h].op)
                  THEN [req[h] EXCEPT !.at = "codes", !.base = new] ELSE Idle
    BY <1>1 DEF PutEffect
  <1>8. \A g \in Handlers : HalfDone(g) => HalfDone(g)' /\ req'[g].user = req[g].user
    <2> SUFFICES ASSUME NEW g \in Handlers, HalfDone(g)
                 PROVE  HalfDone(g)' /\ req'[g].user = req[g].user
      OBVIOUS
    <2>1. g # h /\ req[g].op # "login"
      BY <1>1 DEF HalfDone, FollowedByCodes
    <2> QED  BY <1>1, <2>1 DEF PutEffect, HalfDone
  <1>9. FollowedByCodes(req[h].op) => HalfDone(h)' /\ req'[h].user = u
    <2> SUFFICES ASSUME FollowedByCodes(req[h].op) PROVE HalfDone(h)' /\ req'[h].user = u
      OBVIOUS
    <2>1. req'[h] = [req[h] EXCEPT !.at = "codes", !.base = new]
      BY <1>7
    <2> QED  BY <1>2, <2>1 DEF HalfDone, FollowedByCodes, Request
  <1> HIDE DEF u, new
  <1>10. /\ users'[u] = new /\ new \in Row /\ new # NoRow /\ u \in Users
         /\ \A v \in Users : v # u => users'[v] = users[v]
         /\ users' \in [Users -> Row \cup {NoRow}]
    BY <1>1, <1>3, SoundRows, NoneAssumption DEF PutEffect, IInv, TypeOK, Sound
  <1>11. Existing' = Existing
    BY <1>3, <1>10 DEF Existing
  <1>12. TypeOK'
    <2>1. outdated' \in BOOLEAN
      BY <1>1 DEF IInv, TypeOK, RowChanged
    <2> QED  BY <1>1, <1>10, <2>1 DEF PutEffect, IInv, TypeOK, counters, history
  <1>13. SessionsOK' /\ SecondFactorGiven'
    <2>1. SessionsOK'
      BY <1>1, <1>10, <1>11 DEF PutEffect, IInv, SessionsOK, Existing
    <2>2. SecondFactorGiven'
      BY <1>1 DEF PutEffect, IInv, SecondFactorGiven, Usable
    <2> QED  BY <2>1, <2>2
  <1>14. OnlyVerifiedSecrets'
    BY <1>1, <1>3, <1>10, <1>11 DEF IInv, OnlyVerifiedSecrets, Sound, history, Existing
  <1>15. CodesOK'
    BY <1>1, <1>11 DEF IInv, CodesOK, counters, history
  <1>16. AdministratorRemains'
    <2> SUFFICES ASSUME ~outdated' PROVE EnabledAdministrators' # {}
      BY DEF AdministratorRemains
    <2>1. \A v \in EnabledAdministrators : v # u => v \in EnabledAdministrators'
      BY <1>10, <1>11 DEF EnabledAdministrators, Existing
    <2>2. CASE InService(req[h].base) => InService(new)
      <3>1. PICK v \in EnabledAdministrators : TRUE
        BY <1>3, <1>5 DEF IInv, AdministratorRemains
      <3>2. v = u => v \in EnabledAdministrators'
        BY <1>3, <1>5, <1>10, <1>11, <2>2, <3>1 DEF EnabledAdministrators, InService
      <3> QED  BY <2>1, <3>1, <3>2
    <2>3. CASE req[h].n > 1
      <3>1. req[h].n = CountAdministrators
        BY <1>2, <1>5, <2>3 DEF Request
      <3>2. PICK v \in EnabledAdministrators : v # u
        BY <2>3, <3>1, Counts
      <3> QED  BY <2>1, <3>2
    <2> QED  BY <1>6, <2>2, <2>3
  <1>17. CodesMatchEnrolment'
    <2> SUFFICES ASSUME NEW v \in Existing, ~outdated', ~torn',
                        \A g \in Handlers : req'[g].user = v => ~HalfDone(g)'
                 PROVE  /\ codes[v].id # 0 => codes[v].secret = InForce(v)'
                        /\ InForce(v)' # 0 => codes[v].id # 0
      BY <1>1, <1>11 DEF CodesMatchEnrolment
    <2>1. \A g \in Handlers : req[g].user = v => ~HalfDone(g)
      BY <1>8
    <2>2. InForce(v)' = InForce(v)
      <3>1. CASE v = u
        <4>1. ~FollowedByCodes(req[h].op)
          BY <1>9, <3>1
        <4>2. new.secret = users[u].secret /\ new.confirmed = users[u].confirmed
          BY <1>5, <1>6, <4>1
        <4> QED  BY <1>10, <3>1, <4>2 DEF InForce, TOTPEnabled
      <3>2. CASE v # u
        BY <1>10, <3>2 DEF InForce, Existing
      <3> QED  BY <3>1, <3>2
    <2>3. ~outdated /\ ~torn
      BY <1>1
    <2> QED  BY <2>1, <2>2, <2>3 DEF IInv, CodesMatchEnrolment
  <1> QED
    BY <1>4, <1>12, <1>13, <1>14, <1>15, <1>16, <1>17 DEF IInv

-----------------------------------------------------------------------------
(* The theorems *)

\* Every request, session and restart keeps the invariant.
LEMMA NextIInv == IInv /\ [Next]_vars => IInv'
  <1> SUFFICES ASSUME IInv, [Next]_vars PROVE IInv'
    OBVIOUS
  <1>1. ASSUME NEW h \in Handlers,
               \/ SetupCheck(h) \/ SetupCount(h) \/ SetupCreate(h)
               \/ TouchGet(h) \/ ListCodes(h) \/ MarkCode(h) \/ ClearMFA(h)
               \/ PatchCount(h) \/ Put(h) \/ ReplaceCodes(h) \/ Abandon(h)
        PROVE  IInv'
    BY <1>1, SetupCheckKeeps, SetupCountKeeps, SetupCreateKeeps, TouchGetKeeps, ListCodesKeeps,
       MarkCodeKeeps, ClearMFAKeeps, PatchCountKeeps, PutKeeps, ReplaceCodesKeeps, AbandonKeeps
  <1>2. ASSUME NEW h \in Handlers, NEW u \in Users, LoginRead(h, u)
        PROVE  IInv'
    BY <1>2, LoginReadKeeps
  <1>3. ASSUME NEW h \in Handlers, NEW s \in Sessions,
               PutSession(h, s) \/ TouchRead(h, s) \/ MFARead(h, s)
        PROVE  IInv'
    BY <1>3, PutSessionKeeps, TouchReadKeeps, MFAReadKeeps
  <1>4. ASSUME NEW h \in Handlers, NEW s \in Sessions, NEW u \in Users,
               \/ \E p \in UserPatch : PatchGet(h, s, u, p)
               \/ BeginGet(h, s, u) \/ DisableGet(h, s, u) \/ RotateGet(h, s, u)
               \/ \E k \in 1..secrets : ConfirmGet(h, s, u, k)
        PROVE  IInv'
    BY <1>4, PatchGetKeeps, BeginGetKeeps, DisableGetKeeps, RotateGetKeeps, ConfirmGetKeeps
  <1>5. ASSUME NEW s \in Sessions,
               EndSession(s) \/ \E u \in Users, role \in Roles : CreateUser(s, u, role)
        PROVE  IInv'
    BY <1>5, EndSessionKeeps, CreateUserKeeps
  <1>6. CASE Restart
    BY <1>6, RestartKeeps
  <1>7. CASE UNCHANGED vars
    <2>1. /\ UNCHANGED <<tables, sessions, req, begun, secrets, issued, restarts>>
          /\ UNCHANGED <<verified, spent, outdated, torn>>
      BY <1>7 DEF vars, counters, history, flags
    <2>2. TypeOK' /\ SessionsOK' /\ SecondFactorGiven'
      BY <2>1 DEF IInv, TypeOK, SessionsOK, SecondFactorGiven, Usable, Existing, tables
    <2>3. RequestsOK'
      BY <2>1 DEF IInv, RequestsOK, RequestOK, Equipped, Aware, Sound, Existing, tables
    <2>4. \A g \in Handlers : HalfDone(g)' = HalfDone(g)
      BY <2>1 DEF HalfDone
    <2> QED  BY <2>1, <2>2, <2>3, <2>4, TablesKept
  <1> QED  BY <1>1, <1>2, <1>3, <1>4, <1>5, <1>6, <1>7 DEF Next

\* The strengthened invariant: what requests, sessions, codes and rows rely on
\* of each other between two statements (auth/accounts.go, store/users.go, webui).
THEOREM InvariantHolds == Spec => []IInv
  BY InitIInv, NextIInv, PTL DEF Spec

\* Tables, sessions and requests stay well-formed: a role, a secret or a set of
\* codes that no operation could produce is never stored.
THEOREM AccountsTyped == Spec => []TypeOK
  <1>1. IInv => TypeOK
    BY DEF IInv
  <1> QED  BY <1>1, InvariantHolds, PTL

\* The last administrator is neither demoted nor disabled (Accounts.Patch), unless
\* some write rested on a row or a count that had changed since it was read.
THEOREM AdministratorNotLost == Spec => []AdministratorRemains
  <1>1. IInv => AdministratorRemains
    BY DEF IInv
  <1> QED  BY <1>1, InvariantHolds, PTL

\* A recovery code that has let someone in is refused from then on (ConsumeMFA),
\* without a proviso: its mark stays as long as the code is stored, stale rows and
\* a crash between two writes included, and no later set brings it back.
THEOREM CodesSpentOnce == Spec => []CodeUsedOnce
  <1>1. IInv => CodeUsedOnce
    BY DEF IInv, RequestsOK, RequestOK, Equipped, CodeUsedOnce, Idle
  <1> QED  BY <1>1, InvariantHolds, PTL

\* Recovery codes belong to the secret in force (ConfirmTOTP, DisableTOTP), also
\* unless a request died between its two writes.
THEOREM CodesFollowEnrolment == Spec => []CodesMatchEnrolment
  <1>1. IInv => CodesMatchEnrolment
    BY DEF IInv
  <1> QED  BY <1>1, InvariantHolds, PTL

\* Only a verified secret is ever asked for (ConfirmTOTP), whatever stale rows are
\* written back.
THEOREM SecretsVerified == Spec => []OnlyVerifiedSecrets
  <1>1. IInv => OnlyVerifiedSecrets
    BY DEF IInv
  <1> QED  BY <1>1, InvariantHolds, PTL

\* No session of an account with TOTP is usable without a second factor (postLogin,
\* postMFA, clearMFA), however logins, enrolments and logouts interleave.
THEOREM SecondFactorEnforced == Spec => []SecondFactorGiven
  <1>1. IInv => SecondFactorGiven
    BY DEF IInv
  <1> QED  BY <1>1, InvariantHolds, PTL
=============================================================================
