# TransitForge: TLA+ models, checks and proofs

TransitForge is a controller (REST API over SQLite) and an agent per edge node.
The agent fetches the desired state of its node every 10 s and makes the host
match it: WireGuard interfaces, managed iptables chains, the managed section of
`haproxy.cfg`. When WireGuard fails it moves traffic to an SSH tunnel overlay
("failback" in this repository) and moves it back only when an operator asks.

This directory holds models of the parts of that system in which order,
concurrency and failure matter, TLC runs on small instances, and TLAPS proofs
for every instance. Paths below are relative to the repository; line numbers
are in `PROJECT.json` ("map").

## 1. Inventory

| Part | State it keeps | Operations | What is hard | What makes it correct |
|---|---|---|---|---|
| Failover state machine (`internal/failover/machine.go`, `internal/health`) | per backend: mode, consecutive failures | `Step`, `PrimaryFailed`, `FallbackHealthy` | edges of the verdicts; paths through `DEGRADED` | only documented transitions; no cutover before the threshold |
| Failover controller (`controller.go`, `state.go`, `lock.go`) | `transport-state.json`, flock, in-memory copy `prev` | `RunOnce`, `cutover` | several backends in a cycle, a cutover that fails half-way, kills, lost saves, two processes | no lost update; rules and committed state agree; eventual failover |
| Agent loop (`internal/agent`) | node id, readiness | `tick`: fetch, `RunOnce`, report | a report after a failed save; stale desired state | part of the above |
| Operator request (`api.failback`, `failback_intents`) | intent rows | insert, list in desired state | the request outlives the transition it asked for | one return per request; requests are served |
| Reconcile engine (`internal/engine`, `internal/reconcile`) | none of its own | Discover, Diff, apply, verify, rollback | any command may fail; rollback may fail; kill half-way | transaction semantics; convergence |
| Firewall manager (`internal/firewall`) | three chains; `lastAdd`, `lastDel`, snapshot | Apply, Rollback | records that outlive a transaction; only one chain is compared | one destination per mapping; exact rules |
| HAProxy manager (`internal/haproxy`) | `haproxy.cfg`, `lastBackup` | Apply, reload, Rollback | file and running process differ; stale backup | as above |
| WireGuard manager (`internal/wireguard`) | `createdIfaces` | Apply, Delete, RollbackCreate | half-configured interface | rollback removes only what it created |
| SSH tunnel manager (`internal/sshtun`) | none | Discover, Apply (start a unit) | - | - |
| Host reload watcher (`scripts/haproxy-reload-on-change.sh`, systemd path unit) | last-good file, recorded hash, flock | one pass of the script | writes between any two commands; restores that trigger new passes; kills | HAProxy runs the live file when at rest |
| Inventory API and store (`internal/api`, `internal/store`) | SQLite tables | create, patch, delete, lookups by name, desired state | read-merge-write without transaction; names that move between backends; a desired state of several queries | fields a patch omits stay; references lead where the operator sent them; what an agent gets can be applied |
| Accounts, MFA, sessions (`auth/accounts.go`, `store/users.go`, `webui`) | users, recovery codes, sessions in memory | setup, login, MFA, patch, TOTP enrolment, rotation | check-then-write; whole rows written back; two writes per request | an administrator remains; codes are used once; the second factor is given |
| Start-up, migrations, tokens (`cmd/controller`, `store/migrate.go`, `auth/auth.go`, `api/server.go`) | schema, token rows, token file | migrate, bootstrap, authn, mint, revoke | kills between file and row, two processes, revocation | full schema; the file works; revoked is revoked; it comes up |
| Rate limiter (`api/ratelimit.go`) | a bucket per client address | `allow` | clock read before the mutex | admissions bounded by burst and rate |
| Status reports and pages (`agent.tick`, `putActualState`, `webui/views.go`, `webui/pages.go`) | `agent_status`, the open page | report, node card, plan, Failback button | lost, late, overtaking and incomplete reports | trouble and fallback become visible; the way back is offered |
| Config, logging, metrics, command runner, translation, CLI output | - | - | - | - |

Interaction: the agent polls the controller (`GET desired-state`, `POST
actual-state`); Web UI and CLI are clients of the same API, the Web UI inside
the controller's process; `RunOnce` calls the engine once per cycle with
the stored overlays and once more for each cutover; the engine calls its
managers in a fixed order; several agent processes may share one state
directory and meet only at the flock; the reload watcher meets the agent only
through the file it renames into place.

The hazards in `PROJECT.json` list where each of these bites, line by line.

## 2. Modules

`TransportMachine` - pure. The verdicts of `health.PrimaryFailed` and
`FallbackHealthy` over a snapshot, and `failover.Step` with one operator per
state. A `TransportState` is cut down to the mode and the failure counter;
reasons, times and event texts are dropped.

`TransportPolicy` - abstract. What the failover subsystem promises from
outside: a commit moves each backend along at most one edge of the state graph,
and `WG_PRIMARY` is entered again only on request or because a reboot lost
`/run`.

`Failover` - the cycle of one edge host, as in `agent.tick` and
`Controller.RunOnce`. One action per step between which something else can
happen: `Fetch`, `Acquire` (with `Load`), `Reconcile` (with the stored overlays),
`Skip`/`Evaluate` per backend, `Cutover`, `SaveState`, `Report`; next to each
the way it fails (`LockTimeout`, `AcquireFails`, `ReconcileFails`, `ProbeFails`,
`CutoverRefused`, `CutoverFails`, `SaveFails`, `ReportFails`), and `Crash`,
`Reboot`, `OperatorFailback`. `mem`, `prev` and `alias` model `file`, the shallow
copy `prev := *file` and whether both still share one array. The engine is one
step here: it establishes the destinations it was asked for, or, when it fails
or is killed, leaves any.
`badRun`, `well`, `cuts`, `settled` and `forwards` are history variables for the
properties.

`MCFailover` - health snapshots and policies for the runs.

`FailoverProofs`, and a module `...Proofs` for each of the components below - the
proofs (section 5).

`Engine` - one agent's `Engine.Reconcile`, at the granularity of commands.
Of a chain the model keeps, for each mapping, the sequence of the addresses its
rules lead to; the order among rules of different mappings, which match different
traffic, is left out. `Run` gives the chains after each prefix of a list of
commands. `Begin` discovers and diffs,
`ApplyTunnel`, `WriteHaproxy`, `ReloadHaproxy`, `PrepareFirewall` and
`ApplyRule` carry out the plan in the code's order, `Verify` diffs again,
`UndoHaproxy`, `UndoFirewall`/`RestoreSnapshot` and `UndoTunnels` are the
rollback. Every action has a failing twin which leaves any prefix of its
commands done; `Crash` and `Reboot` strike anywhere. `lastAdd`, `lastDel`,
`snapshot`, `lastBackup` and `created` are the managers' memory, with exactly
the resets the code has. With an external reload the host's watcher is another
actor of which nothing is relied on: it may load the file as it is at any time, or
not (`WatcherReload`), or put an earlier one back (`WatcherRestores`, a fault);
what it does in detail is `HaproxyReload`.

`HaproxyReload` - the script, one action per command that reads or writes
shared files, run by the path unit and by hand. Agents may write the file, and a
pass may be cut off, at any position of the script. The history variable `gap`
notes the one thing the script can lose track of: a write, or its own end, between
the re-hash and the record of the reload. It closes with the next pass that records
one undisturbed.

`Accounts` (`MCAccounts`) - the users table, the recovery codes and the sessions.
The store has one connection, so one SQL statement is one action; a request
(`Request`) is a short program of statements (`at`) that carries the row it read
(`base`) and the one it will write (`row`). `Put` is `UpdateUser` for all of them.
`outdated` notes that a row was written back, or an administrator taken out of
service, on a read which no longer held, `torn` that a request died between its two
writes: `AdministratorRemains` and `CodesMatchEnrolment`, which the code guarantees
only up to these, say so in their statement; the others hold without condition.
`spent` are the codes that have let someone in, and a request's `used` notes that
the code it was let on with was one of them when the codes were listed.

`RateLimiter` - the token bucket in integer units, with
clock values that may reach the mutex in another order; `Controller` extends it.

`Controller` - one or more controller processes on one data directory: `Start`,
`Migrate`, `HasTokenName`, `StatFile`, `ReadFile`, `WriteFile`,
`InsertBootstrap`, `Listen` are `run()` step by step; `Arrive`, `Limit`,
`Authenticate` and the handlers are the way of a request through `authn`. Only
`Mutating` routes pass the limiter: reads do not, and neither do the account
routes that `api/server.go:80-84` registers without it. `Kill` may cut `WriteFile`
in the middle.

`Inventory` (`MCInventory`) - the tables, the requests on them and `DesiredState`
query by query. A request is `Create` in one statement, or a lookup
(`Resolve`, the CLI's own lists) followed by `Insert` or an update. `stated` is what the
callers have said, field by field; forms and flags are sets of patches
(`MappingForm`, `MappingToggle`, ...), since a form posts every field and a toggle
one. An SNI route has one rule, which stands for its default rule or for any other:
`SniFormText` says what the edit form shows for either. `outdated` means the same
as in `Accounts`.

`Monitoring` - what the operator sees. Extends `TransportPolicy` for the host's
transport states; a cycle moves them along the edges `Failover` was shown to keep
to, a failed cutover may put on record what was decided for other backends
(`Leaked`) and reports nothing. A cycle's result becomes a report, the report travels (`net`), is stored
(`PutActualState`), and pages are built from it (`ShowNode`, `ShowPlan`), from
which the operator asks for Failback (`NodeFailback`).

Operators whose comment says "Mutant" are deliberately wrong variants of the
definition after them. They show that a property can fail; no specification
uses them.

## 3. Runs

All runs are `tlc -config X.cfg M`.

| Run | Instance | What it shows |
|---|---|---|
| `failover_backends` | 1 agent; 4 backends: two with both tunnels and automatic failback (one with an address of its own), one with only SSH, one manual; a request per backend; no faults; 2.5 M states | `RouteMatchesState`, `FailoverOnlyWhereAllowed`, `FailedCutoverKeepsOwnEntry`, and that `Failover` implements `TransportPolicy` |
| `failover_agents` | a live and a dry-run agent; 1 backend; six primary and three fallback snapshots on both sides of each condition; threshold 2; a request; one fault anywhere | `NoLostUpdate`, `ThresholdRespected`, `RequestServed` |
| `failover_outage` | 1 agent, 2 backends, WireGuard down for good from any point, 2 faults | `EventuallyOnSSH` |
| `engine_faults` | 2 mappings, 2 addresses, 1 route set, 1 interface; 3 changes of the desired state, 2 faults; 2.65 M states | `OneDestination`, `FaultFreeIsExact`, `UndoRestores`, `InterfacesKept` |
| `engine_converges` | 1 mapping, external reload, 3 changes, 2 faults | `EventuallyConverged`: the rules, the interfaces and the routes on file, with no help from the watcher |
| `reload_passes` | path unit and manual pass; 3 valid and 1 invalid content; 4 writes, 1 manual start, 2 faults, all at any position | `IdleIsSynced`, `ComesToRest` |
| `accounts` | 2 accounts, 2 concurrent requests of 4 in all, 2 sessions, a restart; a fresh installation and one in use | `AdministratorRemains`, `CodeUsedOnce`, `CodesMatchEnrolment`, `OnlyVerifiedSecrets`, `SecondFactorGiven` |
| `controller` | 2 processes, 2 scripts, 2 token names, 1 request at a time, a bucket of 1, 2 faults | `ServesFullSchema`, `FileOpensTheDoor`, `RevokedNeverReturns`, `EventuallyServes` |
| `controller_limiter` | 1 process, 2 requests of one client at a time, 4 ticks, a bucket of 1, a kill | `AdmissionBounded`, with requests that reach the mutex in the other order than they read the clock |
| `inventory` | 2 nodes, backends, mappings, names and ports, 1 tunnel, SNI route and foreign node; 3 requests, 2 at a time, next to a desired state being read | `OmittedFieldsKept`, `SniLeadsWhereSaved`, `RulesHaveBackends` |
| `monitoring` | 2 backends, one of which may fail; 2 desired states, 2 changes, 1 fault | `OthersLeftAlone`, `TroubleShown`, `FallbackVisible`, `PlanSettles` |

Bounds. Two backends suffice for every effect one backend's cutover has on
another; the third and fourth only add the other shapes of tunnels and policy.
Two agents suffice for a lost update. A threshold of 2 is the smallest at which
resetting the counter matters. Two faults reach "a rollback of a transaction
that follows a failed or killed one". Three changes reach a transaction whose
managers remember two earlier ones. Four writes reach "write, restore, write
back, write". `MaxFailures` caps the counter at or above the threshold; the
counter only grows beyond it where automatic failback is off. Two requests at a
time give every race of a read with a write; the third and fourth request
prepare the state they race on (an enrolment, a rename). Two administrators are
the smallest number of which the last can be lost. Two processes and two kills
reach "killed between file and row, then overtaken by another start". In
`monitoring` two changes are a failover to SSH, or a loss and the return from it;
one fault is a report that arrives after its successor, or an agent that is
stopped while its last report is under way; a second, healthy backend is there
because the node's card shows the worst of them. With one failing backend a failed
cutover has nobody else's entry to commit; `MonitoringBoth.cfg` lets both fail (one
change, one fault) and passes with `FallbackVisible`.

Deadlock is checked except in `HaproxyReload`, where the script really ends and
nothing need happen after the last write, and in `Accounts` and `Inventory`,
where nothing need happen after the last request (and where, in `Accounts`, the
loss of the last administrator is a state without successors).

### What the documents say and the code does not

One run refutes a quoted sentence, without any fault:

| Run | Sentence | What happens |
|---|---|---|
| `finding_cutover_reverts` | docs/FAILOVER.md:28 "rewrite DNAT destinations ... -> verify -> commit state" | `cutover` starts from the fetched state, so the second backend's cutover takes the first one's rules back to WireGuard, and SSH is committed for both |

The effect is transient: the next cycle's reconcile restores the SSH
overlay, which is why `EventuallyOnSSH` holds all the same.

More such statements are in the modules; the configurations named show that TLC
refutes each of them:

| Definition (module and configuration) | Sentence | What happens |
|---|---|---|
| `RolledBackIsBefore` (`Engine`, `FindingNotRolledBack.cfg`) | docs/OPERATIONS.md:67 "Apply is transactional per reconcile" | one failed verification: stale records and a stale backup are replayed, and the result says rolled back |
| `NoReloadLoop` (`HaproxyReload`, `FindingReloadLoop.cfg`) | scripts/smoke-test-restore.sh:2 "without a reload loop" | `cp` to last-good follows the hash that confirms the file; an invalid file renamed into place in between is last-good, and restoring it triggers the next pass, for ever |
| `EachCodeOnce` (`MCAccounts`, `FindingCodeTwice.cfg`) | internal/webui/i18n/en.json:302 "Each code can be used once." | two logins list the codes before either marks one; `MarkRecoveryCodeUsed` does not ask whether the row was unused, and both are let in |
| `StoredValuesKept` (`MCInventory`, `FindingLostUpdate.cfg`) | internal/model/model.go:83 "Omitted fields keep their stored values." | two PATCHes of different fields both read the mapping, then both write the whole row: the second undoes the first. The PATCH of backends, SNI routes, foreign nodes and users is written the same way |
| `DegradedNotRerouted` (`MCFailover`, `FindingDegradedReroute.cfg`) | docs/FAILOVER.md:11 "Traffic is not blindly rerouted." | `applyStoredOverlays` skips `DEGRADED`; the next reconcile moves the rules back to WireGuard |
| `RequestConsumed` (`MCFailover`, `FindingIntentKept.cfg`) | docs/FAILOVER.md:38 "the agent consumes it" | nothing deletes an intent; one request serves every later return |
| `RestoresTransportState` (`MCFailover`, `FindingPrevAliased.cfg`) | docs/FAILOVER.md:30 "restore transport state" | `prev` shares its entries with `file`; a failed cutover commits other backends' new entries |
| `SkippedIsRunning` (`HaproxyReload`, `FindingSkippedReload.cfg`) | scripts/haproxy-reload-on-change.sh:6 "skip if hash matches last successful reload" | a write-back during the reload is skipped; HAProxy keeps the other content |
| `LastAdministratorKept` (`MCAccounts`, `FindingLastAdministrator.cfg`) | internal/auth/accounts.go:136 "cannot demote the last administrator" | two administrators demoted at once: both requests count two, then both write |
| `SetupCreatesFirst` (`MCAccounts`, `FindingSetupTwice.cfg`) | internal/auth/accounts.go:97 "initial administrator already exists" | two setup forms both count zero accounts before either creates one |
| `FormKeepsBackend` (`MCInventory`, `FindingFormRedirects.cfg`) | none; what saving a form unchanged should do | a rule other than the default shows the name stored with it (`webui/views.go:351`); after a rename, saving the form sends the rule to whatever has that name now |

One sentence is refuted by the routes alone: SECURITY.md:33 says "Mutating API
endpoints are token-bucket limited per client IP.", and the PATCH of users and the
TOTP routes (`api/server.go:80-84`) are registered without the limiter.
`AdmissionBounded` is about the routes that have it.

Effects the models show for which no document promises the contrary:

- A pass killed between the reload and its record, or met there by a write, leaves
  a record that is not what HAProxy runs, until a pass records the next reload
  (`gap`); where the agent reloads by itself, a kill between rename and reload
  leaves HAProxy on the old file until the next change.
- While `RunOnce` keeps failing, reports carry no transport states: a node on SSH
  is shown healthy and without its Failback button (`agent.go:115`).
- A mapping may be given another node's backend; the agent then refuses the
  whole desired state (`RulesHaveBackends` holds only if nobody asks for it).
- A session keeps the role it was opened with, and outlives the disabling of its
  account.
- The Web UI's requests share one bucket of the rate limiter (`webui/api.go:138`).

## 4. Fairness

`Failover`: weak fairness of each agent's fault-free step. The ticker fires
every interval and the command runner has a timeout, so each call returns. The
lock is polled and its holder always moves on, so weak fairness of "acquire or
time out" is enough; an agent need not win the lock. Nothing is assumed of
operators, and the environment settles (`Stabilise`) only if it likes: the
properties are conditional on it.

`Engine`: weak fairness of the steps of the transaction (the next tick retries).
None of the watcher: what `EventuallyConverged` says of `haproxy.cfg` is about the
file, and whether HAProxy runs it is the subject of `HaproxyReload`. Faults are finitely many by their bound, which is the
property's "faults have ceased".

`HaproxyReload`: weak fairness of systemd's start on a noticed change and of
each process' next command. A change while the service is active may go
unnoticed, since systemd folds a start request into the running one.

`Controller`: weak fairness of each process' next step of `run()`, a restart
included: the unit has `Restart=on-failure`
(deploy/systemd/transitforge-controller.service:11), the container `restart:
unless-stopped` (docker-compose.yml:24). Nothing is assumed of requests.

`Monitoring`: weak fairness of the agent's cycle (ticker, timeouts, and
`Restart=on-failure` in deploy/systemd/transitforge-agent.service:10), of the
arrival of reports that are not lost, of time, and of the loading of the pages
(the dashboard polls every 8 s). None of operators: the properties are
conditional on the agent not being stopped and on faults having ceased.

`Accounts` and `Inventory` state no fairness; they have only safety properties.

## 5. Proofs

Every state invariant and every action property of the passing runs is also a
theorem, for every value of the constants that satisfies the assumptions named in
the component's module: any number of agents, backends, mappings, accounts,
requests, processes and so on, and any bounds. The assumptions say that bounds are
natural numbers, that values which stand for "none" are none of the others, that
sets which the code counts are finite, and no more. A component's proofs are in a module of their own which
extends the component's; `PROJECT.json` ("theorems") says which theorem states
which property. The strengthenings below were checked as invariants by TLC on the
instances of section 3 before they were proved.

| Module | Theorems | Inductive invariant |
|---|---|---|
| `FailoverProofs` | `TypeCorrect`, `InductiveInvariant`, `LockProtectsFile`, `ThresholdIsRespected`, `FailoverIsAllowed`, `RoutesMatchStates`, `OwnEntryKept`, `FailoverImplementsPolicy` | `IInv` |
| `EngineProofs` | `EngineTyped`, `OneDestinationOnly`, `SuccessIsExact`, `UndoRestoresRules`, `RollbackKeepsInterfaces` | the conjuncts of `EInv` |
| `AccountsProofs` | `InvariantHolds`, `AccountsTyped`, `AdministratorNotLost`, `CodesSpentOnce`, `CodesFollowEnrolment`, `SecretsVerified`, `SecondFactorEnforced` | `IInv` |
| `ControllerProofs` | `ControllerInvariant`, `ControllerTyped`, `FullSchemaServed`, `BootstrapFileIsRight`, `RevocationIsFinal`, `AdmissionIsBounded` | `CInv` |
| `InventoryProofs` | `InventoryInvariant`, `InventoryTyped`, `PatchesKeepTheRest`, `RoutesLeadWhereSaved`, `MappingsComeWithBackends` | `IInv` |
| `HaproxyReloadProofs` | `ReloadTyped`, `ReloadsSync` | `RInv` |
| `RateLimiterProofs` | `RateIsLimited` | `LInv` |
| `MonitoringProofs` | `MonitoringTyped`, `SoundBackendsLeftAlone` | `MonitoringInv`, `AloneInv` |

**Failover.** None of the invariants is inductive by itself. `IInv` adds to the
type invariant:

- `WorkInv`: an agent inside the critical section holds the lock alone; what it
  has not evaluated yet is, in memory and in `prev`, what the file holds; what it
  has evaluated is one policy step away from the file. This is what makes
  `Save(prev)` harmless to the backend under cutover, and a commit a policy step.
- `FileInv`: entries on disk that stand for SSH belong to backends with an SSH
  tunnel and automatic failback, and the counter on disk is covered by `badRun`.
- `SeenInv`: an intent in a fetched desired state was recorded (none is deleted).
- `CutInv`: a cutover under way belongs to the backend under evaluation, its
  decision is one `Step` could make from the entry in memory, and the threshold
  has been reached.
- `WellInv`: a backend the cycle found healthy has an entry with counter zero, so
  that resetting `badRun` at the commit is right.
- `RouteWork`, `RouteRest`: the rules of each backend suit the entry in memory
  during the cycle (unless another backend was cut over after it) and the file
  between cycles.

The proof that a step preserves `IInv` has one lemma per kind of action
(`EvaluateKeeps`, `CutoverKeeps`, `RestoreKeeps`, `SaveKeeps`, `AbortKeeps`,
...). Two lemmas about the pure part, `StepType` and `StepDecides`, say what a
decision can be; nothing else in the proofs looks inside `Step`.
`FailoverImplementsPolicy` reads the mode through `File.Get` and a request as a
positive number of intents.

**Engine.** What a list of iptables commands does to the chains is a recursive
function (`Run`), and most of the work is what it computes for lists of any
length. The library's induction theorems take an operator, which the provers
cannot instantiate; `Induction` and `BoundedInduction` therefore speak of a *set*
of numbers that contains 0 and the successors of its members, and follow from the
least-element property of well-founded orders. On these rest:

- `OneDestinationOnly`. Rollback may replay the records, or restore the snapshot,
  of an earlier transaction, since they are reset only by the next `Apply` that gets
  as far. `RecordsAgree`: the DNAT rules there are, those on record as deleted
  and those in the snapshot lead, per mapping, to one address. `TurnToCome` is
  what keeps it: a mapping whose turn in the plan is still to come has no records
  in this transaction and stands as in the snapshot, and one to be added has no
  rule.
- `SuccessIsExact`. Diff compares the last rule of one chain of three. `OnPlan`:
  without faults the three chains agree on each mapping (`Even`), nothing is ever
  rolled back, and what is no longer on the plan is as desired.
- `UndoRestoresRules`. A conservation law: however often a rule is in its chain,
  plus how often it is on record as deleted, equals how often it was there before,
  plus how often it is on record as added (`Balanced`). `RunBalance` proves the law
  for any list of commands all of whose deletions find a rule, `ActionBalance` and
  `UndoBalance` for Apply and Rollback. With the records replayed the law says that
  each rule is there as often as before. (`Undoable` carries the law while `exact`
  holds: a CHANGE deletes without a record, which is what `RolledBackIsBefore` fails on.)
- `RollbackKeepsInterfaces`. `UpStaysUp`: an interface that was up at the beginning
  is neither noted as created nor going to be.

**Accounts.** A request between two statements holds a row that may be outdated,
so every invariant has to say what such rows may do. `Placed` and `Equipped`: at
which statement a request can be and what it then holds; `Careful`: how the row it
will write differs from the one it read (only a patch that counted another
administrator takes one out of service; only enrolment changes the secret);
`Aware`: what a login knows about TOTP; `SessionsOK`, `CodesOK`: the same of
sessions and of recovery codes (every set of codes was handed out once, to one
account, and a spent code is marked as long as it is stored, since marks are never
taken back). `SecretsVerified`, `SecondFactorEnforced` and `CodesSpentOnce` hold
without proviso; the last says no more than the code does, that a code which has let
someone in is refused to whoever lists the codes later. The other two have their
proviso in the property (`outdated`, `torn`); `LastAdministratorKept` and
`EachCodeOnce` (section 3) show what overlapping requests do.

**Controller.** `Segments`: versions on record, and those a process has seen or
applied, are initial segments of the scripts. `BootstrapFirst`: no token, request
or serving process before the bootstrap row. `Prepared`: what a process is about
to insert is in the file. `SecretsUnique`: no two rows share a secret, and a
revoked secret still belongs to its row. `ReadInPast` and the limiter's `LInv`
carry `RateIsLimited` over to requests that wait between reading the clock and
taking the mutex. `ControllerTyped` includes that a fresh secret can always be
drawn (`FreshExists`): the code's random tokens do not repeat, the model's are
numbers, and counting the holders shows that more numbers than names and processes
suffice.

**Inventory.** `NamesUnique`, `RoutesLed`, `MappingsAimed`: what the tables
promise; `Waiting`, `Inserting`, `Putting`: what a half-done request has resolved
and read, in particular that the row it will write is what it read with what the
caller gave (`Over`); `SnapOK`: as long as nothing is changed meanwhile, what
`DesiredState` has read is what the tables hold.

**HaproxyReload.** `ReloadsSync` has no hypothesis about when agents write or where
a pass ends; the property itself excepts the time after a disturbed commit (`gap`),
for which `SkippedIsRunning` shows that it fails: the gap is the script's. `Locked`:
one pass at a time; `CommitsFile`: a pass that is committing and has not been
disturbed works on the file it has hashed, and has loaded it once it is past the
reload; `RecordIsRunning`: outside the gap the record and last-good are what
HAProxy runs, so that a pass skipped by its hash, and a restore, are right.

**RateLimiter.** The bound on admissions is not inductive: a bucket's level must
be accounted for. `Conserved` says that the level minus the time of the last
refill plus what was admitted never exceeds the burst minus the time of creation:
a refill with an earlier clock value takes from the level exactly what the next
one will add, so the order of arrival does not matter.

**Monitoring.** The type invariant needs only that each boot is one of the counted
faults. `SoundBackendsLeftAlone` is not inductive: a button is drawn from the row, the
row from a report of any age, the report from what a cycle decided, and a cycle moves
a backend back only on a request, which comes from a button. `AloneInv` says of all of
these copies at once (the record, the agent's states, every report under way, the
row) that sound backends are on WireGuard in them, or not mentioned.

Only model-checked:

- Liveness, since fairness is outside the prover's reach: `RequestServed`,
  `EventuallyOnSSH`, `EventuallyConverged`, `ComesToRest`, `EventuallyServes`,
  `TroubleShown`, `FallbackVisible`, `PlanSettles`. For `Monitoring` this means that
  what the pages show in the end is only model-checked.
- The statements that the code does not satisfy (both tables of
  section 3): a counterexample is all there is to show.

## 6. Left out

- iptables' legacy chains, counters, rules of other programs, marker conflicts
  in `haproxy.cfg`: a conflict ends Reconcile before anything is written.
- CHANGE and DELETE of tunnels; SSH units beyond "start succeeded and the probe
  sees them".
- The agent's ticks without failover controller (dry discovery, plain engine).
- The reload script's backup directory and `haproxy.cfg` disappearing.
- Names, locales, password hashes and login times of accounts; the 12 hours of a
  session are "at any time".
- More than one rule per SNI route, listeners, addresses, labels, failover
  policies and audit events of the inventory. Audit events are written after the
  change they record, so a kill can lose one.
- Tunnel rows, handshake ages and event lists of the Web UI. A peer that never
  shook hands is reported with age 0 (`wireguard/wg.go:196`), the best there is.
- Not modelled at all: configuration and validation of single values, logging,
  metrics, the command runner, translation, templates and CLI output. They keep
  no state that a step of another part could find half-way.

## 7. Plan

1. Done: `TransportMachine`, `TransportPolicy`, `Failover`, `Engine`,
   `HaproxyReload`, `Accounts`, `RateLimiter`, `Controller`, `Inventory`,
   `Monitoring`, and proofs of all their invariants and action properties.
2. Next: action properties worth stating and proving beside the invariants, from
   the same strengthenings: a migration record never shrinks (`Controller`), a
   spent code never comes back (`Accounts`), the snapshot is only replaced by the
   host as it is (`Engine`).
3. Composition of `Engine` and `Failover`: a tunnel interface that cannot be
   created blocks the evaluation of its own failover.
