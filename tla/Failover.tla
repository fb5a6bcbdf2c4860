------------------------------ MODULE Failover ------------------------------
(***************************************************************************)
(* The failover cycle of an edge host: agent.tick and the failover         *)
(* controller's RunOnce, with everything they share.                       *)
(*                                                                         *)
(* Every agent process fetches the desired state from the controller,      *)
(* takes the flock on transport.lock, loads transport-state.json,          *)
(* reconciles the host to the overlays on record, evaluates the backends   *)
(* in name order, cuts traffic over where the machine says so, saves the   *)
(* file and reports.  Operators record Failback requests at any time.  Any *)
(* command can fail, a process can be killed between any two steps, and a  *)
(* reboot loses /run (file, lock) and the kernel's rules.                  *)
(*                                                                         *)
(* Abstractions: a backend's DNAT rules are one destination, dnat[b]; the  *)
(* engine's transaction is one step that either establishes the requested  *)
(* destinations or, when it fails, leaves any; health probes return any    *)
(* member of a set of snapshots.                                           *)
(***************************************************************************)
EXTENDS TransportMachine, FiniteSets

CONSTANTS
    Agents,          \* processes that share one state directory
    LiveAgents,      \* those that run with dry_run_only: false
    NumBackends,     \* backends are numbered in the order of their names
    WGTun,           \* backends with a WIREGUARD tunnel
    SSHTun,          \* backends with an SSH_TUN tunnel
    Address,         \* Backend.Address: "wg" (the WireGuard overlay IP) or "other"
    Threshold,       \* FailoverPolicy.FailureThreshold, per backend
    AutoFailback,    \* FailoverPolicy.AutomaticFailback, per backend
    PrimarySnaps,    \* health snapshots the WireGuard side may show
    Outages,         \* how the environment may settle: a subset of {"wgdown", "wgup"}
    FallbackSnaps,   \* health snapshots the SSH side may show
    MaxRequests,     \* bound: Failback requests per backend
    MaxFailures,     \* bound: the consecutive-failure counter
    MaxFaults        \* bound: command failures, kills and reboots

Backends == 1..NumBackends

ASSUME NumBackendsAssumption == NumBackends \in Nat
ASSUME AgentsAssumption == LiveAgents \subseteq Agents
ASSUME TunnelsAssumption == WGTun \subseteq Backends /\ SSHTun \subseteq Backends
ASSUME AddressAssumption == Address \in [Backends -> {"wg", "other"}]
ASSUME PolicyAssumption ==
    Threshold \in [Backends -> Nat \ {0}] /\ AutoFailback \in [Backends -> BOOLEAN]
ASSUME SnapshotsAssumption ==
    PrimarySnaps \subseteq Snapshots /\ FallbackSnaps \subseteq Snapshots
ASSUME OutagesAssumption == Outages \subseteq {"wgdown", "wgup"}
ASSUME BoundsAssumption ==
    MaxRequests \in Nat /\ MaxFailures \in Nat /\ MaxFaults \in Nat

VARIABLES
    (* controller *)
    intents,   \* failback_intents rows per backend
    reported,  \* transport states in the last actual-state report
    (* edge host, shared by its agent processes *)
    file,      \* transport-state.json
    dnat,      \* where the backend's DNAT rules point
    lock,      \* holders of the flock on transport.lock
    (* one agent process: where it is in tick/RunOnce, and its locals *)
    pc,
    at,        \* index of the backend under evaluation
    seen,      \* backends with an intent in the fetched desired state
    mem,       \* RunOnce's `file'
    prev,      \* RunOnce's `prev', a shallow copy of it
    alias,     \* does prev.Entries still share file.Entries' array?
    dec,       \* decision whose cutover is under way
    (* environment *)
    outage,    \* "varying", or for good "wgdown" / "wgup"
    faults,    \* faults so far
    boots,     \* boots so far
    (* history, for the properties only *)
    badRun,    \* unhealthy evaluations in WG_PRIMARY since a healthy one was committed
    well,      \* backends this agent's cycle found healthy on, or back on, WireGuard
    cuts,      \* backends this agent's cycle has cut over
    settled,   \* backends whose route the last cycle established undisturbed
    forwards   \* fail-forwards committed per backend

hostVars == <<file, dnat, lock>>
localVars == <<pc, at, seen, mem, prev, alias, dec, well, cuts>>
envVars == <<outage, faults, boots>>
vars == <<intents, reported, hostVars, localVars, envVars, badRun, settled, forwards>>

Entries == TransportStates \cup {Absent}
Destinations == {"wg", "ssh", "other", "none"}
NoDecision == Stay(InitialState)
NoEntries == [b \in Backends |-> Absent]

(* The agent holds the flock exactly in these control states. *)
Critical == {"locked", "eval", "cutover"}
ControlStates == Critical \cup {"idle", "fetched", "report", "reportNil"}

(* File.Get: the entry, or WG_PRIMARY for a backend that has none. *)
Get(entries, b) == IF entries[b] = Absent THEN InitialState ELSE entries[b]

(* Mutant: an unconfirmed failback is not put back on the SSH overlay. *)
StoredRouteConfirmed(entries) ==
    [b \in Backends |->
        IF entries[b].state = SSHPrimary /\ b \in SSHTun THEN "ssh" ELSE Address[b]]

(* applyStoredOverlays: the destinations the entries on record ask for. *)
StoredRoute(entries) ==
    [b \in Backends |->
        IF entries[b].state \in {SSHPrimary, FailbackInProgress} /\ b \in SSHTun
        THEN "ssh" ELSE Address[b]]

(* rewriteBackendAddr applied to the desired state as fetched. *)
DesiredRouteWith(b, dest) == [Address EXCEPT ![b] = dest]

(* primaryHealth and fallbackHealth: what a probe may find at this time. *)
PrimaryProbe ==
    CASE outage = "varying" -> PrimarySnaps
      [] outage = "wgdown" -> {h \in PrimarySnaps : PrimaryFailed(h)}
      [] outage = "wgup" -> {h \in PrimarySnaps : ~PrimaryFailed(h)}

FallbackProbe(b) ==
    IF b \notin SSHTun THEN {ZeroSnapshot}
    ELSE IF outage = "wgdown" THEN {h \in FallbackSnaps : FallbackHealthy(h)}
    ELSE FallbackSnaps

Live(a) == a \in LiveAgents

Init ==
    /\ intents = [b \in Backends |-> 0]
    /\ reported = [b \in Backends |-> ""]
    /\ file = NoEntries
    /\ dnat = [b \in Backends |-> "none"]
    /\ lock = {}
    /\ pc = [a \in Agents |-> "idle"]
    /\ at = [a \in Agents |-> 1]
    /\ seen = [a \in Agents |-> {}]
    /\ mem = [a \in Agents |-> NoEntries]
    /\ prev = [a \in Agents |-> NoEntries]
    /\ alias = [a \in Agents |-> FALSE]
    /\ dec = [a \in Agents |-> NoDecision]
    /\ outage = "varying"
    /\ faults = 0
    /\ boots = 0
    /\ badRun = [b \in Backends |-> 0]
    /\ well = [a \in Agents |-> {}]
    /\ cuts = [a \in Agents |-> {}]
    /\ settled = {}
    /\ forwards = [b \in Backends |-> 0]

-----------------------------------------------------------------------------
(* Helpers of the agent's actions. *)

(* A fault is spent from the budget. *)
Fault ==
    /\ faults < MaxFaults
    /\ faults' = faults + 1
    /\ UNCHANGED <<outage, boots>>

NoFault == UNCHANGED envVars

(* The locals of a finished or dead tick. *)
Forget(a) ==
    /\ at' = [at EXCEPT ![a] = 1]
    /\ seen' = [seen EXCEPT ![a] = {}]
    /\ mem' = [mem EXCEPT ![a] = NoEntries]
    /\ prev' = [prev EXCEPT ![a] = NoEntries]
    /\ alias' = [alias EXCEPT ![a] = FALSE]
    /\ dec' = [dec EXCEPT ![a] = NoDecision]
    /\ well' = [well EXCEPT ![a] = {}]
    /\ cuts' = [cuts EXCEPT ![a] = {}]

(* The tick is over: back to waiting for the ticker. *)
ReturnNothing(a) ==
    /\ pc' = [pc EXCEPT ![a] = "idle"]
    /\ Forget(a)

(* RunOnce returns an error and no states; its deferred Release runs. *)
ReturnError(a) ==
    /\ lock' = lock \ {a}
    /\ pc' = [pc EXCEPT ![a] = "reportNil"]
    /\ settled' = {}
    /\ Forget(a)

(* Mutant: a backend is passed over after one that was evaluated. *)
PutAndPass(a, b, st) ==
    /\ mem' = [mem EXCEPT ![a][b] = st]
    /\ UNCHANGED <<prev, alias>>
    /\ at' = [at EXCEPT ![a] = b + 2]

(* file.Put and moving on to the next backend.  An existing entry is       *)
(* overwritten in place, which `prev' sees while the arrays are shared; a   *)
(* new one is appended, which may move file.Entries to another array.      *)
Put(a, b, st) ==
    /\ mem' = [mem EXCEPT ![a][b] = st]
    /\ IF mem[a][b] # Absent
       THEN /\ prev' = IF alias[a] THEN [prev EXCEPT ![a][b] = st] ELSE prev
            /\ UNCHANGED alias
       ELSE /\ \E shared \in {alias[a], FALSE} : alias' = [alias EXCEPT ![a] = shared]
            /\ UNCHANGED prev
    /\ at' = [at EXCEPT ![a] = b + 1]

(* Save: write transport-state.json by rename, all entries at once. *)
Commit(entries) ==
    /\ file' = entries
    /\ forwards' = [b \in Backends |->
           IF /\ file[b].state \in {SSHPrimary, Degraded}
              /\ entries[b].state = WGPrimary
              /\ forwards[b] <= MaxRequests
           THEN forwards[b] + 1 ELSE forwards[b]]

-----------------------------------------------------------------------------
(* Controller and environment. *)

(* POST /nodes/{id}/failback inserts one failback_intents row, whatever    *)
(* the transport state is.  Nothing deletes rows.                          *)
OperatorFailback(b) ==
    /\ intents[b] < MaxRequests
    /\ intents' = [intents EXCEPT ![b] = @ + 1]
    /\ UNCHANGED <<reported, hostVars, localVars, envVars, badRun, settled, forwards>>

(* From some point on WireGuard is down and SSH healthy, or WireGuard up. *)
Stabilise ==
    /\ outage = "varying"
    /\ outage' \in Outages
    /\ UNCHANGED <<intents, reported, hostVars, localVars, faults, boots,
                   badRun, settled, forwards>>

-----------------------------------------------------------------------------
(* agent.tick *)

(* GET desired-state; when the request fails the tick ends, a stuttering   *)
(* step.                                                                   *)
Fetch(a) ==
    /\ pc[a] = "idle"
    /\ pc' = [pc EXCEPT ![a] = "fetched"]
    /\ seen' = [seen EXCEPT ![a] = {b \in Backends : intents[b] > 0}]
    /\ UNCHANGED <<intents, reported, hostVars, at, mem, prev, alias, dec, well, cuts,
                   envVars, badRun, settled, forwards>>

(* Mutant: an aged lock is taken over from its holder. *)
AcquireStealing(a) ==
    /\ pc[a] = "fetched"
    /\ lock' = lock \cup {a}
    /\ pc' = [pc EXCEPT ![a] = "locked"]
    /\ mem' = [mem EXCEPT ![a] = file]
    /\ prev' = [prev EXCEPT ![a] = file]
    /\ alias' = [alias EXCEPT ![a] = TRUE]
    /\ well' = [well EXCEPT ![a] = {}]
    /\ UNCHANGED <<intents, reported, file, dnat, at, seen, dec, cuts,
                   envVars, badRun, settled, forwards>>

(* Lock.Acquire succeeds; Load; prev := *file. *)
Acquire(a) ==
    /\ pc[a] = "fetched"
    /\ lock = {}
    /\ lock' = {a}
    /\ pc' = [pc EXCEPT ![a] = "locked"]
    /\ mem' = [mem EXCEPT ![a] = file]
    /\ prev' = [prev EXCEPT ![a] = file]
    /\ alias' = [alias EXCEPT ![a] = TRUE]
    /\ well' = [well EXCEPT ![a] = {}]
    /\ UNCHANGED <<intents, reported, file, dnat, at, seen, dec, cuts,
                   envVars, badRun, settled, forwards>>

(* Lock.Acquire gives up after its timeout: a live lock is never stolen. *)
LockTimeout(a) ==
    /\ pc[a] = "fetched"
    /\ lock \notin {{}, {a}}
    /\ pc' = [pc EXCEPT ![a] = "reportNil"]
    /\ Forget(a)
    /\ UNCHANGED <<intents, reported, hostVars, envVars, badRun, settled, forwards>>

(* The lock file cannot be opened, or the agent is shutting down. *)
AcquireFails(a) ==
    /\ pc[a] = "fetched"
    /\ Fault
    /\ pc' = [pc EXCEPT ![a] = "reportNil"]
    /\ Forget(a)
    /\ UNCHANGED <<intents, reported, hostVars, badRun, settled, forwards>>

(* Engine.Reconcile(eff, !live) at the start of the cycle. *)
Reconcile(a) ==
    /\ pc[a] = "locked"
    /\ pc' = [pc EXCEPT ![a] = "eval"]
    /\ dnat' = IF Live(a) THEN StoredRoute(mem[a]) ELSE dnat
    /\ UNCHANGED <<intents, reported, file, lock, at, seen, mem, prev, alias, dec,
                   well, cuts, envVars, badRun, settled, forwards>>

(* It, or Load before it, fails: nothing is evaluated, and the host is     *)
(* left as it was or as the engine's rollback left it.                     *)
ReconcileFails(a) ==
    /\ pc[a] = "locked"
    /\ Fault
    /\ IF Live(a) THEN dnat' \in [Backends -> Destinations] ELSE dnat' = dnat
    /\ ReturnError(a)
    /\ UNCHANGED <<intents, reported, file, badRun, forwards>>

(* The loop body for a backend without WireGuard tunnel: continue. *)
Skip(a) ==
    /\ pc[a] = "eval"
    /\ at[a] \in Backends \ WGTun
    /\ at' = [at EXCEPT ![a] = @ + 1]
    /\ UNCHANGED <<intents, reported, hostVars, pc, seen, mem, prev, alias, dec, well, cuts,
                   envVars, badRun, settled, forwards>>

(* The loop body up to the decision.  Without a cutover to carry out the   *)
(* decision is Put at once.                                                *)
Evaluate(a) ==
    /\ pc[a] = "eval"
    /\ at[a] \in WGTun
    /\ \E p \in PrimaryProbe, f \in FallbackProbe(at[a]) :
         LET b == at[a]
             cur == Get(mem[a], b)
             d == Step(cur, Threshold[b], AutoFailback[b], ~PrimaryFailed(p),
                       FallbackHealthy(f), b \in seen[a])
         IN  /\ d.next.failures <= MaxFailures
             /\ badRun' = IF cur.state = WGPrimary /\ PrimaryFailed(p) /\ badRun[b] < Threshold[b]
                          THEN [badRun EXCEPT ![b] = @ + 1] ELSE badRun
             /\ well' = [well EXCEPT ![a] = IF PrimaryFailed(p) \/ d.next.state # WGPrimary
                                         THEN @ \ {b} ELSE @ \cup {b}]
             /\ IF Live(a) /\ (d.toSSH \/ d.toWG)
                THEN /\ pc' = [pc EXCEPT ![a] = "cutover"]
                     /\ dec' = [dec EXCEPT ![a] = d]
                     /\ UNCHANGED <<at, mem, prev, alias>>
                ELSE /\ Put(a, b, d.next)
                     /\ UNCHANGED <<pc, dec>>
    /\ UNCHANGED <<intents, reported, hostVars, seen, cuts, envVars, settled, forwards>>

(* A health probe's Discover fails: RunOnce returns without saving, even   *)
(* when an earlier backend of this cycle was cut over.                     *)
ProbeFails(a) ==
    /\ pc[a] = "eval"
    /\ at[a] \in WGTun
    /\ Fault
    /\ ReturnError(a)
    /\ UNCHANGED <<intents, reported, file, dnat, badRun, forwards>>

(* controller.cutover: towards SSH the unit is started and the fallback    *)
(* probed again; then the engine applies the desired state, as fetched,    *)
(* with this one backend's address rewritten.  The decision is then Put.   *)
Cutover(a) ==
    LET b == at[a] IN
    /\ pc[a] = "cutover"
    /\ at[a] \in WGTun
    /\ dec[a].toSSH => b \in SSHTun /\ \E f \in FallbackProbe(b) : FallbackHealthy(f)
    /\ dnat' = DesiredRouteWith(b, IF dec[a].toSSH THEN "ssh" ELSE "wg")
    /\ pc' = [pc EXCEPT ![a] = "eval"]
    /\ Put(a, b, dec[a].next)
    /\ dec' = [dec EXCEPT ![a] = NoDecision]
    /\ cuts' = [cuts EXCEPT ![a] = @ \cup {b}]
    /\ UNCHANGED <<intents, reported, file, lock, seen, well, envVars, badRun, settled, forwards>>

(* Mutant: the decision was Put before the cutover it asks for. *)
CutoverRefusedAfterPut(a) ==
    /\ pc[a] = "cutover"
    /\ at[a] \in WGTun
    /\ dec[a].toSSH
    /\ \E f \in FallbackProbe(at[a]) : ~FallbackHealthy(f)
    /\ Commit([prev[a] EXCEPT ![at[a]] = dec[a].next])
    /\ ReturnError(a)
    /\ NoFault
    /\ UNCHANGED <<intents, reported, dnat, badRun>>

(* The second probe finds the fallback unhealthy: Save(prev), return.      *)
CutoverRefused(a) ==
    /\ pc[a] = "cutover"
    /\ at[a] \in WGTun
    /\ dec[a].toSSH
    /\ \E f \in FallbackProbe(at[a]) : ~FallbackHealthy(f)
    /\ Commit(prev[a])
    /\ ReturnError(a)
    /\ NoFault
    /\ UNCHANGED <<intents, reported, dnat, badRun>>

(* SSH.Apply or the engine fails: Save(prev), itself not certain, return.  *)
CutoverFails(a) ==
    /\ pc[a] = "cutover"
    /\ at[a] \in WGTun
    /\ Fault
    /\ dnat' \in [Backends -> Destinations]
    /\ \/ Commit(prev[a])
       \/ UNCHANGED <<file, forwards>>
    /\ ReturnError(a)
    /\ UNCHANGED <<intents, reported, badRun>>

(* The loop is done: Save(file), Heartbeat, Release. *)
SaveState(a) ==
    /\ pc[a] = "eval"
    /\ at[a] > NumBackends
    /\ Commit(mem[a])
    /\ lock' = lock \ {a}
    /\ pc' = [pc EXCEPT ![a] = "report"]
    /\ settled' = IF Live(a) THEN {b \in Backends : cuts[a] \subseteq {b}} ELSE {}
    /\ badRun' = [b \in Backends |-> IF b \in well[a] THEN 0 ELSE badRun[b]]
    /\ UNCHANGED <<intents, reported, dnat, at, seen, mem, prev, alias, dec, well, cuts, envVars>>

(* Save fails: the states are still returned, and still reported. *)
SaveFails(a) ==
    /\ pc[a] = "eval"
    /\ at[a] > NumBackends
    /\ Fault
    /\ lock' = lock \ {a}
    /\ pc' = [pc EXCEPT ![a] = "report"]
    /\ settled' = {}
    /\ UNCHANGED <<intents, reported, file, dnat, at, seen, mem, prev, alias, dec, well, cuts,
                   badRun, forwards>>

(* PUT actual-state, outside the lock; without states after an error. *)
Report(a) ==
    /\ pc[a] \in {"report", "reportNil"}
    /\ reported' = [b \in Backends |->
           IF pc[a] = "report" /\ b \in WGTun THEN mem[a][b].state ELSE ""]
    /\ ReturnNothing(a)
    /\ UNCHANGED <<intents, hostVars, envVars, badRun, settled, forwards>>

ReportFails(a) ==
    /\ pc[a] \in {"report", "reportNil"}
    /\ Fault
    /\ ReturnNothing(a)
    /\ UNCHANGED <<intents, reported, hostVars, badRun, settled, forwards>>

-----------------------------------------------------------------------------
(* A kill of the process: the kernel drops its flock.  Inside an engine    *)
(* transaction of a live agent the rules are left half-way.                *)
Crash(a) ==
    /\ pc[a] # "idle"
    /\ Fault
    /\ IF Live(a) /\ pc[a] \in {"locked", "cutover"}
       THEN dnat' \in [Backends -> Destinations] ELSE dnat' = dnat
    /\ lock' = lock \ {a}
    /\ settled' = IF a \in lock THEN {} ELSE settled
    /\ ReturnNothing(a)
    /\ UNCHANGED <<intents, reported, file, badRun, forwards>>

(* A reboot of the host: /run and the packet filter start empty. *)
Reboot ==
    /\ faults < MaxFaults
    /\ faults' = faults + 1
    /\ boots' = boots + 1
    /\ file' = NoEntries
    /\ dnat' = [b \in Backends |-> "none"]
    /\ lock' = {}
    /\ pc' = [a \in Agents |-> "idle"]
    /\ at' = [a \in Agents |-> 1]
    /\ seen' = [a \in Agents |-> {}]
    /\ mem' = [a \in Agents |-> NoEntries]
    /\ prev' = [a \in Agents |-> NoEntries]
    /\ alias' = [a \in Agents |-> FALSE]
    /\ dec' = [a \in Agents |-> NoDecision]
    /\ well' = [a \in Agents |-> {}]
    /\ cuts' = [a \in Agents |-> {}]
    /\ badRun' = [b \in Backends |-> 0]
    /\ settled' = {}
    /\ UNCHANGED <<intents, reported, outage, forwards>>

-----------------------------------------------------------------------------
(* What an agent does when nothing fails. *)
AgentStep(a) ==
    \/ Fetch(a)
    \/ Acquire(a)
    \/ LockTimeout(a)
    \/ Reconcile(a)
    \/ Skip(a)
    \/ Evaluate(a)
    \/ Cutover(a)
    \/ CutoverRefused(a)
    \/ SaveState(a)
    \/ Report(a)

AgentFault(a) ==
    \/ AcquireFails(a)
    \/ ReconcileFails(a)
    \/ ProbeFails(a)
    \/ CutoverFails(a)
    \/ SaveFails(a)
    \/ ReportFails(a)
    \/ Crash(a)

Next ==
    \/ \E b \in Backends : OperatorFailback(b)
    \/ Stabilise
    \/ \E a \in Agents : AgentStep(a) \/ AgentFault(a)
    \/ Reboot

Spec == Init /\ [][Next]_vars

(* The ticker keeps firing and every command returns (30 s runner          *)
(* timeout), so an agent that can step does.  Operators need not act, and  *)
(* the environment need not settle.                                        *)
FairSpec == Spec /\ \A a \in Agents : WF_vars(AgentStep(a))

-----------------------------------------------------------------------------
(* Type invariant. *)
TypeOK ==
    /\ intents \in [Backends -> 0..MaxRequests]
    /\ reported \in [Backends -> TransportModes \cup {""}]
    /\ file \in [Backends -> Entries]
    /\ dnat \in [Backends -> Destinations]
    /\ lock \in SUBSET Agents
    /\ pc \in [Agents -> ControlStates]
    /\ at \in [Agents -> 1..(NumBackends + 1)]
    /\ seen \in [Agents -> SUBSET Backends]
    /\ mem \in [Agents -> [Backends -> Entries]]
    /\ prev \in [Agents -> [Backends -> Entries]]
    /\ alias \in [Agents -> BOOLEAN]
    /\ dec \in [Agents -> Decisions]
    /\ outage \in {"varying"} \cup Outages
    /\ faults \in 0..MaxFaults
    /\ boots \in Nat
    /\ badRun \in [Backends -> Nat]
    /\ well \in [Agents -> SUBSET Backends]
    /\ cuts \in [Agents -> SUBSET Backends]
    /\ settled \in SUBSET Backends
    /\ forwards \in [Backends -> Nat]

(* The flock makes RunOnce a critical section across processes: whoever is *)
(* inside it works on entries that still are what the file on disk holds   *)
(* (those it has not evaluated yet), so its Save loses nobody's update -    *)
(* through lock timeouts, kills between any two steps, and reboots.        *)
NoLostUpdate ==
    \A a \in Agents : pc[a] \in Critical =>
        /\ lock = {a}
        /\ \A b \in Backends : b >= at[a] => mem[a][b] = file[b]

(* Traffic is moved to SSH out of WG_PRIMARY only after failure_threshold  *)
(* unhealthy evaluations since the last healthy cycle that was committed:  *)
(* lost saves, killed cycles, restored `prev' files and a second agent     *)
(* never make the persisted counter run ahead of what was observed.        *)
ThresholdRespected ==
    \A a \in Agents :
        pc[a] = "cutover" /\ dec[a].toSSH /\ Get(mem[a], at[a]).state = WGPrimary
            => badRun[at[a]] = Threshold[at[a]]

(* A backend leaves WireGuard only if it has an SSH tunnel to go to and a  *)
(* policy that allows automatic failback - also by way of DEGRADED, of a   *)
(* dry-run agent, and of entries a failed cycle leaked.                    *)
FailoverOnlyWhereAllowed ==
    \A b \in Backends :
        file[b].state \in {SSHPrimary, FailbackInProgress} => b \in SSHTun /\ AutoFailback[b]

(* After a live cycle in which no other backend was cut over, the rules of *)
(* a backend lead where its committed state says: to the SSH overlay in    *)
(* SSH_PRIMARY and FAILBACK_IN_PROGRESS, to WireGuard (or the configured   *)
(* address) in WG_PRIMARY; the state never commits to an overlay the rules *)
(* were not moved to.                                                      *)
RouteMatchesState ==
    lock = {} => \A b \in settled \cap WGTun :
        /\ file[b].state \in {SSHPrimary, FailbackInProgress} => dnat[b] = "ssh"
        /\ file[b].state = WGPrimary => dnat[b] \in {"wg", Address[b]}

(* A cutover that is refused or fails leaves the entry on disk of the      *)
(* backend it was for exactly as it was, whatever Save(prev) leaks of the  *)
(* other backends' entries.                                                *)
FailedCutoverKeepsOwnEntry ==
    [][\A a \in Agents :
          pc[a] = "cutover" /\ pc'[a] = "reportNil" => file'[at[a]] = file[at[a]]]_vars

(* The file on disk obeys the transport policy: a commit moves every       *)
(* backend along at most one documented transition, and WG_PRIMARY is      *)
(* entered again only on an operator's request or after a reboot, through  *)
(* failed saves, leaked `prev' entries, kills and a dry-run agent that     *)
(* shares the directory.                                                   *)
Policy == INSTANCE TransportPolicy WITH
    PolicyBackends <- Backends,
    mode <- [b \in Backends |-> Get(file, b).state],
    requested <- {b \in Backends : intents[b] > 0}

ImplementsPolicy == Policy!PolicySpec

-----------------------------------------------------------------------------
(* Liveness, under FairSpec. *)

(* If WireGuard stays down and SSH stays healthy, every backend that may   *)
(* fail over ends up routed over SSH for good - from any history of        *)
(* counters, half-done cutovers, kills and lost saves.                     *)
EventuallyOnSSH ==
    \A b \in WGTun \cap SSHTun : AutoFailback[b] =>
        (outage = "wgdown" ~> [](dnat[b] = "ssh" /\ file[b].state # WGPrimary))

(* If WireGuard stays up, an operator's request is served whatever state   *)
(* it finds: the backend ends in WG_PRIMARY for good, DEGRADED and         *)
(* half-done failbacks included.                                           *)
RequestServed ==
    \A b \in WGTun :
        (outage = "wgup" /\ intents[b] > 0 ~> [](Get(file, b).state = WGPrimary))

-----------------------------------------------------------------------------
(* What docs/FAILOVER.md and docs/OPERATIONS.md say and the code does not   *)
(* do.  Each is refuted by a run without faults.                            *)

(* docs/FAILOVER.md, cutover order: "rewrite DNAT destinations to the SSH  *)
(* overlay IP -> verify -> commit state".  cutover() starts from `desired',*)
(* so a second backend's cutover takes the first one's DNAT back to        *)
(* WireGuard while its state commits to SSH.                               *)
CommittedRouteHolds ==
    lock = {} => \A b \in WGTun :
        file[b].state \in {SSHPrimary, FailbackInProgress} => dnat[b] = "ssh"

(* docs/FAILOVER.md, DEGRADED: "Traffic is not blindly rerouted."          *)
(* applyStoredOverlays leaves DEGRADED entries out, so the reconcile that  *)
(* follows SSH_PRIMARY -> DEGRADED moves the DNAT back to WireGuard.       *)
DegradedNotRerouted ==
    [][\A a \in Agents, b \in Backends :
          /\ pc[a] = "locked"
          /\ pc'[a] = "eval"
          /\ file[b].state = Degraded
          /\ dnat[b] # "none"
          => dnat'[b] = dnat[b]]_vars

(* docs/FAILOVER.md, operator Failback: "the agent consumes it on the next *)
(* cycle if WireGuard is healthy" and SSH_PRIMARY -> WG_PRIMARY is "never  *)
(* automatic".  No code deletes an intent, so one request serves every     *)
(* later return to WireGuard as well.                                      *)
RequestConsumed == \A b \in Backends : forwards[b] <= intents[b]

(* docs/FAILOVER.md: "On failure: ... restore transport state."  `prev'    *)
(* shares its entries with the file being edited, so Save(&prev) commits   *)
(* what the failed cycle had already Put for other backends.               *)
RestoresTransportState ==
    [][\A a \in Agents :
          pc[a] = "cutover" /\ pc'[a] = "reportNil" => file' = file]_vars
=============================================================================
