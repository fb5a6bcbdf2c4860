----------------------------- MODULE Monitoring -----------------------------
(***************************************************************************)
(* What the operator sees: the agent's reports on their way through the    *)
(* network and table agent_status to the node card, the plan and the       *)
(* Failback buttons of the Web UI, and the request that goes back          *)
(* (agent.tick, api.putActualState, webui/views.go, webui/pages.go).       *)
(*                                                                         *)
(* The host's transport states move as TransportPolicy allows.  A desired  *)
(* state is a version, and so are the rules that are in place; rules that  *)
(* are those of no desired state, because an SSH overlay or half a         *)
(* transaction is in them, are 0.  Tunnels, with the handshakes that turn  *)
(* a healthy card into a warning, are left out, and so are counters.       *)
(***************************************************************************)
EXTENDS TransportPolicy, FiniteSets

CONSTANTS
    Failing,      \* backends whose transports may fail; the others stay healthy
    StaleAfter,   \* age of a heartbeat, in steps of the clock, that is too old
    Versions,     \* desired states 1..Versions, one after the other
    MaxChanges,   \* bound: changes of the desired state, the transport states,
                  \* and conflicts
    MaxFaults,    \* bound: failed cycles, lost or late reports, stops, reboots
    NoRow

ASSUME MonitoringBounds == /\ Failing \subseteq PolicyBackends
                           /\ StaleAfter \in Nat /\ Versions \in Nat \ {0}
                           /\ MaxChanges \in Nat /\ MaxFaults \in Nat

VARIABLES
    registered,  \* the node is in the inventory under the agent's name
    want,        \* version of the desired state
    have,        \* version of the rules in place
    conflict,    \* foreign rules or interfaces are in the way
    agent,       \* where the agent is, what it fetched, what RunOnce returned
    net,         \* reports under way to the controller
    row,         \* table agent_status
    age,         \* of last_heartbeat
    page,        \* what the browser shows, and what a page being built has read
    changes, faults

site == <<want, have, conflict>>
bounds == <<changes, faults>>
vars == <<policyVars, registered, site, agent, net, row, age, page, bounds>>

Rules == 0..Versions

\* Transport states as RunOnce returns them: none at all when it fails early.
Reported == [PolicyBackends -> TransportModes] \cup {<<>>}

\* A report, without the fields that are left out.
Report == [states: Reported, rules: Rules, conflict: BOOLEAN]

TypeOK ==
    /\ mode \in [PolicyBackends -> TransportModes] /\ requested \subseteq PolicyBackends
    /\ boots \in 0..MaxFaults
    /\ registered \in BOOLEAN /\ conflict \in BOOLEAN
    /\ want \in 1..Versions /\ have \in Rules
    /\ agent \in [at: {"stopped", "down", "idle", "run", "discover", "wait"},
                  want: 0..Versions, states: Reported, sent: Report \cup {NoRow}]
    /\ net \subseteq Report
    /\ row \in Report \cup {NoRow} /\ age \in 0..(StaleAfter + 1)
    /\ page \in [status: {"unknown", "unhealthy", "degraded", "healthy"},
                 offered: SUBSET PolicyBackends, plan: {"changes", "NO CHANGES"},
                 want: 0..Versions]
    /\ changes \in 0..MaxChanges /\ faults \in 0..MaxFaults

Agent(at) == [at |-> at, want |-> 0, states |-> <<>>, sent |-> NoRow]

Init ==
    /\ PolicyInit
    /\ registered = FALSE /\ want = 1 /\ have = 0
    /\ conflict = FALSE
    /\ agent = Agent("down") /\ net = {} /\ row = NoRow /\ age = 0
    /\ page = [status |-> "unknown", offered |-> {}, plan |-> "changes", want |-> 0]
    /\ changes = 0 /\ faults = 0

Changed == changes < MaxChanges /\ changes' = changes + 1

Fault == faults < MaxFaults /\ faults' = faults + 1 /\ UNCHANGED changes

-----------------------------------------------------------------------------
(* The site *)

RegisterNode ==
    /\ ~registered /\ registered' = TRUE
    /\ UNCHANGED <<policyVars, site, agent, net, row, age, page, bounds>>

\* An operator changes the inventory.
ChangeDesired ==
    /\ Changed /\ want < Versions /\ want' = want + 1
    /\ UNCHANGED <<policyVars, registered, have, conflict, agent, net, row, age, page, faults>>

\* Foreign rules or interfaces appear or go.
ConflictChanges ==
    /\ Changed /\ conflict' = ~conflict
    /\ UNCHANGED <<policyVars, registered, want, have, agent, net, row, age, page, faults>>

-----------------------------------------------------------------------------
(* The agent *)

\* resolveNode: without a node of its name the process exits and is restarted.
Resolve ==
    /\ agent.at = "down" /\ registered
    /\ agent' = Agent("idle")
    /\ UNCHANGED <<policyVars, registered, site, net, row, age, page, bounds>>

\* tick: DesiredState.
Fetch ==
    /\ agent.at = "idle"
    /\ agent' = [Agent("run") EXCEPT !.want = want]
    /\ UNCHANGED <<policyVars, registered, site, net, row, age, page, bounds>>

\* Mutant: a backend without an entry on record is reported as the zero value.
DecidedUnset == {[b \in PolicyBackends |-> Absent.state]}

\* The states RunOnce may decide on, by the edges of TransportPolicy.
Decided ==
    {s \in [PolicyBackends -> TransportModes] : \A b \in PolicyBackends :
        \/ s[b] = mode[b]
        \/ s[b] = Degraded /\ b \in Failing
        \/ s[b] = FailbackInProgress /\ mode[b] \in {WGPrimary, Degraded} /\ b \in Failing
        \/ s[b] = SSHPrimary /\ mode[b] = FailbackInProgress
        \/ s[b] = WGPrimary /\ mode[b] \in {SSHPrimary, Degraded} /\ b \in requested}

\* The rules after a cycle: those of the desired state, unless an overlay is, or
\* was when the cycle began, in use.
RulesAfter(v, s) == IF \A b \in PolicyBackends : mode[b] = WGPrimary /\ s[b] = WGPrimary
                    THEN {v} ELSE {v, 0}

\* RunOnce: reconcile, then the states of all backends are decided and saved.
\* It fails where there is a conflict.
RunOnce ==
    /\ agent.at = "run" /\ ~conflict
    /\ mode' \in Decided
    /\ have' \in RulesAfter(agent.want, mode')
    /\ agent' = [agent EXCEPT !.at = "discover", !.states = mode']
    /\ IF mode' = mode THEN UNCHANGED changes ELSE Changed
    /\ UNCHANGED <<requested, boots, registered, want, conflict, net, row, age, page, faults>>

\* Reconcile refuses to touch anything while there is a conflict.
RunConflicts ==
    /\ agent.at = "run" /\ conflict
    /\ agent' = [agent EXCEPT !.at = "discover"]
    /\ UNCHANGED <<policyVars, registered, site, net, row, age, page, bounds>>

\* What Save(&prev) puts on record after the cutover of a backend c failed: prev
\* shares its entries with the file, so those decided before c may be the new ones.
Leaked == {s \in Decided : \E c \in Failing : mode[c] # WGPrimary /\ s[c] = mode[c]}

\* The lock, Reconcile, a probe or a cutover fails: no states are returned.
RunFails ==
    /\ Fault /\ agent.at = "run" /\ ~conflict
    /\ mode' \in {mode} \cup Leaked
    /\ have' \in {have, agent.want, 0}
    /\ agent' = [agent EXCEPT !.at = "discover"]
    /\ UNCHANGED <<requested, boots, registered, want, conflict, net, row, age, page>>

\* Save fails: what was decided is returned and not on record.
SaveFails ==
    /\ Fault /\ agent.at = "run" /\ ~conflict
    /\ \E s \in Decided :
         /\ have' \in RulesAfter(agent.want, s)
         /\ agent' = [agent EXCEPT !.at = "discover", !.states = s]
    /\ UNCHANGED <<policyVars, registered, want, conflict, net, row, age, page>>

Send(report) ==
    /\ net' = net \cup {report}
    /\ agent' = [Agent("wait") EXCEPT !.sent = report]

\* Discover once more, and PutActualState.
Discover ==
    /\ agent.at = "discover"
    /\ Send([states |-> agent.states, rules |-> have, conflict |-> conflict])
    /\ UNCHANGED <<policyVars, registered, site, row, age, page, bounds>>

\* Its error is dropped and what was found before it is reported: nothing, or
\* the rules, and their conflicts.
DiscoverFails ==
    /\ Fault /\ agent.at = "discover"
    /\ \E r \in {0, have}, c \in {FALSE, conflict} :
         Send([states |-> agent.states, rules |-> r, conflict |-> c])
    /\ UNCHANGED <<policyVars, registered, site, row, age, page>>

\* The answer, or the client's timeout after the report was lost.
Answered ==
    /\ agent.at = "wait" /\ agent.sent \notin net
    /\ agent' = Agent("idle")
    /\ UNCHANGED <<policyVars, registered, site, net, row, age, page, bounds>>

\* The client gives up after 30 s while the report is still under way.
SendTimesOut ==
    /\ Fault /\ agent.at = "wait" /\ agent.sent \in net
    /\ agent' = Agent("idle")
    /\ UNCHANGED <<policyVars, registered, site, net, row, age, page>>

LoseReport ==
    /\ Fault /\ \E r \in net : net' = net \ {r}
    /\ UNCHANGED <<policyVars, registered, site, agent, row, age, page>>

\* Killed, and restarted by systemd.
Kill ==
    /\ Fault /\ agent.at \notin {"stopped", "down"}
    /\ agent' = Agent("down")
    /\ UNCHANGED <<policyVars, registered, site, net, row, age, page>>

\* /run and the rules are gone.
Reboot ==
    /\ Fault /\ HostReboot
    /\ have' = 0
    /\ agent' = Agent(IF agent.at = "stopped" THEN "stopped" ELSE "down")
    /\ UNCHANGED <<registered, want, conflict, net, row, age, page>>

\* An operator stops or starts the agent.
StopAgent ==
    /\ Fault /\ agent.at # "stopped"
    /\ agent' = Agent("stopped")
    /\ UNCHANGED <<policyVars, registered, site, net, row, age, page>>

StartAgent ==
    /\ agent.at = "stopped"
    /\ agent' = Agent("down")
    /\ UNCHANGED <<policyVars, registered, site, net, row, age, page, bounds>>

-----------------------------------------------------------------------------
(* The controller *)

\* Mutant: INSERT OR IGNORE.
StoredOnce(r) == IF row = NoRow THEN r ELSE row

\* The upsert of agent_status: whatever arrives last stays.
Stored(r) == r

\* putActualState: the heartbeat is the time of arrival.
PutActualState(r) ==
    /\ net' = net \ {r}
    /\ row' = Stored(r) /\ age' = 0
    /\ UNCHANGED <<policyVars, registered, site, agent, page, bounds>>

PassTime ==
    /\ row # NoRow /\ age <= StaleAfter
    /\ age' = age + 1
    /\ UNCHANGED <<policyVars, registered, site, agent, net, row, page, bounds>>

-----------------------------------------------------------------------------
(* The Web UI *)

Rank(m) == CASE m = WGPrimary -> 1 [] m = SSHPrimary -> 2
             [] m = FailbackInProgress -> 3 [] m = Degraded -> 4

\* Mutant: the state of the first backend stands for the node.
PickFirst(states) == IF states = <<>> THEN "-" ELSE states[CHOOSE b \in DOMAIN states : TRUE]

\* pickTransport: the worst of the states.
PickTransport(states) ==
    IF states = <<>> THEN "-"
    ELSE states[CHOOSE b \in DOMAIN states :
                   \A c \in DOMAIN states : Rank(states[c]) <= Rank(states[b])]

IsDegraded(transport) == transport \in {Degraded, FailbackInProgress, SSHPrimary}

\* Mutant: the heartbeat's age is shown and not judged.
CardStatusOfRow ==
    IF row = NoRow THEN "unknown"
    ELSE IF row.conflict THEN "unhealthy"
    ELSE IF IsDegraded(PickTransport(row.states)) THEN "degraded"
    ELSE "healthy"

\* buildNodeCard
CardStatus ==
    IF row = NoRow THEN "unknown"
    ELSE IF age > StaleAfter \/ row.conflict THEN "unhealthy"
    ELSE IF IsDegraded(PickTransport(row.states)) THEN "degraded"
    ELSE "healthy"

\* Mutant: where the node is degraded every backend gets its button.
FailbackOfNode ==
    IF row = NoRow THEN {} ELSE IF IsDegraded(PickTransport(row.states)) THEN DOMAIN row.states ELSE {}

\* failbackBackends; the agent's status has no states of its own, as the store
\* leaves them empty.
FailbackBackends ==
    IF row = NoRow THEN {} ELSE {b \in DOMAIN row.states : IsDegraded(row.states[b])}

\* dashboard, nodesList, nodeWorkspace: one GetActualState for all of these.
ShowNode ==
    /\ registered
    /\ page' = [page EXCEPT !.status = CardStatus, !.offered = FailbackBackends]
    /\ UNCHANGED <<policyVars, registered, site, agent, net, row, age, bounds>>

\* computePlan: DesiredState.
PlanDesired ==
    /\ registered
    /\ page' = [page EXCEPT !.want = want]
    /\ UNCHANGED <<policyVars, registered, site, agent, net, row, age, bounds>>

\* computePlan: GetActualState, and an empty state where there is none; Diff.
ShowPlan ==
    /\ page.want # 0
    /\ page' = [page EXCEPT !.want = 0,
                    !.plan = IF row # NoRow /\ row.rules = page.want /\ ~row.conflict
                             THEN "NO CHANGES" ELSE "changes"]
    /\ UNCHANGED <<policyVars, registered, site, agent, net, row, age, bounds>>

\* nodeFailback: the button of a backend that is offered.
NodeFailback(b) ==
    /\ b \in page.offered /\ b \notin requested
    /\ Request(b)
    /\ UNCHANGED <<registered, site, agent, net, row, age, page, bounds>>

-----------------------------------------------------------------------------
Tick == Resolve \/ Fetch \/ RunOnce \/ RunConflicts \/ Discover \/ Answered

Delivery == \E r \in net : PutActualState(r)

Plan == PlanDesired \/ ShowPlan

Next ==
    \/ RegisterNode \/ ChangeDesired \/ ConflictChanges
    \/ Tick \/ RunFails \/ SaveFails \/ DiscoverFails \/ SendTimesOut \/ LoseReport
    \/ Kill \/ Reboot \/ StopAgent \/ StartAgent
    \/ Delivery \/ PassTime
    \/ ShowNode \/ Plan
    \/ \E b \in PolicyBackends : NodeFailback(b)

\* The ticker fires and every call of the agent returns; a report that is not
\* lost arrives; time passes; the open pages are polled.
Spec ==
    /\ Init /\ [][Next]_vars
    /\ WF_vars(Tick) /\ WF_vars(Delivery) /\ WF_vars(PassTime)
    /\ WF_vars(ShowNode) /\ WF_vars(PlanDesired) /\ WF_vars(ShowPlan)

-----------------------------------------------------------------------------
(* Properties *)

AgentWorks == registered /\ agent.at # "stopped"

\* A node whose agent was stopped for good, or whose host stays in conflict, is
\* in the end shown unhealthy for good, reports that were still under way
\* notwithstanding; a node that never reported is shown as unknown.
TroubleShown ==
    <>[](agent.at = "stopped" /\ net = {}) \/ (<>[]conflict /\ <>[]AgentWorks) =>
        <>[](page.status \in {"unhealthy", "unknown"} /\ (row # NoRow => page.status = "unhealthy"))

\* While the agent works, a backend that stays off WireGuard is in the end
\* offered for Failback for good and its node is never shown healthy, whatever
\* the other backends do, and one that stays on WireGuard is not offered: no
\* lost, late or failed report hides the fallback or the operator's way back
\* (failbackBackends, pickTransport).
FallbackVisible ==
    \A b \in PolicyBackends :
        <>[](AgentWorks /\ ~conflict) =>
            /\ <>[](mode[b] # WGPrimary) => <>[](b \in page.offered /\ page.status # "healthy")
            /\ <>[](mode[b] = WGPrimary) => <>[](b \notin page.offered)

\* A backend whose transports are sound is never offered for Failback, never
\* requested and never off WireGuard, whatever happens to the other backends of
\* its node and in whatever order their reports arrive: the entries of a failed
\* cutover or of a lost save are never another backend's (failbackBackends,
\* nodeFailback, RunOnce).
OthersLeftAlone ==
    \A b \in PolicyBackends \ Failing :
        mode[b] = WGPrimary /\ b \notin page.offered /\ b \notin requested

\* With all backends on WireGuard the plan ends at NO CHANGES, although it is
\* computed from two reads and from reports that may be old.
PlanSettles ==
    <>[](AgentWorks /\ ~conflict /\ \A b \in PolicyBackends : mode[b] = WGPrimary) =>
        <>[](page.plan = "NO CHANGES")
=============================================================================
