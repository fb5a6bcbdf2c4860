-------------------------- MODULE MonitoringProofs --------------------------
(***************************************************************************)
(* Proofs about Monitoring: its type invariant, and that backends whose    *)
(* transports are sound are left alone, although their states travel in    *)
(* the same record, reports and row as those of the failing ones.  What    *)
(* the operator sees in the end is liveness and left to TLC.               *)
(***************************************************************************)
EXTENDS Monitoring, TLAPS

(* Every boot is one of the counted faults. *)
MonitoringInv == TypeOK /\ boots <= faults

Places == {"stopped", "down", "idle", "run", "discover", "wait"}
Agents == [at: Places, want: 0..Versions, states: Reported, sent: Report \cup {NoRow}]
Pages == [status: {"unknown", "unhealthy", "degraded", "healthy"},
          offered: SUBSET PolicyBackends, plan: {"changes", "NO CHANGES"}, want: 0..Versions]

(* An agent that has just come to a place has forgotten the last cycle. *)
LEMMA AgentTyped ==
    ASSUME NEW at \in Places
    PROVE  Agent(at) \in Agents
  <1>1. 0 \in 0..Versions /\ <<>> \in Reported
    BY MonitoringBounds DEF Reported
  <1> QED  BY <1>1 DEF Agent, Agents

(* The counters stay within their bounds. *)
LEMMA Counted ==
    ASSUME MonitoringInv
    PROVE  /\ changes \in 0..MaxChanges /\ faults \in 0..MaxFaults
           /\ Changed => changes' \in 0..MaxChanges
           /\ Fault => faults' \in 0..MaxFaults /\ changes' = changes /\ faults' = faults + 1
           /\ boots \in Nat /\ boots <= faults /\ faults \in Nat
  <1>1. changes \in 0..MaxChanges /\ faults \in 0..MaxFaults /\ boots \in 0..MaxFaults /\ boots <= faults
    BY DEF MonitoringInv, TypeOK
  <1> QED  BY <1>1, MonitoringBounds DEF Changed, Fault

(* A report is sent with the types it is stored with. *)
LEMMA SendTyped ==
    ASSUME MonitoringInv, NEW r \in Report, Send(r)
    PROVE  net' \subseteq Report /\ agent' \in Agents
  <1>1. Agent("wait") \in Agents
    BY AgentTyped DEF Places
  <1>2. net \subseteq Report
    BY DEF MonitoringInv, TypeOK
  <1> QED  BY <1>1, <1>2 DEF Send, Agents

(* Only backends are offered for Failback. *)
LEMMA CardTyped ==
    ASSUME MonitoringInv
    PROVE  /\ FailbackBackends \subseteq PolicyBackends
           /\ CardStatus \in {"unknown", "unhealthy", "degraded", "healthy"}
  <1>1. row \in Report \cup {NoRow}
    BY DEF MonitoringInv, TypeOK
  <1>2. ASSUME row # NoRow PROVE DOMAIN row.states \subseteq PolicyBackends
    <2>1. row.states \in Reported
      BY <1>1, <1>2 DEF Report
    <2>2. CASE row.states \in [PolicyBackends -> TransportModes]
      BY <2>2
    <2>3. CASE row.states = <<>>
      BY <2>3
    <2> QED  BY <2>1, <2>2, <2>3 DEF Reported
  <1> QED  BY <1>2 DEF FailbackBackends, CardStatus

(* What a cycle may leave behind. *)
LEMMA CycleTyped ==
    ASSUME MonitoringInv, NEW s \in Decided
    PROVE  /\ s \in [PolicyBackends -> TransportModes] /\ s \in Reported
           /\ RulesAfter(agent.want, s) \subseteq Rules
  <1>1. agent \in Agents
    BY DEF MonitoringInv, TypeOK, Agents, Places
  <1>2. agent.want \in Rules
    BY <1>1 DEF Agents, Rules
  <1>3. 0 \in Rules
    BY MonitoringBounds DEF Rules
  <1> QED  BY <1>2, <1>3 DEF Decided, Reported, RulesAfter

(* The first desired state is there, and nothing has been reported. *)
LEMMA InitInv == Init => MonitoringInv
  <1> SUFFICES ASSUME Init PROVE MonitoringInv
    OBVIOUS
  <1>1. /\ 0 \in 0..Versions /\ 1 \in 1..Versions /\ 0 \in 0..MaxFaults /\ 0 \in 0..MaxChanges
        /\ 0 \in 0..(StaleAfter + 1)
    BY MonitoringBounds
  <1>2. mode \in [PolicyBackends -> TransportModes] /\ requested \subseteq PolicyBackends /\ boots = 0
    BY DEF Init, PolicyInit, TransportModes
  <1>3. agent \in Agents
    BY AgentTyped DEF Init, Places
  <1>4. page \in Pages
    BY <1>1 DEF Init, Pages
  <1>5. /\ registered = FALSE /\ want = 1 /\ have = 0 /\ conflict = FALSE /\ net = {}
        /\ row = NoRow /\ age = 0 /\ changes = 0 /\ faults = 0
    BY DEF Init
  <1>6. boots <= faults
    BY <1>2, <1>5
  <1> QED  BY <1>1, <1>2, <1>3, <1>4, <1>5, <1>6 DEF MonitoringInv, TypeOK, Agents, Pages, Places, Rules

(* Every step keeps the types, and a boot costs a fault. *)
LEMMA NextInv == MonitoringInv /\ [Next]_vars => MonitoringInv'
  <1> SUFFICES ASSUME MonitoringInv, [Next]_vars PROVE MonitoringInv'
    OBVIOUS
  <1> USE DEF Agents, Pages, Places, site, bounds, policyVars
  <1>1. agent \in Agents /\ page \in Pages
    BY DEF MonitoringInv, TypeOK
  <1>2. ASSUME NEW at \in Places PROVE Agent(at) \in Agents
    BY AgentTyped
  <1>3. CASE RegisterNode \/ ConflictChanges
    BY <1>3, Counted DEF RegisterNode, ConflictChanges, MonitoringInv, TypeOK
  <1>4. CASE ChangeDesired
    <2>1. want' \in 1..Versions
      <3>1. want \in 1..Versions /\ want < Versions /\ want' = want + 1
        BY <1>4 DEF ChangeDesired, MonitoringInv, TypeOK
      <3> QED  BY <3>1, MonitoringBounds
    <2> QED  BY <1>4, <2>1, Counted DEF ChangeDesired, MonitoringInv, TypeOK
  <1>5. CASE Resolve \/ Answered \/ StartAgent
    <2>1. agent' \in Agents
      BY <1>5, <1>2 DEF Resolve, Answered, StartAgent
    <2> QED  BY <1>5, <2>1 DEF Resolve, Answered, StartAgent, MonitoringInv, TypeOK
  <1>6. CASE Fetch
    <2>1. want \in 0..Versions
      <3>1. want \in 1..Versions
        BY DEF MonitoringInv, TypeOK
      <3> QED  BY <3>1, MonitoringBounds
    <2>2. Agent("run") \in Agents
      BY <1>2
    <2>3. agent' \in Agents
      BY <1>6, <2>1, <2>2 DEF Fetch
    <2> QED  BY <1>6, <2>3 DEF Fetch, MonitoringInv, TypeOK
  <1>7. CASE RunOnce
    <2>1. /\ mode' \in [PolicyBackends -> TransportModes] /\ mode' \in Reported /\ have' \in Rules
      BY <1>7, CycleTyped DEF RunOnce
    <2>2. agent' \in Agents
      BY <1>7, <1>1, <2>1 DEF RunOnce
    <2>3. changes' \in 0..MaxChanges
      BY <1>7, Counted DEF RunOnce
    <2> QED  BY <1>7, <2>1, <2>2, <2>3 DEF RunOnce, MonitoringInv, TypeOK
  <1>8. CASE RunConflicts
    <2>1. agent' \in Agents
      BY <1>8, <1>1 DEF RunConflicts
    <2> QED  BY <1>8, <2>1 DEF RunConflicts, MonitoringInv, TypeOK
  <1>9. CASE RunFails
    <2>1. agent' \in Agents
      BY <1>9, <1>1 DEF RunFails
    <2>2. have' \in Rules
      <3>1. agent.want \in Rules
        BY <1>1 DEF Rules
      <3>2. have \in Rules
        BY DEF MonitoringInv, TypeOK
      <3>3. 0 \in Rules
        BY MonitoringBounds DEF Rules
      <3> QED  BY <1>9, <3>1, <3>2, <3>3 DEF RunFails
    <2>3. faults' \in 0..MaxFaults /\ changes' = changes /\ boots' <= faults'
      BY <1>9, Counted DEF RunFails
    <2>4. mode' \in [PolicyBackends -> TransportModes]
      <3>1. mode' = mode \/ mode' \in Decided
        BY <1>9 DEF RunFails, Leaked
      <3> QED  BY <3>1 DEF Decided, MonitoringInv, TypeOK
    <2> QED  BY <1>9, <2>1, <2>2, <2>3, <2>4 DEF RunFails, MonitoringInv, TypeOK
  <1>10. CASE SaveFails
    <2>1. PICK s \in Decided :
             /\ have' \in RulesAfter(agent.want, s)
             /\ agent' = [agent EXCEPT !.at = "discover", !.states = s]
      BY <1>10 DEF SaveFails
    <2>2. s \in Reported /\ have' \in Rules
      BY <2>1, CycleTyped
    <2>3. agent' \in Agents
      BY <2>1, <2>2, <1>1
    <2>4. faults' \in 0..MaxFaults /\ changes' = changes /\ boots' <= faults'
      BY <1>10, Counted DEF SaveFails
    <2> QED  BY <1>10, <2>2, <2>3, <2>4 DEF SaveFails, MonitoringInv, TypeOK
  <1>11. CASE Discover
    <2> DEFINE r == [states |-> agent.states, rules |-> have, conflict |-> conflict]
    <2>1. r \in Report
      BY <1>1 DEF Report, MonitoringInv, TypeOK
    <2>2. Send(r)
      BY <1>11 DEF Discover
    <2> HIDE DEF r
    <2>3. net' \subseteq Report /\ agent' \in Agents
      BY <2>1, <2>2, SendTyped
    <2> QED  BY <1>11, <2>3 DEF Discover, MonitoringInv, TypeOK
  <1>12. CASE DiscoverFails
    <2>1. PICK u \in {0, have}, c \in {FALSE, conflict} :
             Send([states |-> agent.states, rules |-> u, conflict |-> c])
      BY <1>12 DEF DiscoverFails
    <2> DEFINE r == [states |-> agent.states, rules |-> u, conflict |-> c]
    <2>2. u \in Rules /\ c \in BOOLEAN
      <3>1. 0 \in Rules
        BY MonitoringBounds DEF Rules
      <3>2. have \in Rules /\ conflict \in BOOLEAN
        BY DEF MonitoringInv, TypeOK
      <3>3. u \in Rules
        BY <3>1, <3>2
      <3>4. c \in BOOLEAN
        BY <3>2, Zenon
      <3> QED  BY <3>3, <3>4
    <2>3. r \in Report
      BY <2>2, <1>1 DEF Report
    <2>4. Send(r)
      BY <2>1
    <2> HIDE DEF r
    <2>5. net' \subseteq Report /\ agent' \in Agents
      BY <2>3, <2>4, SendTyped
    <2>6. faults' \in 0..MaxFaults /\ changes' = changes /\ boots' <= faults'
      BY <1>12, Counted DEF DiscoverFails
    <2> QED  BY <1>12, <2>5, <2>6 DEF DiscoverFails, MonitoringInv, TypeOK
  <1>13. CASE SendTimesOut \/ Kill \/ StopAgent
    <2>1. agent' \in Agents
      BY <1>13, <1>2 DEF SendTimesOut, Kill, StopAgent
    <2>2. faults' \in 0..MaxFaults /\ changes' = changes /\ boots' <= faults'
      BY <1>13, Counted DEF SendTimesOut, Kill, StopAgent
    <2> QED  BY <1>13, <2>1, <2>2 DEF SendTimesOut, Kill, StopAgent, MonitoringInv, TypeOK
  <1>14. CASE LoseReport
    <2>1. faults' \in 0..MaxFaults /\ changes' = changes /\ boots' <= faults'
      BY <1>14, Counted DEF LoseReport
    <2>2. net' \subseteq Report
      BY <1>14 DEF LoseReport, MonitoringInv, TypeOK
    <2> QED  BY <1>14, <2>1, <2>2 DEF LoseReport, MonitoringInv, TypeOK
  <1>15. CASE Reboot
    <2>1. faults' \in 0..MaxFaults /\ changes' = changes /\ boots' = boots + 1 /\ boots' <= faults'
      BY <1>15, Counted DEF Reboot, HostReboot
    <2>2. boots' \in 0..MaxFaults
      BY <2>1, Counted, MonitoringBounds
    <2>3. agent' \in Agents
      BY <1>15, <1>2 DEF Reboot
    <2>4. mode' \in [PolicyBackends -> TransportModes] /\ requested' = requested
      BY <1>15 DEF Reboot, HostReboot, TransportModes
    <2>5. have' \in Rules
      BY <1>15, MonitoringBounds DEF Reboot, Rules
    <2> QED  BY <1>15, <2>1, <2>2, <2>3, <2>4, <2>5 DEF Reboot, MonitoringInv, TypeOK
  <1>16. CASE Delivery
    <2>1. PICK r \in net : PutActualState(r)
      BY <1>16 DEF Delivery
    <2>2. row' \in Report /\ net' \subseteq Report
      BY <2>1 DEF PutActualState, Stored, MonitoringInv, TypeOK
    <2>3. age' \in 0..(StaleAfter + 1)
      BY <2>1, MonitoringBounds DEF PutActualState
    <2> QED  BY <2>1, <2>2, <2>3 DEF PutActualState, MonitoringInv, TypeOK
  <1>17. CASE PassTime
    <2>1. age' \in 0..(StaleAfter + 1)
      <3>1. age \in 0..(StaleAfter + 1) /\ age <= StaleAfter /\ age' = age + 1
        BY <1>17 DEF PassTime, MonitoringInv, TypeOK
      <3> QED  BY <3>1, MonitoringBounds
    <2> QED  BY <1>17, <2>1 DEF PassTime, MonitoringInv, TypeOK
  <1>18. CASE ShowNode
    <2>1. page' \in Pages
      BY <1>18, <1>1, CardTyped DEF ShowNode
    <2> QED  BY <1>18, <2>1 DEF ShowNode, MonitoringInv, TypeOK
  <1>19. CASE Plan
    <2>1. 0 \in 0..Versions /\ want \in 0..Versions
      <3>1. want \in 1..Versions
        BY DEF MonitoringInv, TypeOK
      <3> QED  BY <3>1, MonitoringBounds
    <2>2. page' \in Pages
      BY <1>19, <1>1, <2>1 DEF Plan, PlanDesired, ShowPlan
    <2> QED  BY <1>19, <2>2 DEF Plan, PlanDesired, ShowPlan, MonitoringInv, TypeOK
  <1>20. CASE \E b \in PolicyBackends : NodeFailback(b)
    BY <1>20 DEF NodeFailback, Request, MonitoringInv, TypeOK
  <1>21. CASE UNCHANGED vars
    BY <1>21 DEF vars, MonitoringInv, TypeOK
  <1> QED  BY <1>3, <1>4, <1>5, <1>6, <1>7, <1>8, <1>9, <1>10, <1>11, <1>12, <1>13, <1>14, <1>15, <1>16,
              <1>17, <1>18, <1>19, <1>20, <1>21 DEF Next, Tick

(* Reports, rows, cards and plans keep their types, whatever is lost, late *)
(* or only half discovered, and only backends are ever offered for         *)
(* Failback (agent.tick, putActualState, buildNodeCard, failbackBackends). *)
THEOREM MonitoringTyped == Spec => []TypeOK
  <1>1. MonitoringInv => TypeOK
    BY DEF MonitoringInv
  <1> QED  BY <1>1, InitInv, NextInv, PTL DEF Spec

(* Where the backends with sound transports are on WireGuard, or are not   *)
(* mentioned at all because the cycle failed.                              *)
Untouched(states) ==
    \A b \in PolicyBackends \ Failing : b \in DOMAIN states => states[b] = WGPrimary

(* Every copy of the transport states is Untouched: the record, what the   *)
(* agent is about to report, the reports under way, however late, and the  *)
(* row.  A button, a request and the way through FAILBACK and back are     *)
(* drawn from these copies only.                                           *)
AloneInv ==
    /\ OthersLeftAlone
    /\ Untouched(agent.states)
    /\ \A r \in net : Untouched(r.states)
    /\ row # NoRow => Untouched(row.states)

(* A cycle decides nothing for a backend that is sound and not requested.  *)
LEMMA DecidedAlone ==
    ASSUME OthersLeftAlone, NEW s \in Decided
    PROVE  Untouched(s) /\ \A b \in PolicyBackends \ Failing : s[b] = WGPrimary
  <1>1. ASSUME NEW b \in PolicyBackends \ Failing PROVE s[b] = WGPrimary
    <2>1. mode[b] = WGPrimary /\ b \notin requested
      BY DEF OthersLeftAlone
    <2>2. \/ s[b] = mode[b]
          \/ s[b] = SSHPrimary /\ mode[b] = FailbackInProgress
      BY <2>1 DEF Decided
    <2> QED  BY <2>1, <2>2 DEF WGPrimary, FailbackInProgress
  <1> QED  BY <1>1 DEF Untouched

(* An agent that has just come to a place has no states to report. *)
LEMMA NothingToReport ==
    ASSUME NEW at PROVE Untouched(Agent(at).states)
  <1>1. Agent(at).states = <<>>
    BY DEF Agent
  <1>2. \A b : b \notin DOMAIN <<>>
    OBVIOUS
  <1> QED  BY <1>1, <1>2 DEF Untouched

(* A report carries what the agent holds. *)
LEMMA SendAlone ==
    ASSUME AloneInv, NEW r, r.states = agent.states, Send(r)
    PROVE  Untouched(agent'.states) /\ \A q \in net' : Untouched(q.states)
  <1>1. agent'.states = Agent("wait").states
    BY DEF Send, Agent
  <1>2. Untouched(agent'.states)
    BY <1>1, NothingToReport
  <1> QED  BY <1>2 DEF Send, AloneInv

(* Every step keeps the backends with sound transports out of it. *)
LEMMA NextAlone == MonitoringInv /\ AloneInv /\ [Next]_vars => AloneInv'
  <1> SUFFICES ASSUME MonitoringInv, AloneInv, [Next]_vars PROVE AloneInv'
    OBVIOUS
  <1> USE DEF site, bounds, policyVars
  <1>0. agent \in Agents /\ page \in Pages
    BY DEF MonitoringInv, TypeOK, Agents, Pages, Places
  <1>1. CASE RegisterNode \/ ChangeDesired \/ ConflictChanges \/ PassTime \/ UNCHANGED vars
    BY <1>1 DEF RegisterNode, ChangeDesired, ConflictChanges, PassTime, vars, AloneInv, OthersLeftAlone, Untouched
  <1>2. CASE Resolve \/ Answered \/ StartAgent \/ SendTimesOut \/ Kill \/ StopAgent
    <2>1. PICK at : agent' = Agent(at)
      BY <1>2 DEF Resolve, Answered, StartAgent, SendTimesOut, Kill, StopAgent
    <2>2. Untouched(agent'.states)
      BY <2>1, NothingToReport
    <2>3. UNCHANGED <<mode, requested, page, net, row>>
      BY <1>2 DEF Resolve, Answered, StartAgent, SendTimesOut, Kill, StopAgent
    <2> QED  BY <2>2, <2>3 DEF AloneInv, OthersLeftAlone, Untouched
  <1>3. CASE Fetch
    <2>1. agent'.states = Agent("run").states
      BY <1>3 DEF Fetch, Agent
    <2>2. Untouched(agent'.states)
      BY <2>1, NothingToReport
    <2>3. UNCHANGED <<mode, requested, page, net, row>>
      BY <1>3 DEF Fetch
    <2> QED  BY <2>2, <2>3 DEF AloneInv, OthersLeftAlone, Untouched
  <1>4. CASE RunOnce
    <2>1. mode' \in Decided /\ agent'.states = mode' /\ UNCHANGED <<requested, page, net, row>>
      BY <1>4, <1>0 DEF RunOnce, Agents
    <2>2. Untouched(mode') /\ \A b \in PolicyBackends \ Failing : mode'[b] = WGPrimary
      BY <2>1, DecidedAlone DEF AloneInv
    <2>3. Untouched(agent'.states)
      BY <2>1, <2>2
    <2> QED  BY <2>1, <2>2, <2>3 DEF AloneInv, OthersLeftAlone, Untouched
  <1>5. CASE RunConflicts
    <2>1. agent'.states = agent.states /\ UNCHANGED <<mode, requested, page, net, row>>
      BY <1>5, <1>0 DEF RunConflicts, Agents
    <2> QED  BY <2>1 DEF AloneInv, OthersLeftAlone, Untouched
  <1>6. CASE RunFails
    <2>1. mode' = mode \/ mode' \in Decided
      BY <1>6 DEF RunFails, Leaked
    <2>2. agent'.states = agent.states /\ UNCHANGED <<requested, page, net, row>>
      BY <1>6, <1>0 DEF RunFails, Agents
    <2>3. \A b \in PolicyBackends \ Failing : mode'[b] = WGPrimary
      <3>1. CASE mode' = mode
        BY <3>1 DEF AloneInv, OthersLeftAlone
      <3>2. CASE mode' \in Decided
        BY <3>2, DecidedAlone DEF AloneInv
      <3> QED  BY <2>1, <3>1, <3>2
    <2> QED  BY <2>2, <2>3 DEF AloneInv, OthersLeftAlone, Untouched
  <1>7. CASE SaveFails
    <2>1. PICK s \in Decided : agent' = [agent EXCEPT !.at = "discover", !.states = s]
      BY <1>7 DEF SaveFails
    <2>2. Untouched(agent'.states)
      <3>1. agent'.states = s
        BY <2>1, <1>0 DEF Agents
      <3> QED  BY <3>1, DecidedAlone DEF AloneInv
    <2>3. UNCHANGED <<mode, requested, page, net, row>>
      BY <1>7 DEF SaveFails
    <2> QED  BY <2>2, <2>3 DEF AloneInv, OthersLeftAlone, Untouched
  <1>8. CASE Discover \/ DiscoverFails
    <2>1. \E u, c : Send([states |-> agent.states, rules |-> u, conflict |-> c])
      BY <1>8 DEF Discover, DiscoverFails
    <2>2. PICK r : r.states = agent.states /\ Send(r)
      BY <2>1
    <2>3. Untouched(agent'.states) /\ \A q \in net' : Untouched(q.states)
      BY <2>2, SendAlone
    <2>4. UNCHANGED <<mode, requested, page, row>>
      BY <1>8 DEF Discover, DiscoverFails
    <2> QED  BY <2>3, <2>4 DEF AloneInv, OthersLeftAlone, Untouched
  <1>9. CASE LoseReport
    <2>1. net' \subseteq net /\ UNCHANGED <<mode, requested, page, row, agent>>
      BY <1>9 DEF LoseReport
    <2> QED  BY <2>1 DEF AloneInv, OthersLeftAlone, Untouched
  <1>10. CASE Reboot
    <2>1. mode' = [b \in PolicyBackends |-> WGPrimary] /\ UNCHANGED <<requested, page, net, row>>
      BY <1>10 DEF Reboot, HostReboot
    <2>2. PICK at : agent' = Agent(at)
      BY <1>10 DEF Reboot
    <2>3. Untouched(agent'.states)
      BY <2>2, NothingToReport
    <2> QED  BY <2>1, <2>3 DEF AloneInv, OthersLeftAlone, Untouched
  <1>11. CASE Delivery
    <2>1. PICK r \in net : PutActualState(r)
      BY <1>11 DEF Delivery
    <2>2. row' = r /\ net' \subseteq net /\ UNCHANGED <<mode, requested, page, agent>>
      BY <2>1 DEF PutActualState, Stored
    <2> QED  BY <2>2 DEF AloneInv, OthersLeftAlone, Untouched
  <1>12. CASE ShowNode
    <2>1. page'.offered = FailbackBackends /\ UNCHANGED <<mode, requested, net, row, agent>>
      BY <1>12, <1>0 DEF ShowNode, Pages
    <2>2. \A b \in PolicyBackends \ Failing : b \notin FailbackBackends
      BY DEF FailbackBackends, IsDegraded, AloneInv, Untouched, WGPrimary, SSHPrimary, Degraded, FailbackInProgress
    <2> QED  BY <2>1, <2>2 DEF AloneInv, OthersLeftAlone, Untouched
  <1>13. CASE Plan
    <2>1. page'.offered = page.offered /\ UNCHANGED <<mode, requested, net, row, agent>>
      BY <1>13, <1>0 DEF Plan, PlanDesired, ShowPlan, Pages
    <2> QED  BY <2>1 DEF AloneInv, OthersLeftAlone, Untouched
  <1>14. CASE \E b \in PolicyBackends : NodeFailback(b)
    <2>1. PICK b \in page.offered : Request(b) /\ UNCHANGED <<page, net, row, agent>>
      BY <1>14 DEF NodeFailback
    <2>2. requested' = requested \cup {b} /\ mode' = mode
      BY <2>1 DEF Request
    <2> QED  BY <2>1, <2>2 DEF AloneInv, OthersLeftAlone, Untouched
  <1> QED  BY <1>1, <1>2, <1>3, <1>4, <1>5, <1>6, <1>7, <1>8, <1>9, <1>10, <1>11, <1>12, <1>13, <1>14
           DEF Next, Tick

(* A backend whose transports are sound is never offered for Failback, never *)
(* requested and never moved off WireGuard, however many backends share its  *)
(* node and fail, whatever a failed cutover or a failed save leaves on       *)
(* record and however late a report arrives (failbackBackends, nodeFailback, *)
(* RunOnce, putActualState).                                                 *)
THEOREM SoundBackendsLeftAlone == Spec => []OthersLeftAlone
  <1>1. Init => AloneInv
    <2> SUFFICES ASSUME Init PROVE AloneInv
      OBVIOUS
    <2>1. OthersLeftAlone /\ net = {} /\ row = NoRow
      BY DEF Init, PolicyInit, OthersLeftAlone
    <2>2. Untouched(agent.states)
      BY NothingToReport DEF Init
    <2> QED  BY <2>1, <2>2 DEF AloneInv
  <1>2. AloneInv => OthersLeftAlone
    BY DEF AloneInv
  <1> QED  BY <1>1, <1>2, InitInv, NextInv, NextAlone, PTL DEF Spec
=============================================================================
