--------------------------- MODULE FailoverProofs ---------------------------
(***************************************************************************)
(* Proofs about Failover, for any number of agents and backends, any       *)
(* policies and health snapshots, and any bounds.                          *)
(***************************************************************************)
EXTENDS Failover, TLAPS

(* The decision function returns well-formed decisions. *)
LEMMA StepType ==
    ASSUME NEW st \in TransportStates, NEW threshold \in Nat, NEW auto \in BOOLEAN,
           NEW ph \in BOOLEAN, NEW fh \in BOOLEAN, NEW ff \in BOOLEAN
    PROVE  Step(st, threshold, auto, ph, fh, ff) \in Decisions
<1>1. CASE st.state = WGPrimary
  <2>1. Step(st, threshold, auto, ph, fh, ff) = StepWGPrimary(st, threshold, auto, ph, fh)
    BY <1>1 DEF Step, WGPrimary, FailbackInProgress, SSHPrimary, Degraded
  <2> DEFINE counted == [st EXCEPT !.failures = @ + 1]
  <2>2. counted \in TransportStates
    BY DEF TransportStates
  <2>3. /\ Stay(InitialState) \in Decisions
        /\ Stay(counted) \in Decisions
        /\ EnterDegraded(counted, TRUE) \in Decisions
        /\ StartFailback(counted) \in Decisions
    BY <2>2 DEF Stay, Enter, EnterDegraded, StartFailback, InitialState, Decisions,
       TransportStates, TransportModes, WGPrimary, FailbackInProgress, SSHPrimary, Degraded
  <2>4. counted.failures \in Nat
    BY <2>2 DEF TransportStates
  <2>5. CASE ph
    BY <2>1, <2>3, <2>5 DEF StepWGPrimary
  <2>6. CASE ~ph /\ counted.failures < threshold
    BY <2>1, <2>3, <2>4, <2>6 DEF StepWGPrimary
  <2>7. CASE ~ph /\ counted.failures >= threshold
    BY <2>1, <2>3, <2>4, <2>7 DEF StepWGPrimary
  <2> QED  BY <2>4, <2>5, <2>6, <2>7
<1>2. CASE st.state = FailbackInProgress
  BY <1>2 DEF Step, StepFailbackInProgress, Stay, Enter, EnterDegraded,
     Decisions, TransportStates, TransportModes, WGPrimary, FailbackInProgress, SSHPrimary, Degraded
<1>3. CASE st.state = SSHPrimary
  BY <1>3 DEF Step, StepSSHPrimary, Stay, Enter, EnterDegraded, FailForward, InitialState,
     Decisions, TransportStates, TransportModes, WGPrimary, FailbackInProgress, SSHPrimary, Degraded
<1>4. CASE st.state = Degraded
  BY <1>4 DEF Step, StepDegraded, Stay, Enter, StartFailback, FailForward, InitialState,
     Decisions, TransportStates, TransportModes, WGPrimary, FailbackInProgress, SSHPrimary, Degraded
<1> QED  BY <1>1, <1>2, <1>3, <1>4 DEF TransportStates, TransportModes

(* What a decision may be, by the state it is made in. *)
StepFacts(st, threshold, auto, ph, fh, ff, d) ==
    /\ d.toSSH => /\ fh /\ ~ph /\ auto /\ ~d.toWG
                  /\ st.state \in {WGPrimary, Degraded}
                  /\ d.next.state = FailbackInProgress
                  /\ st.state = WGPrimary => st.failures + 1 >= threshold
    /\ d.toWG => /\ ff /\ ph
                 /\ st.state \in {SSHPrimary, Degraded}
                 /\ d.next = InitialState
    /\ ~d.toSSH /\ ~d.toWG =>
          \/ d.next.state = st.state
          \/ st.state = FailbackInProgress /\ d.next.state = SSHPrimary /\ fh
          \/ st.state # Degraded /\ d.next.state = Degraded
    /\ st.state = WGPrimary /\ d.next.state = WGPrimary =>
          IF ph THEN d.next.failures = 0 ELSE d.next.failures = st.failures + 1

\* Out of WG_PRIMARY Step decides a cutover at the threshold only, and where it
\* is allowed; back to it on a request only.
LEMMA StepDecides ==
    ASSUME NEW st \in TransportStates, NEW threshold \in Nat, NEW auto \in BOOLEAN,
           NEW ph \in BOOLEAN, NEW fh \in BOOLEAN, NEW ff \in BOOLEAN
    PROVE  StepFacts(st, threshold, auto, ph, fh, ff, Step(st, threshold, auto, ph, fh, ff))
<1>1. CASE st.state = WGPrimary
  BY <1>1 DEF StepFacts, Step, StepWGPrimary, Stay, Enter, EnterDegraded, StartFailback, InitialState,
     TransportStates, TransportModes, WGPrimary, FailbackInProgress, SSHPrimary, Degraded
<1>2. CASE st.state = FailbackInProgress
  BY <1>2 DEF StepFacts, Step, StepFailbackInProgress, Stay, Enter, EnterDegraded,
     TransportStates, TransportModes, WGPrimary, FailbackInProgress, SSHPrimary, Degraded
<1>3. CASE st.state = SSHPrimary
  BY <1>3 DEF StepFacts, Step, StepSSHPrimary, Stay, Enter, EnterDegraded, FailForward, InitialState,
     TransportStates, TransportModes, WGPrimary, FailbackInProgress, SSHPrimary, Degraded
<1>4. CASE st.state = Degraded
  BY <1>4 DEF StepFacts, Step, StepDegraded, Stay, Enter, StartFailback, FailForward, InitialState,
     TransportStates, TransportModes, WGPrimary, FailbackInProgress, SSHPrimary, Degraded
<1> QED  BY <1>1, <1>2, <1>3, <1>4 DEF TransportStates, TransportModes

-----------------------------------------------------------------------------
(* Type correctness. *)

\* The values a start begins with are typed.
LEMMA Constants_Type ==
    /\ InitialState \in TransportStates
    /\ Absent \in Entries
    /\ NoEntries \in [Backends -> Entries]
    /\ NoDecision \in Decisions
    /\ \A e \in [Backends -> Entries], b \in Backends : Get(e, b) \in TransportStates
    /\ Address \in [Backends -> Destinations]
BY AddressAssumption
   DEF InitialState, Absent, Entries, NoEntries, NoDecision, Stay, Decisions, TransportStates,
       TransportModes, Get, WGPrimary, FailbackInProgress, SSHPrimary, Degraded, Destinations

\* An agent that starts anew is typed.
LEMMA ForgetType ==
    ASSUME TypeOK, NEW a \in Agents, Forget(a)
    PROVE  /\ at' \in [Agents -> 1..(NumBackends + 1)]
           /\ seen' \in [Agents -> SUBSET Backends]
           /\ mem' \in [Agents -> [Backends -> Entries]]
           /\ prev' \in [Agents -> [Backends -> Entries]]
           /\ alias' \in [Agents -> BOOLEAN]
           /\ dec' \in [Agents -> Decisions]
           /\ well' \in [Agents -> SUBSET Backends]
           /\ cuts' \in [Agents -> SUBSET Backends]
<1>1. 1 \in 1..(NumBackends + 1)
  BY NumBackendsAssumption
<1>2. NoEntries \in [Backends -> Entries] /\ NoDecision \in Decisions
  BY Constants_Type
<1>3. /\ mem' \in [Agents -> [Backends -> Entries]]
      /\ prev' \in [Agents -> [Backends -> Entries]]
      /\ dec' \in [Agents -> Decisions]
  BY <1>2 DEF TypeOK, Forget
<1>4. /\ seen' \in [Agents -> SUBSET Backends]
      /\ well' \in [Agents -> SUBSET Backends]
      /\ cuts' \in [Agents -> SUBSET Backends]
  BY DEF TypeOK, Forget
<1>5. at' \in [Agents -> 1..(NumBackends + 1)] /\ alias' \in [Agents -> BOOLEAN]
  BY <1>1 DEF TypeOK, Forget
<1> QED  BY <1>3, <1>4, <1>5

\* File.Put of an entry keeps a file a file.
LEMMA PutType ==
    ASSUME TypeOK, NEW a \in Agents, NEW b \in Backends, NEW st \in TransportStates, Put(a, b, st)
    PROVE  /\ mem' \in [Agents -> [Backends -> Entries]]
           /\ prev' \in [Agents -> [Backends -> Entries]]
           /\ alias' \in [Agents -> BOOLEAN]
           /\ at' \in [Agents -> 1..(NumBackends + 1)]
<1>1. st \in Entries
  BY DEF Entries
<1>2. b + 1 \in 1..(NumBackends + 1)
  BY NumBackendsAssumption DEF Backends
<1>3. [mem EXCEPT ![a][b] = st] \in [Agents -> [Backends -> Entries]]
  BY <1>1 DEF TypeOK
<1>4. [prev EXCEPT ![a][b] = st] \in [Agents -> [Backends -> Entries]]
  BY <1>1 DEF TypeOK
<1>5. /\ at \in [Agents -> 1..(NumBackends + 1)]
      /\ prev \in [Agents -> [Backends -> Entries]]
      /\ alias \in [Agents -> BOOLEAN]
  BY DEF TypeOK
<1>6. at' \in [Agents -> 1..(NumBackends + 1)]
  BY <1>2, <1>5 DEF Put
<1>7. alias' \in [Agents -> BOOLEAN]
  BY <1>5 DEF Put
<1> QED  BY <1>3, <1>4, <1>5, <1>6, <1>7 DEF Put

\* A commit keeps the types.
LEMMA CommitType ==
    ASSUME TypeOK, NEW e \in [Backends -> Entries], Commit(e)
    PROVE  file' \in [Backends -> Entries] /\ forwards' \in [Backends -> Nat]
<1>1. forwards \in [Backends -> Nat]
  BY DEF TypeOK
<1> QED  BY <1>1 DEF Commit

\* The number of faults stays in its bound.
LEMMA FaultType ==
    ASSUME TypeOK, Fault
    PROVE  /\ faults' \in 0..MaxFaults
           /\ UNCHANGED <<outage, boots>>
<1>1. faults \in 0..MaxFaults
  BY DEF TypeOK
<1> QED  BY <1>1, BoundsAssumption DEF Fault

(* The decision Evaluate takes is well formed. *)
EvaluatedDecision(a, p, f) ==
    Step(Get(mem[a], at[a]), Threshold[at[a]], AutoFailback[at[a]],
         ~PrimaryFailed(p), FallbackHealthy(f), at[a] \in seen[a])

\* The verdicts over a snapshot are verdicts.
LEMMA VerdictsBoolean ==
    ASSUME TypeOK, NEW a \in Agents, at[a] \in WGTun,
           NEW p \in PrimaryProbe, NEW f \in FallbackProbe(at[a])
    PROVE  /\ at[a] \in Backends
           /\ Get(mem[a], at[a]) \in TransportStates
           /\ Threshold[at[a]] \in Nat /\ Threshold[at[a]] > 0
           /\ AutoFailback[at[a]] \in BOOLEAN
           /\ PrimaryFailed(p) \in BOOLEAN
           /\ FallbackHealthy(f) \in BOOLEAN
           /\ FallbackHealthy(f) => at[a] \in SSHTun
<1>1. at[a] \in Backends
  BY TunnelsAssumption
<1>2. Get(mem[a], at[a]) \in TransportStates
  BY <1>1, Constants_Type DEF TypeOK
<1>3. Threshold[at[a]] \in Nat /\ Threshold[at[a]] > 0 /\ AutoFailback[at[a]] \in BOOLEAN
  BY <1>1, PolicyAssumption
<1>4. PrimaryFailed(p) \in BOOLEAN
  BY DEF PrimaryFailed
<1>5. f \in Snapshots
  <2>1. ZeroSnapshot \in Snapshots
    BY DEF ZeroSnapshot, Snapshots
  <2> QED  BY <2>1, SnapshotsAssumption DEF FallbackProbe
<1>6. FallbackHealthy(f) \in BOOLEAN
  BY <1>5 DEF FallbackHealthy, Snapshots
<1>7. FallbackHealthy(f) => at[a] \in SSHTun
  BY DEF FallbackHealthy, FallbackProbe, ZeroSnapshot
<1> QED  BY <1>1, <1>2, <1>3, <1>4, <1>6, <1>7

\* What an evaluation decides is a decision.
LEMMA EvaluatedDecisionType ==
    ASSUME TypeOK, NEW a \in Agents, at[a] \in WGTun,
           NEW p \in PrimaryProbe, NEW f \in FallbackProbe(at[a])
    PROVE  EvaluatedDecision(a, p, f) \in Decisions
<1> DEFINE ph == ~PrimaryFailed(p)
           fh == FallbackHealthy(f)
           ff == at[a] \in seen[a]
<1>1. /\ Get(mem[a], at[a]) \in TransportStates
      /\ Threshold[at[a]] \in Nat
      /\ AutoFailback[at[a]] \in BOOLEAN
      /\ ph \in BOOLEAN /\ fh \in BOOLEAN /\ ff \in BOOLEAN
  BY VerdictsBoolean
<1> HIDE DEF ph, fh, ff
<1>2. Step(Get(mem[a], at[a]), Threshold[at[a]], AutoFailback[at[a]], ph, fh, ff) \in Decisions
  BY <1>1, StepType
<1> QED  BY <1>2 DEF EvaluatedDecision, ph, fh, ff

\* The first state is typed.
LEMMA InitType == Init => TypeOK
<1>1. 1 \in 1..(NumBackends + 1)
  BY NumBackendsAssumption
<1>2. 0 \in 0..MaxRequests /\ 0 \in 0..MaxFaults
  BY BoundsAssumption
<1>3. NoEntries \in [Backends -> Entries] /\ NoDecision \in Decisions
  BY Constants_Type
<1> SUFFICES ASSUME Init PROVE TypeOK
  OBVIOUS
<1>4. /\ intents \in [Backends -> 0..MaxRequests]
      /\ reported \in [Backends -> TransportModes \cup {""}]
      /\ dnat \in [Backends -> Destinations]
      /\ badRun \in [Backends -> Nat]
      /\ forwards \in [Backends -> Nat]
  BY <1>2 DEF Init, Destinations
<1>5. /\ pc \in [Agents -> ControlStates]
      /\ at \in [Agents -> 1..(NumBackends + 1)]
      /\ mem \in [Agents -> [Backends -> Entries]]
      /\ prev \in [Agents -> [Backends -> Entries]]
      /\ dec \in [Agents -> Decisions]
  BY <1>1, <1>3 DEF Init, ControlStates
<1> QED  BY <1>2, <1>3, <1>4, <1>5 DEF Init, TypeOK

(* Every step preserves the type invariant: one case per action. *)
LEMMA TypeStep == TypeOK /\ [Next]_vars => TypeOK'
<1> SUFFICES ASSUME TypeOK, [Next]_vars PROVE TypeOK'
  OBVIOUS
<1>1. ASSUME NEW b \in Backends, OperatorFailback(b) PROVE TypeOK'
  <2>1. intents' \in [Backends -> 0..MaxRequests]
    <3>1. intents[b] \in 0..MaxRequests /\ intents[b] < MaxRequests
      BY <1>1 DEF TypeOK, OperatorFailback
    <3>2. intents[b] + 1 \in 0..MaxRequests
      BY <3>1, BoundsAssumption
    <3> QED  BY <1>1, <3>2 DEF TypeOK, OperatorFailback
  <2> QED  BY <1>1, <2>1 DEF TypeOK, OperatorFailback, hostVars, localVars, envVars
<1>2. CASE Stabilise
  BY <1>2 DEF TypeOK, Stabilise, hostVars, localVars
<1>3. ASSUME NEW a \in Agents, Fetch(a) PROVE TypeOK'
  BY <1>3 DEF TypeOK, Fetch, hostVars, envVars, ControlStates
<1>4. ASSUME NEW a \in Agents, Acquire(a) PROVE TypeOK'
  BY <1>4 DEF TypeOK, Acquire, envVars, ControlStates, Critical
<1>5. ASSUME NEW a \in Agents, LockTimeout(a) PROVE TypeOK'
  BY <1>5, ForgetType DEF TypeOK, LockTimeout, hostVars, envVars, ControlStates
<1>6. ASSUME NEW a \in Agents, Reconcile(a) PROVE TypeOK'
  <2>1. StoredRoute(mem[a]) \in [Backends -> Destinations]
    BY Constants_Type DEF StoredRoute, Destinations
  <2> QED  BY <1>6, <2>1 DEF TypeOK, Reconcile, envVars, ControlStates, Critical
<1>7. ASSUME NEW a \in Agents, Skip(a) PROVE TypeOK'
  <2>1. at[a] \in 1..NumBackends /\ at[a] + 1 \in 1..(NumBackends + 1)
    BY <1>7, NumBackendsAssumption DEF Skip, Backends
  <2> QED  BY <1>7, <2>1 DEF TypeOK, Skip, hostVars, envVars
<1>8. ASSUME NEW a \in Agents, Evaluate(a) PROVE TypeOK'
  <2>1. PICK p \in PrimaryProbe, f \in FallbackProbe(at[a]) :
           LET b == at[a]
               cur == Get(mem[a], b)
               d == EvaluatedDecision(a, p, f)
           IN  /\ badRun' = IF cur.state = WGPrimary /\ PrimaryFailed(p) /\ badRun[b] < Threshold[b]
                            THEN [badRun EXCEPT ![b] = @ + 1] ELSE badRun
               /\ well' = [well EXCEPT ![a] = IF PrimaryFailed(p) \/ d.next.state # WGPrimary
                                         THEN @ \ {b} ELSE @ \cup {b}]
               /\ IF Live(a) /\ (d.toSSH \/ d.toWG)
                  THEN /\ pc' = [pc EXCEPT ![a] = "cutover"]
                       /\ dec' = [dec EXCEPT ![a] = d]
                       /\ UNCHANGED <<at, mem, prev, alias>>
                  ELSE /\ Put(a, b, d.next)
                       /\ UNCHANGED <<pc, dec>>
    BY <1>8 DEF Evaluate, EvaluatedDecision
  <2>2. at[a] \in Backends /\ at[a] \in WGTun
    BY <1>8, TunnelsAssumption DEF Evaluate
  <2>3. EvaluatedDecision(a, p, f) \in Decisions
    BY <2>2, EvaluatedDecisionType
  <2>4. EvaluatedDecision(a, p, f).next \in TransportStates
    BY <2>3 DEF Decisions
  <2>5. badRun' \in [Backends -> Nat]
    <3>1. badRun \in [Backends -> Nat]
      BY DEF TypeOK
    <3> QED  BY <2>1, <2>2, <3>1
  <2>6. /\ intents' = intents /\ reported' = reported /\ file' = file /\ dnat' = dnat
        /\ lock' = lock /\ seen' = seen /\ cuts' = cuts /\ outage' = outage
        /\ faults' = faults /\ boots' = boots /\ settled' = settled /\ forwards' = forwards
    BY <1>8 DEF Evaluate, hostVars, envVars
  <2>7. /\ mem' \in [Agents -> [Backends -> Entries]]
        /\ prev' \in [Agents -> [Backends -> Entries]]
        /\ alias' \in [Agents -> BOOLEAN]
        /\ at' \in [Agents -> 1..(NumBackends + 1)]
        /\ pc' \in [Agents -> ControlStates]
        /\ dec' \in [Agents -> Decisions]
    <3>1. CASE Live(a) /\ (EvaluatedDecision(a, p, f).toSSH \/ EvaluatedDecision(a, p, f).toWG)
      <4>1. /\ pc' = [pc EXCEPT ![a] = "cutover"]
            /\ dec' = [dec EXCEPT ![a] = EvaluatedDecision(a, p, f)]
            /\ UNCHANGED <<at, mem, prev, alias>>
        BY <3>1, <2>1
      <4> QED  BY <4>1, <2>3 DEF TypeOK, ControlStates, Critical
    <3>2. CASE ~(Live(a) /\ (EvaluatedDecision(a, p, f).toSSH \/ EvaluatedDecision(a, p, f).toWG))
      <4>1. Put(a, at[a], EvaluatedDecision(a, p, f).next) /\ UNCHANGED <<pc, dec>>
        BY <3>2, <2>1
      <4>2. /\ mem' \in [Agents -> [Backends -> Entries]]
            /\ prev' \in [Agents -> [Backends -> Entries]]
            /\ alias' \in [Agents -> BOOLEAN]
            /\ at' \in [Agents -> 1..(NumBackends + 1)]
        BY <4>1, <2>2, <2>4, PutType
      <4> QED  BY <4>1, <4>2 DEF TypeOK
    <3> QED  BY <3>1, <3>2
  <2>8. well' \in [Agents -> SUBSET Backends]
    <3>1. well \in [Agents -> SUBSET Backends]
      BY DEF TypeOK
    <3>2. well' = [well EXCEPT ![a] = IF PrimaryFailed(p) \/ EvaluatedDecision(a, p, f).next.state # WGPrimary
                                     THEN @ \ {at[a]} ELSE @ \cup {at[a]}]
      BY <2>1
    <3> QED  BY <2>2, <3>1, <3>2
  <2> QED  BY <2>5, <2>6, <2>7, <2>8 DEF TypeOK
<1>9. ASSUME NEW a \in Agents, Cutover(a) PROVE TypeOK'
  <2>1. at[a] \in Backends
    BY <1>9, TunnelsAssumption DEF Cutover
  <2>2. dec[a].next \in TransportStates
    BY DEF TypeOK, Decisions
  <2>3. /\ mem' \in [Agents -> [Backends -> Entries]]
        /\ prev' \in [Agents -> [Backends -> Entries]]
        /\ alias' \in [Agents -> BOOLEAN]
        /\ at' \in [Agents -> 1..(NumBackends + 1)]
    BY <1>9, <2>1, <2>2, PutType DEF Cutover
  <2>4. dnat' \in [Backends -> Destinations]
    BY <1>9, <2>1, Constants_Type DEF Cutover, DesiredRouteWith, Destinations
  <2>5. dec' \in [Agents -> Decisions] /\ cuts' \in [Agents -> SUBSET Backends]
    BY <1>9, <2>1, Constants_Type DEF Cutover, TypeOK
  <2> QED  BY <1>9, <2>3, <2>4, <2>5 DEF TypeOK, Cutover, envVars, ControlStates, Critical
<1>10. ASSUME NEW a \in Agents, CutoverRefused(a) PROVE TypeOK'
  <2>1. prev[a] \in [Backends -> Entries]
    BY DEF TypeOK
  <2>2. file' \in [Backends -> Entries] /\ forwards' \in [Backends -> Nat]
    BY <1>10, <2>1, CommitType DEF CutoverRefused
  <2> QED  BY <1>10, <2>2, ForgetType
           DEF TypeOK, CutoverRefused, ReturnError, NoFault, envVars, ControlStates
<1>11. ASSUME NEW a \in Agents, SaveState(a) PROVE TypeOK'
  <2>1. mem[a] \in [Backends -> Entries]
    BY DEF TypeOK
  <2>2. file' \in [Backends -> Entries] /\ forwards' \in [Backends -> Nat]
    BY <1>11, <2>1, CommitType DEF SaveState
  <2>3. badRun' \in [Backends -> Nat]
    BY <1>11 DEF SaveState, TypeOK
  <2> QED  BY <1>11, <2>2, <2>3 DEF TypeOK, SaveState, envVars, ControlStates
<1>12. ASSUME NEW a \in Agents, Report(a) PROVE TypeOK'
  <2>1. reported' \in [Backends -> TransportModes \cup {""}]
    <3>1. \A e \in Entries : e.state \in TransportModes \cup {""}
      <4>1. \A e \in TransportStates : e.state \in TransportModes
        BY DEF TransportStates
      <4>2. Absent.state = ""
        BY DEF Absent
      <4> QED  BY <4>1, <4>2 DEF Entries
    <3>2. \A b \in Backends : mem[a][b] \in Entries
      BY DEF TypeOK
    <3> QED  BY <1>12, <3>1, <3>2 DEF Report
  <2> QED  BY <1>12, <2>1, ForgetType DEF TypeOK, Report, ReturnNothing, hostVars, envVars, ControlStates
<1>13. ASSUME NEW a \in Agents, ReconcileFails(a) PROVE TypeOK'
  BY <1>13, ForgetType, FaultType DEF TypeOK, ReconcileFails, ReturnError, ControlStates
<1>14. ASSUME NEW a \in Agents, ProbeFails(a) PROVE TypeOK'
  BY <1>14, ForgetType, FaultType DEF TypeOK, ProbeFails, ReturnError, ControlStates
<1>15. ASSUME NEW a \in Agents, CutoverFails(a) PROVE TypeOK'
  <2>1. prev[a] \in [Backends -> Entries]
    BY DEF TypeOK
  <2>2. file' \in [Backends -> Entries] /\ forwards' \in [Backends -> Nat]
    BY <1>15, <2>1, CommitType DEF CutoverFails, TypeOK
  <2> QED  BY <1>15, <2>2, ForgetType, FaultType DEF TypeOK, CutoverFails, ReturnError, ControlStates
<1>16. ASSUME NEW a \in Agents, SaveFails(a) PROVE TypeOK'
  BY <1>16, FaultType DEF TypeOK, SaveFails, ControlStates
<1>17. ASSUME NEW a \in Agents, ReportFails(a) PROVE TypeOK'
  BY <1>17, ForgetType, FaultType DEF TypeOK, ReportFails, ReturnNothing, hostVars, ControlStates
<1>18. ASSUME NEW a \in Agents, Crash(a) PROVE TypeOK'
  BY <1>18, ForgetType, FaultType DEF TypeOK, Crash, ReturnNothing, ControlStates
<1>19. CASE Reboot
  <2>1. 1 \in 1..(NumBackends + 1)
    BY NumBackendsAssumption
  <2>2. faults' \in 0..MaxFaults /\ boots' \in Nat
    <3>1. faults \in 0..MaxFaults /\ boots \in Nat
      BY DEF TypeOK
    <3> QED  BY <1>19, <3>1, BoundsAssumption DEF Reboot
  <2>3. NoEntries \in [Backends -> Entries] /\ NoDecision \in Decisions
    BY Constants_Type
  <2> QED  BY <1>19, <2>1, <2>2, <2>3 DEF TypeOK, Reboot, ControlStates, Destinations
<1>20. ASSUME NEW a \in Agents, AcquireFails(a) PROVE TypeOK'
  BY <1>20, ForgetType, FaultType DEF TypeOK, AcquireFails, hostVars, ControlStates
<1>21. CASE UNCHANGED vars
  BY <1>21 DEF TypeOK, vars, hostVars, localVars, envVars
<1> QED  BY <1>1, <1>2, <1>3, <1>4, <1>5, <1>6, <1>7, <1>8, <1>9, <1>10, <1>11, <1>12, <1>13,
            <1>14, <1>15, <1>16, <1>17, <1>18, <1>19, <1>20, <1>21 DEF Next, AgentStep, AgentFault

(* No sequence of operator requests, ticks, faults and reboots takes the   *)
(* failover state out of its types.                                        *)
THEOREM TypeCorrect == Spec => []TypeOK
BY InitType, TypeStep, PTL DEF Spec

-----------------------------------------------------------------------------
(* The inductive invariant.  The properties of Failover speak of the file  *)
(* and the rules between cycles, or of one control point; the strengthening *)
(* says what the agent inside the lock knows of its copies in memory.      *)

ModeOf(e) == IF e = Absent THEN WGPrimary ELSE e.state

(* An entry on SSH belongs to a backend that may fail over. *)
HasTunnel(b, e) ==
    e.state \in {SSHPrimary, FailbackInProgress} => b \in SSHTun /\ AutoFailback[b]

(* The counter of an entry is covered by n observed failures. *)
Covered(b, e, n) == e.state = WGPrimary => e.failures <= n \/ n = Threshold[b]

(* One commit may take mode m to mode n. *)
Edge(m, n, req) ==
    \/ n = m
    \/ m \in {WGPrimary, Degraded} /\ n = FailbackInProgress
    \/ m = FailbackInProgress /\ n = SSHPrimary
    \/ m # Degraded /\ n = Degraded
    \/ req /\ m \in {SSHPrimary, Degraded} /\ n = WGPrimary

(* Rules pointing to dest suit mode m. *)
Suits(b, m, dest) ==
    /\ m \in {SSHPrimary, FailbackInProgress} => dest = "ssh"
    /\ m = WGPrimary => dest \in {"wg", Address[b]}

EntryOK(b, e) ==
    /\ HasTunnel(b, e)
    /\ Covered(b, e, badRun[b])
    /\ Edge(ModeOf(file[b]), ModeOf(e), intents[b] > 0)

(* Whoever is inside the lock is alone there; what it may write to disk,   *)
(* from `mem' or from `prev', is one step ahead of the disk at most.       *)
WorkInv ==
    \A a \in Agents : pc[a] \in Critical =>
        /\ lock = {a}
        /\ \A b \in Backends :
              /\ EntryOK(b, mem[a][b])
              /\ EntryOK(b, prev[a][b])
              /\ b >= at[a] => mem[a][b] = file[b] /\ prev[a][b] = file[b]

FileInv ==
    \A b \in Backends :
        /\ HasTunnel(b, file[b])
        /\ Covered(b, file[b], badRun[b])
        /\ badRun[b] <= Threshold[b]

SeenInv == \A a \in Agents : \A b \in seen[a] : intents[b] > 0

(* A decision on its way through a cutover. *)
CutInv ==
    \A a \in Agents : pc[a] = "cutover" =>
        /\ at[a] \in WGTun
        /\ dec[a].toSSH =>
              /\ at[a] \in SSHTun /\ AutoFailback[at[a]]
              /\ dec[a].next.state = FailbackInProgress
              /\ ModeOf(file[at[a]]) \in {WGPrimary, Degraded}
              /\ ModeOf(file[at[a]]) = WGPrimary => badRun[at[a]] = Threshold[at[a]]
        /\ ~dec[a].toSSH =>
              /\ dec[a].next = InitialState
              /\ ModeOf(file[at[a]]) \in {SSHPrimary, Degraded}
              /\ intents[at[a]] > 0

(* A backend found healthy in this cycle has a fresh counter, if it is on  *)
(* WireGuard.                                                              *)
WellInv ==
    \A a \in Agents : pc[a] \in Critical =>
        \A b \in well[a] : mem[a][b].state = WGPrimary => mem[a][b].failures = 0

(* Inside a live cycle, the rules suit the states in memory of every       *)
(* backend whose rules no other backend's cutover has rewritten.           *)
RouteWork ==
    \A a \in Agents : pc[a] \in {"eval", "cutover"} /\ Live(a) =>
        \A b \in Backends : cuts[a] \subseteq {b} => Suits(b, ModeOf(mem[a][b]), dnat[b])

RouteRest == lock = {} => \A b \in settled : Suits(b, ModeOf(file[b]), dnat[b])

IInv ==
    /\ TypeOK
    /\ WorkInv
    /\ FileInv
    /\ SeenInv
    /\ CutInv
    /\ WellInv
    /\ RouteWork
    /\ RouteRest

(* Only agent a moved. *)
OthersKeep(a) ==
    \A c \in Agents \ {a} :
        /\ pc'[c] = pc[c] /\ at'[c] = at[c] /\ mem'[c] = mem[c] /\ prev'[c] = prev[c]
        /\ dec'[c] = dec[c] /\ cuts'[c] = cuts[c] /\ seen'[c] = seen[c] /\ well'[c] = well[c]

(* The part of the invariant that speaks of agents inside the lock. *)
InsideInv == WorkInv /\ CutInv /\ WellInv /\ RouteWork

(* Where an agent stays out of the lock, or leaves it, nothing is left to  *)
(* show about it; and if it was inside, about nobody.                      *)
LEMMA Leaves ==
    ASSUME InsideInv, NEW a \in Agents, OthersKeep(a),
           pc'[a] \notin Critical,
           lock' \in {lock, lock \ {a}},
           pc[a] \notin Critical => UNCHANGED <<file, dnat, badRun, intents>>
    PROVE  InsideInv'
<1>1. ASSUME NEW c \in Agents, pc'[c] \in Critical
      PROVE  c # a /\ pc[c] \in Critical /\ lock = {c} /\ pc[a] \notin Critical
  <2>1. c # a /\ pc[c] \in Critical
    BY <1>1 DEF OthersKeep
  <2> QED  BY <2>1 DEF InsideInv, WorkInv
<1>2. ASSUME NEW c \in Agents, pc'[c] \in Critical
      PROVE  /\ lock' = {c}
             /\ UNCHANGED <<file, dnat, badRun, intents>>
             /\ pc'[c] = pc[c] /\ at'[c] = at[c] /\ mem'[c] = mem[c] /\ prev'[c] = prev[c]
             /\ dec'[c] = dec[c] /\ cuts'[c] = cuts[c] /\ well'[c] = well[c]
  BY <1>1, <1>2 DEF OthersKeep
<1>3. WorkInv'
  <2> SUFFICES ASSUME NEW c \in Agents, pc'[c] \in Critical
               PROVE  /\ lock' = {c}
                      /\ \A b \in Backends :
                            /\ EntryOK(b, mem[c][b])'
                            /\ EntryOK(b, prev[c][b])'
                            /\ b >= at'[c] => mem'[c][b] = file'[b] /\ prev'[c][b] = file'[b]
    BY DEF WorkInv
  <2> QED  BY <1>1, <1>2 DEF InsideInv, WorkInv, EntryOK
<1>4. CutInv'
  BY <1>1, <1>2 DEF InsideInv, CutInv, Critical
<1>5. RouteWork'
  BY <1>1, <1>2 DEF InsideInv, RouteWork, Critical, Live
<1>6. WellInv'
  BY <1>1, <1>2 DEF InsideInv, WellInv
<1> QED  BY <1>3, <1>4, <1>5, <1>6 DEF InsideInv

\* An agent that starts anew holds nothing that could be out of date.
LEMMA ForgetKeeps ==
    ASSUME TypeOK, NEW a \in Agents, NEW x, pc' = [pc EXCEPT ![a] = x], Forget(a)
    PROVE  OthersKeep(a) /\ pc'[a] = x
BY DEF TypeOK, Forget, OthersKeep

(* FileInv survives a commit of entries that are one step ahead. *)
LEMMA CommitKeepsFileInv ==
    ASSUME FileInv, NEW e \in [Backends -> Entries], Commit(e), UNCHANGED badRun,
           \A b \in Backends : EntryOK(b, e[b])
    PROVE  FileInv'
BY DEF FileInv, Commit, EntryOK

-----------------------------------------------------------------------------
(* Evaluate and Cutover: the steps that make new entries. *)

\* An entry is not the lack of one.
LEMMA NotAbsent == \A e \in TransportStates : e # Absent
<1>1. Absent.state = ""
  BY DEF Absent
<1>2. \A e \in TransportStates : e.state \in TransportModes
  BY DEF TransportStates
<1>3. "" \notin TransportModes
  BY DEF TransportModes, WGPrimary, FailbackInProgress, SSHPrimary, Degraded
<1> QED  BY <1>1, <1>2, <1>3

(* One evaluation's effect on the failures counted for the backend. *)
Counted(b, failed, cur) ==
    IF cur.state = WGPrimary /\ failed /\ badRun[b] < Threshold[b]
    THEN [badRun EXCEPT ![b] = @ + 1] ELSE badRun

\* The history counter moves for the evaluated backend only, up to its threshold.
LEMMA CountedFacts ==
    ASSUME TypeOK, FileInv, NEW b \in Backends, NEW failed \in BOOLEAN, NEW cur
    PROVE  LET n == Counted(b, failed, cur)
           IN  /\ \A c \in Backends : c # b => n[c] = badRun[c]
               /\ n[b] \in Nat /\ n[b] <= Threshold[b]
               /\ n[b] >= badRun[b]
               /\ badRun[b] = Threshold[b] => n[b] = Threshold[b]
               /\ cur.state = WGPrimary /\ failed /\ badRun[b] < Threshold[b] => n[b] = badRun[b] + 1
<1>1. badRun \in [Backends -> Nat] /\ Threshold[b] \in Nat /\ badRun[b] <= Threshold[b]
  BY PolicyAssumption DEF TypeOK, FileInv
<1> QED  BY <1>1 DEF Counted

(* What an evaluation decides, in terms of the entry on disk. *)
LEMMA EvaluateDecides ==
    ASSUME TypeOK, WorkInv, FileInv, SeenInv,
           NEW a \in Agents, pc[a] = "eval", at[a] \in WGTun,
           NEW p \in PrimaryProbe, NEW f \in FallbackProbe(at[a])
    PROVE  LET b == at[a]
               d == EvaluatedDecision(a, p, f)
               n == Counted(b, PrimaryFailed(p), Get(mem[a], b))
               m == ModeOf(file[b])
           IN  /\ HasTunnel(b, d.next)
               /\ Covered(b, d.next, n[b])
               /\ Edge(m, ModeOf(d.next), intents[b] > 0)
               /\ ~d.toSSH /\ ~d.toWG =>
                     \A dest : Suits(b, m, dest) => Suits(b, ModeOf(d.next), dest)
               /\ ~PrimaryFailed(p) /\ d.next.state = WGPrimary => d.next.failures = 0
               /\ d.toSSH => /\ b \in SSHTun /\ AutoFailback[b] /\ PrimaryFailed(p)
                             /\ d.next.state = FailbackInProgress
                             /\ m \in {WGPrimary, Degraded}
                             /\ m = WGPrimary => n[b] = Threshold[b]
               /\ d.toWG => /\ d.next = InitialState
                            /\ m \in {SSHPrimary, Degraded}
                            /\ intents[b] > 0
<1> DEFINE b == at[a]
           cur == Get(mem[a], b)
           ph == ~PrimaryFailed(p)
           fh == FallbackHealthy(f)
           ff == b \in seen[a]
           d == EvaluatedDecision(a, p, f)
           n == Counted(b, PrimaryFailed(p), cur)
           m == ModeOf(file[b])
<1>1. b \in Backends /\ b \in WGTun /\ mem[a][b] = file[b]
  <2>1. b \in Backends
    BY TunnelsAssumption
  <2>2. b >= b
    BY <2>1 DEF Backends
  <2> QED  BY <2>1, <2>2 DEF WorkInv, Critical
<1>2. /\ cur \in TransportStates
      /\ Threshold[b] \in Nat
      /\ Threshold[b] > 0
      /\ AutoFailback[b] \in BOOLEAN
      /\ ph \in BOOLEAN /\ fh \in BOOLEAN /\ ff \in BOOLEAN
      /\ PrimaryFailed(p) \in BOOLEAN
      /\ fh => b \in SSHTun
  BY VerdictsBoolean
<1>3. /\ cur.state = m
      /\ HasTunnel(b, cur)
      /\ Covered(b, cur, badRun[b])
      /\ badRun[b] \in Nat
  <2>1. HasTunnel(b, file[b]) /\ Covered(b, file[b], badRun[b]) /\ badRun[b] \in Nat
    BY <1>1 DEF FileInv, TypeOK
  <2>2. cur = IF file[b] = Absent THEN InitialState ELSE file[b]
    BY <1>1 DEF Get
  <2> HIDE DEF cur, b
  <2>3. CASE file[b] = Absent
    BY <2>1, <2>2, <2>3 DEF ModeOf, HasTunnel, Covered, InitialState,
       WGPrimary, SSHPrimary, FailbackInProgress
  <2>4. CASE file[b] # Absent
    BY <2>1, <2>2, <2>4 DEF ModeOf
  <2> QED  BY <2>3, <2>4
<1>4. ff => intents[b] > 0
  BY DEF SeenInv
<1>5. StepFacts(cur, Threshold[b], AutoFailback[b], ph, fh, ff, d) /\ d \in Decisions
  <2> HIDE DEF cur, ph, fh, ff, b
  <2>1. /\ StepFacts(cur, Threshold[b], AutoFailback[b], ph, fh, ff,
                     Step(cur, Threshold[b], AutoFailback[b], ph, fh, ff))
        /\ Step(cur, Threshold[b], AutoFailback[b], ph, fh, ff) \in Decisions
    BY <1>2, StepDecides, StepType
  <2>2. d = Step(cur, Threshold[b], AutoFailback[b], ph, fh, ff)
    BY DEF EvaluatedDecision, cur, ph, fh, ff, b
  <2> QED  BY <2>1, <2>2
<1>6. /\ n[b] \in Nat /\ n[b] <= Threshold[b]
      /\ n[b] >= badRun[b]
      /\ badRun[b] = Threshold[b] => n[b] = Threshold[b]
      /\ cur.state = WGPrimary /\ ~ph /\ badRun[b] < Threshold[b] => n[b] = badRun[b] + 1
  <2> HIDE DEF cur, b
  <2>1. b \in Backends /\ PrimaryFailed(p) \in BOOLEAN
    BY <1>1, <1>2
  <2> QED  BY <2>1, CountedFacts
<1>7. d.next \in TransportStates /\ d.next # Absent /\ ModeOf(d.next) = d.next.state
  <2> HIDE DEF d
  <2>1. d.next \in TransportStates
    BY <1>5 DEF Decisions
  <2>2. \A e \in TransportStates : e # Absent
    BY NotAbsent
  <2> QED  BY <2>1, <2>2 DEF ModeOf
<1> HIDE DEF b, cur, ph, fh, ff, d, n, m
<1>8. /\ d.toSSH \in BOOLEAN /\ d.toWG \in BOOLEAN
      /\ d.next.failures \in Nat /\ cur.failures \in Nat
      /\ d.next.state \in TransportModes /\ cur.state \in TransportModes
  BY <1>2, <1>5 DEF Decisions, TransportStates
<1>9. HasTunnel(b, d.next)
  BY <1>2, <1>3, <1>5, <1>8 DEF StepFacts, HasTunnel, InitialState,
     WGPrimary, FailbackInProgress, SSHPrimary, Degraded
<1>10. Covered(b, d.next, n[b])
  <2>1. CASE d.toWG
    BY <2>1, <1>5, <1>6 DEF StepFacts, Covered, InitialState
  <2>2. CASE d.toSSH
    BY <2>2, <1>5 DEF StepFacts, Covered, FailbackInProgress, WGPrimary
  <2>3. CASE ~d.toSSH /\ ~d.toWG
    <3> SUFFICES ASSUME d.next.state = WGPrimary
                 PROVE  d.next.failures <= n[b] \/ n[b] = Threshold[b]
      BY DEF Covered
    <3>1. cur.state = WGPrimary
      BY <2>3, <1>5 DEF StepFacts, WGPrimary, FailbackInProgress, SSHPrimary, Degraded
    <3>2. IF ph THEN d.next.failures = 0 ELSE d.next.failures = cur.failures + 1
      BY <3>1, <1>5 DEF StepFacts
    <3>3. cur.failures <= badRun[b] \/ badRun[b] = Threshold[b]
      BY <3>1, <1>3 DEF Covered
    <3> QED  BY <3>1, <3>2, <3>3, <1>2, <1>3, <1>6, <1>8
  <2> QED  BY <2>1, <2>2, <2>3, <1>8
<1>11. d.toSSH => /\ b \in SSHTun /\ AutoFailback[b] /\ PrimaryFailed(p)
                  /\ d.next.state = FailbackInProgress
                  /\ m \in {WGPrimary, Degraded}
                  /\ m = WGPrimary => n[b] = Threshold[b]
  <2> SUFFICES ASSUME d.toSSH
               PROVE  /\ b \in SSHTun /\ AutoFailback[b] /\ PrimaryFailed(p)
                      /\ d.next.state = FailbackInProgress
                      /\ m \in {WGPrimary, Degraded}
                      /\ m = WGPrimary => n[b] = Threshold[b]
    OBVIOUS
  <2>1. /\ fh /\ ~ph /\ AutoFailback[b] /\ cur.state \in {WGPrimary, Degraded}
        /\ d.next.state = FailbackInProgress
        /\ cur.state = WGPrimary => cur.failures + 1 >= Threshold[b]
    BY <1>5 DEF StepFacts
  <2>2. m = WGPrimary => n[b] = Threshold[b]
    <3> SUFFICES ASSUME m = WGPrimary PROVE n[b] = Threshold[b]
      OBVIOUS
    <3>1. cur.failures <= badRun[b] \/ badRun[b] = Threshold[b]
      BY <1>3 DEF Covered
    <3> QED  BY <2>1, <3>1, <1>2, <1>3, <1>6, <1>8
  <2> QED  BY <2>1, <2>2, <1>2, <1>3 DEF ph
<1>12. d.toWG => /\ d.next = InitialState
                 /\ m \in {SSHPrimary, Degraded}
                 /\ intents[b] > 0
  BY <1>3, <1>4, <1>5 DEF StepFacts
<1>13. Edge(m, ModeOf(d.next), intents[b] > 0)
  BY <1>3, <1>5, <1>7, <1>8, <1>11, <1>12 DEF StepFacts, Edge, InitialState
<1>14. ~d.toSSH /\ ~d.toWG => \A dest : Suits(b, m, dest) => Suits(b, ModeOf(d.next), dest)
  BY <1>3, <1>5, <1>7, <1>8 DEF StepFacts, Suits, WGPrimary, FailbackInProgress, SSHPrimary, Degraded
<1>15. ph /\ d.next.state = WGPrimary => d.next.failures = 0
  BY <1>5, <1>8 DEF StepFacts, InitialState, WGPrimary, FailbackInProgress, SSHPrimary, Degraded
<1> QED  BY <1>9, <1>10, <1>11, <1>12, <1>13, <1>14, <1>15 DEF b, cur, d, n, m, ph

(* Writing an entry that is one step ahead into memory keeps WorkInv: the  *)
(* in-place update may leak into `prev', which then is one step ahead too. *)
LEMMA PutKeepsWork ==
    ASSUME TypeOK, WorkInv, NEW a \in Agents, pc[a] \in Critical, pc'[a] \in Critical,
           OthersKeep(a), NEW b \in Backends, b = at[a],
           NEW st \in TransportStates, Put(a, b, st),
           UNCHANGED <<file, intents, lock>>,
           \A c \in Backends : c # b => badRun'[c] = badRun[c],
           HasTunnel(b, st), Covered(b, st, badRun'[b]), Covered(b, file[b], badRun'[b]),
           Edge(ModeOf(file[b]), ModeOf(st), intents[b] > 0)
    PROVE  WorkInv'
<1>1. \A c \in Agents : pc'[c] \in Critical => c = a
  BY DEF WorkInv, OthersKeep
<1>2. lock = {a} /\ at'[a] = b + 1
  BY DEF WorkInv, Put, TypeOK
<1>3. \A c \in Backends : mem'[a][c] = IF c = b THEN st ELSE mem[a][c]
  BY DEF Put, TypeOK
<1>4. prev'[a][b] \in {st, file[b]} /\ \A c \in Backends : c # b => prev'[a][c] = prev[a][c]
  <2>1. b >= at[a]
    BY DEF Backends
  <2>2. prev[a][b] = file[b]
    BY <2>1 DEF WorkInv
  <2>3. prev' = [prev EXCEPT ![a][b] = st] \/ prev' = prev
    BY DEF Put
  <2>4. prev \in [Agents -> [Backends -> Entries]]
    BY DEF TypeOK
  <2>5. CASE prev' = [prev EXCEPT ![a][b] = st]
    BY <2>4, <2>5
  <2>6. CASE prev' = prev
    BY <2>2, <2>6
  <2> QED  BY <2>3, <2>5, <2>6
<1>5. HasTunnel(b, file[b])
  <2>1. b >= at[a]
    BY DEF Backends
  <2> QED  BY <2>1 DEF WorkInv, EntryOK
<1>6. ASSUME NEW c \in Backends
      PROVE  /\ EntryOK(c, mem[a][c])'
             /\ EntryOK(c, prev[a][c])'
             /\ c >= at'[a] => mem'[a][c] = file'[c] /\ prev'[a][c] = file'[c]
  <2>1. CASE c = b
    <3>1. EntryOK(b, st)'
      BY DEF EntryOK
    <3>2. EntryOK(b, file[b])'
      BY <1>5 DEF EntryOK, Edge
    <3>3. ~(b >= b + 1)
      BY DEF Backends
    <3>4. mem'[a][b] = st
      BY <1>3
    <3>5. EntryOK(b, mem[a][b])'
      BY <3>1, <3>4 DEF EntryOK
    <3>6. EntryOK(b, prev[a][b])'
      BY <3>1, <3>2, <1>4 DEF EntryOK
    <3> QED  BY <2>1, <3>3, <3>5, <3>6, <1>2
  <2>2. CASE c # b
    <3>1. mem'[a][c] = mem[a][c] /\ prev'[a][c] = prev[a][c] /\ badRun'[c] = badRun[c]
      BY <2>2, <1>3, <1>4
    <3>2. EntryOK(c, mem[a][c]) /\ EntryOK(c, prev[a][c])
      BY DEF WorkInv
    <3>3. c >= b + 1 => c >= at[a]
      BY DEF Backends
    <3>4. c >= at'[a] => mem[a][c] = file[c] /\ prev[a][c] = file[c]
      BY <3>3, <1>2 DEF WorkInv
    <3> QED  BY <3>1, <3>2, <3>4 DEF EntryOK
  <2> QED  BY <2>1, <2>2
<1> QED  BY <1>1, <1>2, <1>6 DEF WorkInv

\* Evaluating a backend keeps the invariant.
LEMMA EvaluateKeeps ==
    ASSUME IInv, NEW a \in Agents, Evaluate(a)
    PROVE  InsideInv' /\ FileInv'
<1> USE DEF IInv
<1>0. pc[a] = "eval" /\ at[a] \in WGTun /\ at[a] \in Backends /\ pc[a] \in Critical
  BY TunnelsAssumption DEF Evaluate, Critical
<1>1. PICK p \in PrimaryProbe, f \in FallbackProbe(at[a]) :
         LET b == at[a]
             d == EvaluatedDecision(a, p, f)
         IN  /\ badRun' = Counted(b, PrimaryFailed(p), Get(mem[a], b))
             /\ well' = [well EXCEPT ![a] = IF PrimaryFailed(p) \/ d.next.state # WGPrimary
                                         THEN @ \ {b} ELSE @ \cup {b}]
             /\ IF Live(a) /\ (d.toSSH \/ d.toWG)
                THEN /\ pc' = [pc EXCEPT ![a] = "cutover"]
                     /\ dec' = [dec EXCEPT ![a] = d]
                     /\ UNCHANGED <<at, mem, prev, alias>>
                ELSE /\ Put(a, b, d.next)
                     /\ UNCHANGED <<pc, dec>>
  BY DEF Evaluate, EvaluatedDecision, Counted
<1> DEFINE b == at[a]
           d == EvaluatedDecision(a, p, f)
           m == ModeOf(file[b])
<1>2. UNCHANGED <<intents, file, dnat, lock, seen, cuts>>
  BY DEF Evaluate, hostVars
<1>3. PrimaryFailed(p) \in BOOLEAN
  BY <1>0, VerdictsBoolean
<1>4. /\ \A c \in Backends : c # b => badRun'[c] = badRun[c]
      /\ badRun'[b] \in Nat /\ badRun[b] \in Nat
      /\ badRun'[b] <= Threshold[b]
      /\ badRun'[b] >= badRun[b]
      /\ badRun[b] = Threshold[b] => badRun'[b] = Threshold[b]
  <2>1. TypeOK /\ FileInv /\ badRun' = Counted(at[a], PrimaryFailed(p), Get(mem[a], at[a]))
    BY <1>1
  <2>2. badRun[b] \in Nat
    BY <1>0 DEF TypeOK
  <2> DEFINE n == Counted(at[a], PrimaryFailed(p), Get(mem[a], at[a]))
  <2>3. /\ \A c \in Backends : c # at[a] => n[c] = badRun[c]
        /\ n[at[a]] \in Nat /\ n[at[a]] <= Threshold[at[a]]
        /\ n[at[a]] >= badRun[at[a]]
        /\ badRun[at[a]] = Threshold[at[a]] => n[at[a]] = Threshold[at[a]]
    BY <1>0, <1>3, CountedFacts
  <2> QED  BY <2>1, <2>2, <2>3
<1>5. /\ HasTunnel(b, d.next)
      /\ Covered(b, d.next, badRun'[b])
      /\ Edge(m, ModeOf(d.next), intents[b] > 0)
      /\ ~d.toSSH /\ ~d.toWG => \A dest : Suits(b, m, dest) => Suits(b, ModeOf(d.next), dest)
      /\ ~PrimaryFailed(p) /\ d.next.state = WGPrimary => d.next.failures = 0
      /\ d.toSSH => /\ b \in SSHTun /\ AutoFailback[b] /\ PrimaryFailed(p)
                    /\ d.next.state = FailbackInProgress
                    /\ m \in {WGPrimary, Degraded}
                    /\ m = WGPrimary => badRun'[b] = Threshold[b]
      /\ d.toWG => /\ d.next = InitialState
                   /\ m \in {SSHPrimary, Degraded}
                   /\ intents[b] > 0
  <2>1. TypeOK /\ WorkInv /\ FileInv /\ SeenInv
    OBVIOUS
  <2>2. badRun' = Counted(at[a], PrimaryFailed(p), Get(mem[a], at[a]))
    BY <1>1
  <2> QED  BY <1>0, <2>1, <2>2, EvaluateDecides
<1>6. d \in Decisions /\ d.next \in TransportStates
  BY <1>0, EvaluatedDecisionType DEF Decisions
<1>7. \A c \in Backends : \A n1, n2 \in Nat : \A e :
         (e.state = WGPrimary => e.failures \in Nat) =>
         (Covered(c, e, n1) /\ n1 <= n2 /\ (n1 = Threshold[c] => n2 = Threshold[c]) => Covered(c, e, n2))
  BY DEF Covered
<1>8. \A e \in Entries : e.state = WGPrimary => e.failures \in Nat
  <2>1. \A e \in TransportStates : e.failures \in Nat
    BY DEF TransportStates
  <2>2. Absent.failures = 0
    BY DEF Absent
  <2> QED  BY <2>1, <2>2 DEF Entries
<1>9. \A e \in Entries : Covered(b, e, badRun[b]) => Covered(b, e, badRun'[b])
  BY <1>0, <1>4, <1>7, <1>8
<1>10. Covered(b, file[b], badRun'[b])
  BY <1>0, <1>9 DEF FileInv, TypeOK
<1>11. FileInv'
  <2> SUFFICES ASSUME NEW c \in Backends
               PROVE  /\ HasTunnel(c, file'[c])
                      /\ Covered(c, file'[c], badRun'[c])
                      /\ badRun'[c] <= Threshold[c]
    BY DEF FileInv
  <2> QED  BY <1>2, <1>4, <1>10 DEF FileInv
<1> HIDE DEF b, d, m
<1>w. /\ well'[a] = IF PrimaryFailed(p) \/ d.next.state # WGPrimary
                   THEN well[a] \ {b} ELSE well[a] \cup {b}
      /\ \A c \in Agents \ {a} : well'[c] = well[c]
      /\ b \in Backends /\ mem[a][b] = file[b]
  <2>1. at[a] >= at[a]
    BY <1>0 DEF Backends
  <2>2. well' = [well EXCEPT ![a] = IF PrimaryFailed(p) \/ EvaluatedDecision(a, p, f).next.state # WGPrimary
                                     THEN @ \ {at[a]} ELSE @ \cup {at[a]}]
    BY <1>1
  <2> QED  BY <1>0, <2>1, <2>2 DEF b, d, TypeOK, WorkInv
<1>12. CASE Live(a) /\ (d.toSSH \/ d.toWG)
  <2>1. /\ pc' = [pc EXCEPT ![a] = "cutover"]
        /\ dec' = [dec EXCEPT ![a] = d]
        /\ UNCHANGED <<at, mem, prev, alias>>
    BY <1>1, <1>12 DEF b, d
  <2>2. pc'[a] = "cutover" /\ dec'[a] = d /\ \A c \in Agents \ {a} : pc'[c] = pc[c] /\ dec'[c] = dec[c]
    BY <2>1 DEF TypeOK
  <2>3. \A c \in Agents : pc'[c] \in Critical => c = a
    BY <1>0, <2>2 DEF WorkInv
  <2>4. WorkInv'
    <3> SUFFICES ASSUME NEW c \in Backends
                 PROVE  /\ EntryOK(c, mem[a][c])'
                        /\ EntryOK(c, prev[a][c])'
                        /\ c >= at'[a] => mem'[a][c] = file'[c] /\ prev'[a][c] = file'[c]
      BY <1>0, <1>2, <2>3 DEF WorkInv
    <3>1. EntryOK(c, mem[a][c]) /\ EntryOK(c, prev[a][c])
      BY <1>0 DEF WorkInv
    <3>2. mem[a][c] \in Entries /\ prev[a][c] \in Entries
      BY DEF TypeOK
    <3>3. EntryOK(c, mem[a][c])' /\ EntryOK(c, prev[a][c])'
      BY <3>1, <3>2, <2>1, <1>2, <1>4, <1>9 DEF EntryOK
    <3> QED  BY <3>3, <1>0, <1>2, <2>1 DEF WorkInv
  <2>5. CutInv'
    <3>1. \A c \in Agents : pc'[c] = "cutover" => c = a
      BY <2>3 DEF Critical
    <3>2. d.toSSH \in BOOLEAN
      BY <1>6 DEF Decisions
    <3> QED  BY <3>1, <3>2, <1>0, <1>2, <1>5, <1>12, <2>1, <2>2 DEF CutInv, b, m
  <2>6. RouteWork'
    <3>1. \A c \in Agents : pc'[c] \in {"eval", "cutover"} => c = a
      BY <2>3 DEF Critical
    <3> QED  BY <3>1, <1>0, <1>2, <2>1 DEF RouteWork, Live
  <2>7. WellInv'
    <3> SUFFICES ASSUME NEW c \in well'[a], mem[a][c].state = WGPrimary
                 PROVE  mem[a][c].failures = 0
      BY <2>1, <2>3 DEF WellInv
    <3>1. CASE c \in well[a]
      BY <3>1, <1>0 DEF WellInv
    <3>2. CASE c = b /\ ~PrimaryFailed(p)
      <4>1. m \in {SSHPrimary, Degraded}
        BY <3>2, <1>5, <1>12
      <4>2. Absent.state = ""
        BY DEF Absent
      <4> QED  BY <3>2, <4>1, <4>2, <1>w DEF m, ModeOf, WGPrimary, SSHPrimary, Degraded
    <3> QED  BY <3>1, <3>2, <1>w
  <2> QED  BY <1>11, <2>4, <2>5, <2>6, <2>7 DEF InsideInv
<1>13. CASE ~(Live(a) /\ (d.toSSH \/ d.toWG))
  <2>1. Put(a, b, d.next) /\ UNCHANGED <<pc, dec>>
    BY <1>1, <1>13 DEF b, d
  <2>2. OthersKeep(a)
    BY <2>1, <1>2, <1>w DEF OthersKeep, Put, TypeOK
  <2>3. b \in Backends /\ b = at[a]
    BY <1>0 DEF b
  <2>4. WorkInv'
    BY <2>1, <2>2, <2>3, <1>0, <1>2, <1>4, <1>5, <1>6, <1>10, PutKeepsWork DEF m
  <2>5. \A c \in Agents : pc'[c] \in Critical => c = a
    BY <1>0, <2>1 DEF WorkInv
  <2>6. CutInv'
    BY <1>0, <2>1, <2>5 DEF CutInv, Critical
  <2>7. RouteWork'
    <3> SUFFICES ASSUME Live(a), NEW c \in Backends, cuts[a] \subseteq {c}
                 PROVE  Suits(c, ModeOf(mem'[a][c]), dnat[c])
      BY <2>5, <1>2 DEF RouteWork, Critical, Live
    <3>1. Suits(c, ModeOf(mem[a][c]), dnat[c])
      BY <1>0 DEF RouteWork
    <3>2. mem'[a][c] = IF c = b THEN d.next ELSE mem[a][c]
      BY <2>1, <2>3 DEF Put, TypeOK
    <3>3. mem[a][b] = file[b]
      BY <1>0, <2>3 DEF WorkInv, Backends
    <3> QED  BY <3>1, <3>2, <3>3, <1>5, <1>13 DEF m
  <2>8. WellInv'
    <3> SUFFICES ASSUME NEW c \in well'[a], mem'[a][c].state = WGPrimary
                 PROVE  mem'[a][c].failures = 0
      BY <2>5 DEF WellInv
    <3>1. c \in Backends
      <4>1. well[a] \subseteq Backends
        BY DEF TypeOK
      <4> QED  BY <4>1, <1>w
    <3>2. mem'[a][c] = IF c = b THEN d.next ELSE mem[a][c]
      BY <2>1, <2>3, <3>1 DEF Put, TypeOK
    <3>3. CASE c = b
      BY <3>2, <3>3, <1>5, <1>w
    <3>4. CASE c # b
      BY <3>2, <3>4, <1>0, <1>w DEF WellInv
    <3> QED  BY <3>3, <3>4
  <2> QED  BY <1>11, <2>4, <2>6, <2>7, <2>8 DEF InsideInv
<1> QED  BY <1>12, <1>13

\* A cutover that succeeds keeps the invariant.
LEMMA CutoverKeeps ==
    ASSUME IInv, NEW a \in Agents, Cutover(a)
    PROVE  InsideInv'
<1> USE DEF IInv
<1> DEFINE b == at[a]
           st == dec[a].next
<1>1. /\ pc[a] = "cutover" /\ pc[a] \in Critical /\ pc'[a] = "eval"
      /\ b \in WGTun /\ b \in Backends
      /\ Put(a, b, st)
      /\ UNCHANGED <<file, lock, intents, badRun>>
      /\ dnat' = DesiredRouteWith(b, IF dec[a].toSSH THEN "ssh" ELSE "wg")
      /\ cuts' = [cuts EXCEPT ![a] = @ \cup {b}]
      /\ well' = well
  BY TunnelsAssumption DEF Cutover, Critical, TypeOK
<1>2. OthersKeep(a)
  BY <1>1 DEF OthersKeep, Cutover, Put, TypeOK
<1>3. st \in TransportStates /\ ModeOf(st) = st.state /\ dec[a].toSSH \in BOOLEAN
  <2>1. st \in TransportStates /\ dec[a].toSSH \in BOOLEAN
    BY DEF TypeOK, Decisions
  <2> QED  BY <2>1, NotAbsent DEF ModeOf
<1>4. /\ dec[a].toSSH => /\ b \in SSHTun /\ AutoFailback[b]
                         /\ st.state = FailbackInProgress
                         /\ ModeOf(file[b]) \in {WGPrimary, Degraded}
      /\ ~dec[a].toSSH => /\ st = InitialState
                          /\ ModeOf(file[b]) \in {SSHPrimary, Degraded}
                          /\ intents[b] > 0
  BY <1>1 DEF CutInv
<1>5. badRun[b] \in Nat /\ Covered(b, file[b], badRun[b])
  BY <1>1 DEF FileInv, TypeOK
<1>6. /\ HasTunnel(b, st)
      /\ Covered(b, st, badRun[b])
      /\ Edge(ModeOf(file[b]), ModeOf(st), intents[b] > 0)
  BY <1>3, <1>4, <1>5 DEF HasTunnel, Covered, Edge, InitialState,
     WGPrimary, FailbackInProgress, SSHPrimary, Degraded
<1> HIDE DEF b, st
<1>7. b = at[a]
  BY DEF b
<1>8. WorkInv'
  BY <1>1, <1>2, <1>3, <1>5, <1>6, <1>7, PutKeepsWork DEF Critical
<1>9. \A c \in Agents : pc'[c] \in Critical => c = a
  BY <1>1, <1>2 DEF WorkInv, OthersKeep
<1>10. CutInv'
  BY <1>1, <1>9 DEF CutInv, Critical
<1>11. RouteWork'
  <2> SUFFICES ASSUME NEW c \in Backends, cuts'[a] \subseteq {c}
               PROVE  Suits(c, ModeOf(mem'[a][c]), dnat'[c])
    BY <1>9 DEF RouteWork, Critical, Live
  <2>1. c = b
    BY <1>1 DEF TypeOK
  <2>2. mem'[a][b] = st
    BY <1>1 DEF Put, TypeOK
  <2>3. dnat'[b] = IF dec[a].toSSH THEN "ssh" ELSE "wg"
    BY <1>1, AddressAssumption DEF DesiredRouteWith
  <2> QED  BY <2>1, <2>2, <2>3, <1>3, <1>4 DEF Suits, InitialState,
     WGPrimary, FailbackInProgress, SSHPrimary, Degraded
<1>12. WellInv'
  <2> SUFFICES ASSUME NEW c \in well[a], mem'[a][c].state = WGPrimary
               PROVE  mem'[a][c].failures = 0
    BY <1>1, <1>9 DEF WellInv
  <2>1. c \in Backends
    BY DEF TypeOK
  <2>2. mem'[a][c] = IF c = b THEN st ELSE mem[a][c]
    BY <1>1, <2>1 DEF Put, TypeOK
  <2>3. CASE c = b
    BY <2>2, <2>3, <1>3, <1>4 DEF InitialState, WGPrimary, FailbackInProgress
  <2>4. CASE c # b
    BY <2>2, <2>4, <1>1 DEF WellInv
  <2> QED  BY <2>3, <2>4
<1> QED  BY <1>8, <1>10, <1>11, <1>12 DEF InsideInv

\* The reconcile with the stored overlays keeps the invariant.
LEMMA ReconcileKeeps ==
    ASSUME IInv, NEW a \in Agents, Reconcile(a)
    PROVE  InsideInv'
<1> USE DEF IInv
<1>1. /\ pc[a] = "locked" /\ pc[a] \in Critical /\ pc'[a] = "eval"
      /\ UNCHANGED <<file, lock, intents, badRun, at, mem, prev, dec, cuts, seen, well>>
      /\ dnat' = IF Live(a) THEN StoredRoute(mem[a]) ELSE dnat
      /\ \A c \in Agents \ {a} : pc'[c] = pc[c]
  BY DEF Reconcile, Critical, TypeOK, envVars
<1>2. \A c \in Agents : pc'[c] \in Critical => c = a
  BY <1>1 DEF WorkInv
<1>3. WorkInv'
  BY <1>1, <1>2 DEF WorkInv, EntryOK
<1>4. CutInv'
  BY <1>1, <1>2 DEF CutInv, Critical
<1>5. RouteWork'
  <2> SUFFICES ASSUME Live(a), NEW c \in Backends
               PROVE  Suits(c, ModeOf(mem[a][c]), dnat'[c])
    BY <1>1, <1>2 DEF RouteWork, Critical, Live
  <2>1. dnat'[c] = IF mem[a][c].state \in {SSHPrimary, FailbackInProgress} /\ c \in SSHTun
                   THEN "ssh" ELSE Address[c]
    BY <1>1 DEF StoredRoute
  <2>2. HasTunnel(c, mem[a][c])
    BY <1>1 DEF WorkInv, EntryOK
  <2>3. Absent.state = ""
    BY DEF Absent
  <2> QED  BY <2>1, <2>2, <2>3 DEF HasTunnel, Suits, ModeOf,
     WGPrimary, FailbackInProgress, SSHPrimary, Degraded
<1>6. WellInv'
  BY <1>1, <1>2 DEF WellInv
<1> QED  BY <1>3, <1>4, <1>5, <1>6 DEF InsideInv

\* A backend that is not evaluated keeps its entry.
LEMMA SkipKeeps ==
    ASSUME IInv, NEW a \in Agents, Skip(a)
    PROVE  InsideInv'
<1> USE DEF IInv
<1>1. /\ pc[a] = "eval" /\ pc[a] \in Critical
      /\ UNCHANGED <<pc, file, dnat, lock, intents, badRun, mem, prev, dec, cuts, seen, well>>
      /\ at[a] \in Backends
      /\ at'[a] = at[a] + 1
  BY DEF Skip, Critical, TypeOK, hostVars
<1>2. \A c \in Agents : pc'[c] \in Critical => c = a
  BY <1>1 DEF WorkInv
<1>3. \A b \in Backends : b >= at'[a] => b >= at[a]
  BY <1>1 DEF Backends
<1>4. WorkInv'
  BY <1>1, <1>2, <1>3 DEF WorkInv, EntryOK
<1>5. CutInv'
  BY <1>1, <1>2 DEF CutInv, Critical
<1>6. RouteWork'
  BY <1>1, <1>2 DEF RouteWork, Critical, Live
<1>7. WellInv'
  BY <1>1, <1>2 DEF WellInv
<1> QED  BY <1>4, <1>5, <1>6, <1>7 DEF InsideInv

\* The holder of the lock works on a copy of the file.
LEMMA AcquireKeeps ==
    ASSUME IInv, NEW a \in Agents, Acquire(a)
    PROVE  InsideInv'
<1> USE DEF IInv
<1>1. /\ lock = {} /\ lock' = {a} /\ pc'[a] = "locked"
      /\ UNCHANGED <<file, dnat, intents, badRun, at, dec, cuts, seen>>
      /\ mem'[a] = file /\ prev'[a] = file /\ well'[a] = {}
      /\ \A c \in Agents \ {a} : pc'[c] = pc[c]
  BY DEF Acquire, TypeOK
<1>2. \A c \in Agents : pc'[c] \in Critical => c = a
  BY <1>1 DEF WorkInv
<1>3. WorkInv'
  <2>1. \A b \in Backends : EntryOK(b, mem[a][b])' /\ EntryOK(b, prev[a][b])'
    <3> TAKE b \in Backends
    <3>1. mem'[a][b] = file[b] /\ prev'[a][b] = file[b]
      BY <1>1
    <3>2. EntryOK(b, file[b])
      BY DEF FileInv, EntryOK, Edge, ModeOf
    <3> QED  BY <1>1, <3>1, <3>2 DEF EntryOK
  <2> QED  BY <1>1, <1>2, <2>1 DEF WorkInv
<1>4. CutInv' /\ RouteWork' /\ WellInv'
  BY <1>1, <1>2 DEF CutInv, RouteWork, WellInv, Critical
<1> QED  BY <1>3, <1>4 DEF InsideInv

-----------------------------------------------------------------------------
(* The rest of the invariant and the other actions. *)

\* A request is recorded; nothing else moves.
LEMMA OperatorKeeps ==
    ASSUME IInv, NEW b \in Backends, OperatorFailback(b)
    PROVE  InsideInv' /\ FileInv' /\ SeenInv' /\ RouteRest'
<1> USE DEF IInv
<1>1. /\ UNCHANGED <<pc, at, mem, prev, dec, cuts, seen, well, file, dnat, lock, badRun, settled>>
      /\ \A c \in Backends : intents[c] \in Nat /\ intents'[c] \in Nat /\ intents'[c] >= intents[c]
  <2>1. intents \in [Backends -> Nat] /\ intents' = [intents EXCEPT ![b] = @ + 1]
    <3>1. intents \in [Backends -> 0..MaxRequests]
      BY DEF TypeOK
    <3> QED  BY <3>1, BoundsAssumption DEF OperatorFailback
  <2> QED  BY <2>1 DEF OperatorFailback, hostVars, localVars
<1>2. \A c \in Backends : intents[c] > 0 => intents'[c] > 0
  BY <1>1
<1>3. WorkInv'
  <2>1. \A c \in Backends : \A e : EntryOK(c, e) => Edge(ModeOf(file[c]), ModeOf(e), intents'[c] > 0)
    BY <1>2 DEF EntryOK, Edge
  <2>2. ASSUME NEW a \in Agents, pc[a] \in Critical, NEW c \in Backends
        PROVE  EntryOK(c, mem[a][c])' /\ EntryOK(c, prev[a][c])'
    <3>1. EntryOK(c, mem[a][c]) /\ EntryOK(c, prev[a][c])
      BY <2>2 DEF WorkInv
    <3> QED  BY <3>1, <2>1, <1>1 DEF EntryOK
  <2> QED  BY <2>2, <1>1 DEF WorkInv
<1>4. CutInv'
  <2>1. \A a \in Agents : pc[a] = "cutover" => at[a] \in Backends
    BY TunnelsAssumption DEF CutInv
  <2> QED  BY <1>1, <1>2, <2>1 DEF CutInv
<1>5. RouteWork' /\ RouteRest' /\ FileInv' /\ WellInv'
  BY <1>1 DEF RouteWork, RouteRest, FileInv, WellInv, Live
<1>6. SeenInv'
  <2>1. \A a \in Agents : seen[a] \subseteq Backends
    BY DEF TypeOK
  <2> QED  BY <1>1, <1>2, <2>1 DEF SeenInv
<1> QED  BY <1>3, <1>4, <1>5, <1>6 DEF InsideInv

(* Steps of an agent that is outside the lock and stays outside. *)
LEMMA OutsideKeeps ==
    ASSUME IInv, NEW a \in Agents, Fetch(a) \/ LockTimeout(a) \/ AcquireFails(a) \/ Report(a) \/ ReportFails(a)
    PROVE  InsideInv' /\ FileInv' /\ SeenInv' /\ RouteRest'
<1> USE DEF IInv
<1>1. UNCHANGED <<file, dnat, lock, badRun, intents, settled>> /\ pc[a] \notin Critical
  BY DEF Fetch, LockTimeout, AcquireFails, Report, ReportFails, hostVars, Critical
<1>2. OthersKeep(a) /\ pc'[a] \notin Critical
  <2>1. CASE Fetch(a)
    BY <2>1 DEF Fetch, OthersKeep, TypeOK, Critical
  <2>2. CASE LockTimeout(a) \/ AcquireFails(a)
    <3>1. OthersKeep(a) /\ pc'[a] = "reportNil"
      BY <2>2, ForgetKeeps DEF LockTimeout, AcquireFails
    <3> QED  BY <3>1 DEF Critical
  <2>3. CASE Report(a) \/ ReportFails(a)
    <3>1. OthersKeep(a) /\ pc'[a] = "idle"
      BY <2>3, ForgetKeeps DEF Report, ReportFails, ReturnNothing
    <3> QED  BY <3>1 DEF Critical
  <2> QED  BY <2>1, <2>2, <2>3
<1>3. InsideInv'
  BY <1>1, <1>2, Leaves DEF InsideInv
<1>4. FileInv' /\ RouteRest'
  BY <1>1 DEF FileInv, RouteRest
<1>5. SeenInv'
  <2>1. seen'[a] \in {{}, {b \in Backends : intents[b] > 0}}
    BY DEF Fetch, LockTimeout, AcquireFails, Report, ReportFails, ReturnNothing, Forget, TypeOK
  <2> QED  BY <1>1, <1>2, <2>1 DEF SeenInv, OthersKeep
<1> QED  BY <1>3, <1>4, <1>5

(* An agent leaves the lock without touching the file. *)
LEMMA AbortKeeps ==
    ASSUME IInv, NEW a \in Agents,
           ReconcileFails(a) \/ ProbeFails(a) \/ SaveFails(a) \/ Crash(a)
    PROVE  InsideInv' /\ FileInv' /\ SeenInv' /\ RouteRest'
<1> USE DEF IInv
<1>1. /\ UNCHANGED <<file, badRun, intents>>
      /\ lock' = lock \ {a}
      /\ pc[a] \notin Critical => UNCHANGED dnat
      /\ settled' = {} \/ (settled' = settled /\ a \notin lock)
  BY DEF ReconcileFails, ProbeFails, SaveFails, Crash, ReturnError, Critical
<1>2. OthersKeep(a) /\ pc'[a] \notin Critical /\ seen'[a] \subseteq seen[a]
  <2>1. CASE ReconcileFails(a) \/ ProbeFails(a)
    <3>1. pc' = [pc EXCEPT ![a] = "reportNil"] /\ Forget(a)
      BY <2>1 DEF ReconcileFails, ProbeFails, ReturnError
    <3>2. seen'[a] = {}
      BY <3>1 DEF Forget, TypeOK
    <3> QED  BY <3>1, <3>2, ForgetKeeps DEF Critical
  <2>2. CASE Crash(a)
    <3>1. pc' = [pc EXCEPT ![a] = "idle"] /\ Forget(a)
      BY <2>2 DEF Crash, ReturnNothing
    <3>2. seen'[a] = {}
      BY <3>1 DEF Forget, TypeOK
    <3> QED  BY <3>1, <3>2, ForgetKeeps DEF Critical
  <2>3. CASE SaveFails(a)
    BY <2>3 DEF SaveFails, OthersKeep, TypeOK, Critical
  <2> QED  BY <2>1, <2>2, <2>3
<1>3. InsideInv'
  BY <1>1, <1>2, Leaves DEF InsideInv
<1>4. FileInv'
  BY <1>1 DEF FileInv
<1>5. SeenInv'
  BY <1>1, <1>2 DEF SeenInv, OthersKeep
<1>6. RouteRest'
  <2>1. CASE settled' = {}
    BY <2>1 DEF RouteRest
  <2>2. CASE settled' = settled /\ a \notin lock
    <3>1. pc[a] \notin Critical
      BY <2>2 DEF WorkInv
    <3> QED  BY <1>1, <2>2, <3>1 DEF RouteRest
  <2> QED  BY <1>1, <2>1, <2>2
<1> QED  BY <1>3, <1>4, <1>5, <1>6

(* A cutover is refused or fails, and Save(prev) may or may not succeed. *)
LEMMA RestoreKeeps ==
    ASSUME IInv, NEW a \in Agents, CutoverRefused(a) \/ CutoverFails(a)
    PROVE  InsideInv' /\ FileInv' /\ SeenInv' /\ RouteRest'
<1> USE DEF IInv
<1>1. /\ UNCHANGED <<badRun, intents>>
      /\ lock' = lock \ {a}
      /\ pc[a] \in Critical
      /\ settled' = {}
      /\ pc' = [pc EXCEPT ![a] = "reportNil"]
      /\ Forget(a)
  BY DEF CutoverRefused, CutoverFails, ReturnError, Critical
<1>2. OthersKeep(a) /\ pc'[a] = "reportNil"
  BY <1>1, ForgetKeeps
<1>3. InsideInv'
  BY <1>1, <1>2, Leaves DEF InsideInv, Critical
<1>4. FileInv'
  <2>1. CASE UNCHANGED file
    BY <2>1, <1>1 DEF FileInv
  <2>2. CASE Commit(prev[a])
    <3>1. prev[a] \in [Backends -> Entries]
      BY DEF TypeOK
    <3>2. \A b \in Backends : EntryOK(b, prev[a][b])
      BY <1>1 DEF WorkInv
    <3> QED  BY <2>2, <3>1, <3>2, <1>1, CommitKeepsFileInv
  <2> QED  BY <2>1, <2>2 DEF CutoverRefused, CutoverFails
<1>5. SeenInv'
  <2>1. seen'[a] = {}
    BY <1>1 DEF Forget, TypeOK
  <2> QED  BY <1>1, <1>2, <2>1 DEF SeenInv, OthersKeep
<1>6. RouteRest'
  BY <1>1 DEF RouteRest
<1> QED  BY <1>3, <1>4, <1>5, <1>6

\* SaveState commits what was evaluated.
LEMMA SaveKeeps ==
    ASSUME IInv, NEW a \in Agents, SaveState(a)
    PROVE  InsideInv' /\ FileInv' /\ SeenInv' /\ RouteRest'
<1> USE DEF IInv
<1>1. /\ pc[a] = "eval" /\ pc[a] \in Critical
      /\ pc'[a] = "report"
      /\ lock' = lock \ {a}
      /\ file' = mem[a]
      /\ settled' = IF Live(a) THEN {b \in Backends : cuts[a] \subseteq {b}} ELSE {}
      /\ badRun' = [b \in Backends |-> IF b \in well[a] THEN 0 ELSE badRun[b]]
      /\ UNCHANGED <<intents, dnat, seen>>
  BY DEF SaveState, Commit, Critical, TypeOK
<1>2. OthersKeep(a)
  BY DEF SaveState, OthersKeep, TypeOK
<1>3. InsideInv'
  BY <1>1, <1>2, Leaves DEF InsideInv, Critical
<1>4. FileInv'
  <2> SUFFICES ASSUME NEW b \in Backends
               PROVE  /\ HasTunnel(b, mem[a][b])
                      /\ Covered(b, mem[a][b], badRun'[b])
                      /\ badRun'[b] <= Threshold[b]
    BY <1>1 DEF FileInv
  <2>1. HasTunnel(b, mem[a][b]) /\ Covered(b, mem[a][b], badRun[b])
    BY <1>1 DEF WorkInv, EntryOK
  <2>2. badRun'[b] = IF b \in well[a] THEN 0 ELSE badRun[b]
    BY <1>1
  <2>3. Threshold[b] \in Nat /\ badRun[b] <= Threshold[b]
    BY PolicyAssumption DEF FileInv
  <2>4. CASE b \in well[a]
    BY <1>1, <2>1, <2>2, <2>3, <2>4 DEF Covered, WellInv
  <2>5. CASE b \notin well[a]
    BY <2>1, <2>2, <2>3, <2>5
  <2> QED  BY <2>4, <2>5
<1>5. SeenInv'
  BY <1>1 DEF SeenInv
<1>6. RouteRest'
  BY <1>1 DEF RouteRest, RouteWork
<1> QED  BY <1>3, <1>4, <1>5, <1>6

\* A missing entry needs no tunnel and no failures.
LEMMA AbsentFine == \A b, n : HasTunnel(b, Absent) /\ Covered(b, Absent, n)
<1>1. Absent.state = ""
  BY DEF Absent
<1> QED  BY <1>1 DEF HasTunnel, Covered, WGPrimary, SSHPrimary, FailbackInProgress

\* A reboot loses the file, the rules and every process.
LEMMA RebootKeeps ==
    ASSUME IInv, Reboot
    PROVE  InsideInv' /\ FileInv' /\ SeenInv' /\ RouteRest'
<1> USE DEF IInv
<1>1. \A a \in Agents : pc'[a] \notin Critical /\ seen'[a] = {}
  BY DEF Reboot, Critical
<1>2. InsideInv'
  BY <1>1 DEF InsideInv, WorkInv, CutInv, WellInv, RouteWork, Critical
<1>3. \A b \in Backends : file'[b] = Absent /\ badRun'[b] = 0 /\ Threshold[b] \in Nat
  BY PolicyAssumption DEF Reboot, NoEntries
<1>4. \A b \in Backends : badRun'[b] <= Threshold[b]
  BY <1>3
<1>5. FileInv'
  BY <1>3, <1>4, AbsentFine DEF FileInv
<1>6. SeenInv' /\ RouteRest'
  BY <1>1 DEF SeenInv, RouteRest, Reboot
<1> QED  BY <1>2, <1>5, <1>6

(* Steps inside the lock leave the rest of the invariant alone. *)
LEMMA InsideKeepsRest ==
    ASSUME IInv, NEW a \in Agents,
           Acquire(a) \/ Reconcile(a) \/ Skip(a) \/ Evaluate(a) \/ Cutover(a)
    PROVE  SeenInv' /\ RouteRest' /\ (UNCHANGED badRun => FileInv')
<1> USE DEF IInv
<1>1. UNCHANGED <<intents, seen, file, settled>> /\ lock' = {a}
  BY DEF Acquire, Reconcile, Skip, Evaluate, Cutover, hostVars, WorkInv, Critical
<1>2. SeenInv'
  BY <1>1 DEF SeenInv
<1>3. RouteRest'
  BY <1>1 DEF RouteRest
<1>4. UNCHANGED badRun => FileInv'
  BY <1>1 DEF FileInv
<1> QED  BY <1>2, <1>3, <1>4

\* The first state satisfies the invariant.
LEMMA InitIInv == Init => IInv
<1> SUFFICES ASSUME Init PROVE IInv
  OBVIOUS
<1>1. TypeOK
  BY InitType
<1>2. \A a \in Agents : pc[a] = "idle" /\ seen[a] = {}
  BY DEF Init
<1>3. WorkInv /\ CutInv /\ WellInv /\ RouteWork /\ SeenInv
  BY <1>2 DEF WorkInv, CutInv, WellInv, RouteWork, SeenInv, Critical
<1>4. \A b \in Backends : file[b] = Absent /\ badRun[b] = 0 /\ Threshold[b] \in Nat
  BY PolicyAssumption DEF Init, NoEntries
<1>5. \A b \in Backends : badRun[b] <= Threshold[b]
  BY <1>4
<1>6. FileInv
  BY <1>4, <1>5, AbsentFine DEF FileInv
<1>7. RouteRest
  BY DEF RouteRest, Init
<1> QED  BY <1>1, <1>3, <1>6, <1>7 DEF IInv

\* Every step keeps the invariant.
LEMMA IInvStep == IInv /\ [Next]_vars => IInv'
<1> SUFFICES ASSUME IInv, [Next]_vars PROVE IInv'
  OBVIOUS
<1>1. TypeOK'
  BY TypeStep DEF IInv
<1>2. SUFFICES InsideInv' /\ FileInv' /\ SeenInv' /\ RouteRest'
  BY <1>1 DEF IInv, InsideInv
<1>3. ASSUME NEW b \in Backends, OperatorFailback(b)
      PROVE  InsideInv' /\ FileInv' /\ SeenInv' /\ RouteRest'
  BY <1>3, OperatorKeeps
<1>4. ASSUME NEW a \in Agents, Acquire(a)
      PROVE  InsideInv' /\ FileInv' /\ SeenInv' /\ RouteRest'
  BY <1>4, AcquireKeeps, InsideKeepsRest DEF Acquire
<1>5. ASSUME NEW a \in Agents, Reconcile(a)
      PROVE  InsideInv' /\ FileInv' /\ SeenInv' /\ RouteRest'
  BY <1>5, ReconcileKeeps, InsideKeepsRest DEF Reconcile
<1>6. ASSUME NEW a \in Agents, Skip(a)
      PROVE  InsideInv' /\ FileInv' /\ SeenInv' /\ RouteRest'
  BY <1>6, SkipKeeps, InsideKeepsRest DEF Skip
<1>7. ASSUME NEW a \in Agents, Evaluate(a)
      PROVE  InsideInv' /\ FileInv' /\ SeenInv' /\ RouteRest'
  BY <1>7, EvaluateKeeps, InsideKeepsRest
<1>8. ASSUME NEW a \in Agents, Cutover(a)
      PROVE  InsideInv' /\ FileInv' /\ SeenInv' /\ RouteRest'
  BY <1>8, CutoverKeeps, InsideKeepsRest DEF Cutover
<1>9. ASSUME NEW a \in Agents, SaveState(a)
      PROVE  InsideInv' /\ FileInv' /\ SeenInv' /\ RouteRest'
  BY <1>9, SaveKeeps
<1>10. ASSUME NEW a \in Agents, CutoverRefused(a) \/ CutoverFails(a)
       PROVE  InsideInv' /\ FileInv' /\ SeenInv' /\ RouteRest'
  BY <1>10, RestoreKeeps
<1>11. ASSUME NEW a \in Agents, Fetch(a) \/ LockTimeout(a) \/ AcquireFails(a) \/ Report(a) \/ ReportFails(a)
       PROVE  InsideInv' /\ FileInv' /\ SeenInv' /\ RouteRest'
  BY <1>11, OutsideKeeps
<1>12. ASSUME NEW a \in Agents, ReconcileFails(a) \/ ProbeFails(a) \/ SaveFails(a) \/ Crash(a)
       PROVE  InsideInv' /\ FileInv' /\ SeenInv' /\ RouteRest'
  BY <1>12, AbortKeeps
<1>13. CASE Reboot
  BY <1>13, RebootKeeps
<1>14. CASE Stabilise \/ UNCHANGED vars
  <2>1. UNCHANGED <<intents, file, dnat, lock, pc, at, seen, mem, prev, dec, cuts, well, badRun, settled>>
    BY <1>14 DEF Stabilise, vars, hostVars, localVars
  <2> QED  BY <2>1 DEF IInv, InsideInv, WorkInv, EntryOK, CutInv, WellInv, RouteWork, Live, FileInv,
                       SeenInv, RouteRest
<1> QED  BY <1>3, <1>4, <1>5, <1>6, <1>7, <1>8, <1>9, <1>10, <1>11, <1>12, <1>13, <1>14
         DEF Next, AgentStep, AgentFault

\* The strengthened invariant: what agents in and out of RunOnce know of the file,
\* of the rules and of the requests (failover/controller.go, agent/agent.go).
THEOREM InductiveInvariant == Spec => []IInv
BY InitIInv, IInvStep, PTL DEF Spec

-----------------------------------------------------------------------------
(* The properties of Failover. *)

(* The flock makes RunOnce exclusive, and its Save never overwrites an     *)
(* entry with one computed from an older file.                             *)
THEOREM LockProtectsFile == Spec => []NoLostUpdate
<1>1. IInv => NoLostUpdate
  BY DEF IInv, WorkInv, NoLostUpdate
<1> QED  BY <1>1, InductiveInvariant, PTL

(* No cutover out of WG_PRIMARY before failure_threshold unhealthy         *)
(* evaluations since the last committed healthy one.                       *)
THEOREM ThresholdIsRespected == Spec => []ThresholdRespected
<1>1. IInv => ThresholdRespected
  <2> SUFFICES ASSUME IInv, NEW a \in Agents, pc[a] = "cutover", dec[a].toSSH,
                      Get(mem[a], at[a]).state = WGPrimary
               PROVE  badRun[at[a]] = Threshold[at[a]]
    BY DEF ThresholdRespected
  <2>1. at[a] \in Backends
    BY TunnelsAssumption DEF IInv, CutInv
  <2>2. mem[a][at[a]] = file[at[a]]
    <3>1. at[a] >= at[a]
      BY <2>1 DEF Backends
    <3> QED  BY <2>1, <3>1 DEF IInv, WorkInv, Critical
  <2>3. ModeOf(file[at[a]]) = WGPrimary
    BY <2>2 DEF Get, ModeOf
  <2> QED  BY <2>3 DEF IInv, CutInv
<1> QED  BY <1>1, InductiveInvariant, PTL

(* Only backends with an SSH tunnel and an automatic policy leave          *)
(* WireGuard.                                                              *)
THEOREM FailoverIsAllowed == Spec => []FailoverOnlyWhereAllowed
<1>1. IInv => FailoverOnlyWhereAllowed
  BY DEF IInv, FileInv, HasTunnel, FailoverOnlyWhereAllowed
<1> QED  BY <1>1, InductiveInvariant, PTL

(* Committed states and DNAT rules agree after every live cycle, for each  *)
(* backend whose rules no other backend's cutover rewrote.                 *)
THEOREM RoutesMatchStates == Spec => []RouteMatchesState
<1>1. IInv => RouteMatchesState
  <2> SUFFICES ASSUME IInv, lock = {}, NEW b \in settled
               PROVE  /\ file[b].state \in {SSHPrimary, FailbackInProgress} => dnat[b] = "ssh"
                      /\ file[b].state = WGPrimary => dnat[b] \in {"wg", Address[b]}
    BY DEF RouteMatchesState
  <2>1. Suits(b, ModeOf(file[b]), dnat[b])
    BY DEF IInv, RouteRest
  <2>2. Absent.state = ""
    BY DEF Absent
  <2>3. CASE file[b] = Absent
    BY <2>2, <2>3 DEF WGPrimary, SSHPrimary, FailbackInProgress
  <2>4. CASE file[b] # Absent
    BY <2>1, <2>4 DEF ModeOf, Suits
  <2> QED  BY <2>3, <2>4
<1> QED  BY <1>1, InductiveInvariant, PTL

(* A refused or failed cutover leaves its own backend's entry on disk      *)
(* untouched.                                                              *)
THEOREM OwnEntryKept == Spec => FailedCutoverKeepsOwnEntry
<1> DEFINE Keeps == \A a \in Agents :
                       pc[a] = "cutover" /\ pc'[a] = "reportNil" => file'[at[a]] = file[at[a]]
<1>1. IInv /\ [Next]_vars => [Keeps]_vars
  <2> SUFFICES ASSUME IInv, Next, NEW a \in Agents, pc[a] = "cutover", pc'[a] = "reportNil"
               PROVE  file'[at[a]] = file[at[a]]
    OBVIOUS
  <2>1. at[a] \in Backends /\ prev[a][at[a]] = file[at[a]]
    <3>1. at[a] \in Backends
      BY TunnelsAssumption DEF IInv, CutInv
    <3>2. at[a] >= at[a]
      BY <3>1 DEF Backends
    <3> QED  BY <3>1, <3>2 DEF IInv, WorkInv, Critical
  <2>2. ASSUME NEW c \in Agents, AgentStep(c) \/ AgentFault(c), c # a PROVE FALSE
    <3>1. pc'[a] = pc[a]
      BY <2>2 DEF IInv, TypeOK, AgentStep, AgentFault, Fetch, Acquire, LockTimeout, AcquireFails, Reconcile,
         Skip, Evaluate, Cutover, CutoverRefused, SaveState, Report, ReconcileFails, ProbeFails,
         CutoverFails, SaveFails, ReportFails, Crash, ReturnError, ReturnNothing
    <3> QED  BY <3>1
  <2>3. ASSUME AgentStep(a) \/ AgentFault(a) PROVE file'[at[a]] = file[at[a]]
    <3>1. CutoverRefused(a) \/ CutoverFails(a)
      BY <2>3 DEF IInv, TypeOK, AgentStep, AgentFault, Fetch, Acquire, LockTimeout, AcquireFails, Reconcile,
         Skip, Evaluate, Cutover, SaveState, Report, ReconcileFails, ProbeFails,
         SaveFails, ReportFails, Crash, ReturnNothing
    <3>2. file' = prev[a] \/ file' = file
      BY <3>1 DEF CutoverRefused, CutoverFails, Commit
    <3> QED  BY <2>1, <3>2
  <2>4. ~Reboot /\ ~Stabilise /\ ~\E b \in Backends : OperatorFailback(b)
    BY DEF Reboot, Stabilise, OperatorFailback, localVars
  <2> QED  BY <2>2, <2>3, <2>4 DEF Next
<1>2. FailedCutoverKeepsOwnEntry <=> [][Keeps]_vars
  BY DEF FailedCutoverKeepsOwnEntry
<1> QED  BY <1>1, <1>2, InductiveInvariant, PTL DEF Spec

(* The policy's view of a step of the file. *)
LEMMA CommitIsPolicyStep ==
    ASSUME TypeOK, NEW e \in [Backends -> Entries], file' = e, UNCHANGED <<intents, boots>>,
           \A b \in Backends : EntryOK(b, e[b])
    PROVE  Policy!CommitCycle
<1>1. \A b \in Backends : /\ Get(file, b).state = ModeOf(file[b])
                          /\ Get(e, b).state = ModeOf(e[b])
  BY DEF Get, ModeOf, InitialState
<1>2. \A b \in Backends : Edge(ModeOf(file[b]), ModeOf(e[b]), intents[b] > 0)
  BY DEF EntryOK
<1> QED  BY <1>1, <1>2 DEF Policy!CommitCycle, Policy!BeginFailback, Policy!CompleteFailback,
            Policy!LoseTransport, Policy!ReturnToWireGuard, Edge,
            Policy!WGPrimary, Policy!Degraded, Policy!FailbackInProgress, Policy!SSHPrimary,
            WGPrimary, Degraded, FailbackInProgress, SSHPrimary

\* The first state is one of the policy.
LEMMA PolicyInitially == Init => Policy!PolicyInit
<1> SUFFICES ASSUME Init PROVE Policy!PolicyInit
  OBVIOUS
<1>1. \A b \in Backends : Get(file, b).state = WGPrimary /\ intents[b] = 0
  BY DEF Init, NoEntries, Get, InitialState
<1>2. {b \in Backends : intents[b] > 0} = {}
  BY <1>1
<1>3. [b \in Backends |-> Get(file, b).state] = [b \in Backends |-> WGPrimary]
  BY <1>1
<1> QED  BY <1>2, <1>3 DEF Policy!PolicyInit, Init, Policy!WGPrimary, WGPrimary

\* Every step is a step of the policy, or none.
LEMMA PolicyStep ==
    ASSUME IInv, [Next]_vars
    PROVE  [Policy!PolicyNext]_(Policy!policyVars)
<1>1. CASE UNCHANGED <<file, intents, boots>>
  BY <1>1 DEF Policy!policyVars
<1>2. ASSUME NEW a \in Agents, CutoverRefused(a) \/ CutoverFails(a) \/ SaveState(a)
      PROVE  Policy!CommitCycle \/ UNCHANGED <<file, intents, boots>>
  <2>1. pc[a] \in Critical /\ UNCHANGED <<intents, boots>>
    BY <1>2 DEF CutoverRefused, CutoverFails, SaveState, Critical, NoFault, Fault, envVars
  <2>2. file' = prev[a] \/ file' = mem[a] \/ file' = file
    BY <1>2 DEF CutoverRefused, CutoverFails, SaveState, Commit
  <2>3. prev[a] \in [Backends -> Entries] /\ mem[a] \in [Backends -> Entries]
    BY DEF IInv, TypeOK
  <2>4. \A b \in Backends : EntryOK(b, prev[a][b]) /\ EntryOK(b, mem[a][b])
    BY <2>1 DEF IInv, WorkInv
  <2>5. CASE file' = prev[a]
    BY <2>1, <2>3, <2>4, <2>5, CommitIsPolicyStep DEF IInv
  <2>6. CASE file' = mem[a]
    BY <2>1, <2>3, <2>4, <2>6, CommitIsPolicyStep DEF IInv
  <2> QED  BY <2>1, <2>2, <2>5, <2>6
<1>3. ASSUME NEW b \in Backends, OperatorFailback(b) PROVE Policy!Request(b)
  <2>1. intents \in [Backends -> Nat] /\ intents' = [intents EXCEPT ![b] = @ + 1]
    <3>1. intents \in [Backends -> 0..MaxRequests]
      BY DEF IInv, TypeOK
    <3> QED  BY <1>3, <3>1, BoundsAssumption DEF OperatorFailback
  <2>2. \A c \in Backends : intents'[c] > 0 <=> intents[c] > 0 \/ c = b
    BY <2>1
  <2>3. {c \in Backends : intents'[c] > 0} = {c \in Backends : intents[c] > 0} \cup {b}
    BY <2>2
  <2>4. UNCHANGED <<file, boots>>
    BY <1>3 DEF OperatorFailback, hostVars, envVars
  <2> QED  BY <2>3, <2>4 DEF Policy!Request
<1>4. ASSUME Reboot PROVE Policy!HostReboot
  <2>1. \A b \in Backends : Get(file', b).state = WGPrimary
    BY <1>4 DEF Reboot, NoEntries, Get, InitialState
  <2>2. [b \in Backends |-> Get(file', b).state] = [b \in Backends |-> WGPrimary]
    BY <2>1
  <2> QED  BY <1>4, <2>2 DEF Policy!HostReboot, Reboot, Policy!WGPrimary, WGPrimary
<1>5. ASSUME NEW a \in Agents, AgentStep(a) \/ AgentFault(a)
      PROVE  Policy!CommitCycle \/ UNCHANGED <<file, intents, boots>>
  <2>1. CASE CutoverRefused(a) \/ CutoverFails(a) \/ SaveState(a)
    BY <1>2, <2>1
  <2>2. CASE ~(CutoverRefused(a) \/ CutoverFails(a) \/ SaveState(a))
    BY <1>5, <2>2 DEF AgentStep, AgentFault, Fetch, Acquire, LockTimeout, AcquireFails, Reconcile,
       Skip, Evaluate, Cutover, Report, ReconcileFails, ProbeFails,
       SaveFails, ReportFails, Crash, Fault, hostVars, envVars
  <2> QED  BY <2>1, <2>2
<1>6. CASE Stabilise \/ UNCHANGED vars
  BY <1>1, <1>6 DEF Stabilise, vars, hostVars, envVars
<1> QED  BY <1>1, <1>3, <1>4, <1>5, <1>6 DEF Next, Policy!PolicyNext

(* The failover cycle implements the transport policy: whatever commits,   *)
(* leaks and failures happen, the file on disk moves only along the        *)
(* documented edges, and back to WG_PRIMARY only after an operator asked.  *)
THEOREM FailoverImplementsPolicy == Spec => ImplementsPolicy
BY PolicyInitially, PolicyStep, InductiveInvariant, PTL
   DEF Spec, ImplementsPolicy, Policy!PolicySpec
=============================================================================
