-------------------------- MODULE TransportMachine --------------------------
(***************************************************************************)
(* The pure part of the failover subsystem: what a health snapshot means   *)
(* (internal/health/checker.go) and the state machine that decides, once   *)
(* per reconcile cycle and per backend, which overlay carries the traffic  *)
(* (internal/failover/machine.go).  No state: modules that keep the        *)
(* machine's state extend this one.                                        *)
(***************************************************************************)
EXTENDS Naturals

(* model.TransportMode *)
WGPrimary == "WG_PRIMARY"
FailbackInProgress == "FAILBACK_IN_PROGRESS"
SSHPrimary == "SSH_PRIMARY"
Degraded == "DEGRADED"

TransportModes == {WGPrimary, FailbackInProgress, SSHPrimary, Degraded}

(* model.TransportState, cut down to what decisions are made from.  Absent *)
(* is the zero value: no entry for the backend in transport-state.json.    *)
TransportStates == [state : TransportModes, failures : Nat]
Absent == [state |-> "", failures |-> 0]
InitialState == [state |-> WGPrimary, failures |-> 0]

(* health.Snapshot *)
Snapshots == [iface : BOOLEAN, unit : BOOLEAN, overlay : BOOLEAN,
              handshakeAge : Nat, probesTotal : Nat, probesFailed : Nat]

(* The zero value, used for a backend that has no SSH_TUN tunnel. *)
ZeroSnapshot == [iface |-> FALSE, unit |-> FALSE, overlay |-> FALSE,
                 handshakeAge |-> 0, probesTotal |-> 0, probesFailed |-> 0]

HandshakeStaleAfter == 180
ProbeNeed == 2

(* A probe verdict needs at least one TCP mapping to probe. *)
ProbesBad(h) ==
    h.probesTotal > 0 /\ (h.probesFailed >= ProbeNeed \/ h.probesFailed = h.probesTotal)

PrimaryFailed(h) ==
    \/ ~h.iface
    \/ ProbesBad(h) /\ (h.handshakeAge > HandshakeStaleAfter \/ ~h.overlay)

FallbackHealthy(h) == h.unit /\ h.iface /\ h.overlay /\ h.probesFailed = 0

-----------------------------------------------------------------------------
(* failover.Decision.  `critical' is the CRITICAL_NO_HEALTHY_TRANSPORT     *)
(* flag; reason and event texts are left out.                              *)
Decisions == [next : TransportStates, toSSH : BOOLEAN, toWG : BOOLEAN,
              critical : BOOLEAN]

Stay(st) == [next |-> st, toSSH |-> FALSE, toWG |-> FALSE, critical |-> FALSE]

Enter(st, mode) == Stay([st EXCEPT !.state = mode])

EnterDegraded(st, crit) == [Enter(st, Degraded) EXCEPT !.critical = crit]

StartFailback(st) == [Enter(st, FailbackInProgress) EXCEPT !.toSSH = TRUE]

FailForward == [Stay(InitialState) EXCEPT !.toWG = TRUE]

(* Mutant: a healthy cycle does not reset the counter. *)
StepWGPrimaryNoReset(st, threshold, auto, ph, fh) ==
    LET counted == [st EXCEPT !.failures = @ + 1]
    IN  CASE ph -> Stay(st)
          [] ~ph /\ counted.failures < threshold -> Stay(counted)
          [] ~ph /\ counted.failures >= threshold /\ ~fh -> EnterDegraded(counted, TRUE)
          [] ~ph /\ counted.failures >= threshold /\ fh -> StartFailback(counted)

(* WG_PRIMARY: count consecutive unhealthy cycles, then fail back. *)
StepWGPrimary(st, threshold, auto, ph, fh) ==
    LET counted == [st EXCEPT !.failures = @ + 1]
    IN  CASE ph -> Stay(InitialState)
          [] ~ph /\ counted.failures < threshold -> Stay(counted)
          [] ~ph /\ counted.failures >= threshold /\ ~fh -> EnterDegraded(counted, TRUE)
          [] ~ph /\ counted.failures >= threshold /\ fh /\ ~auto -> Stay(counted)
          [] ~ph /\ counted.failures >= threshold /\ fh /\ auto -> StartFailback(counted)

(* FAILBACK_IN_PROGRESS: one cycle after the cutover, confirm the fallback. *)
StepFailbackInProgress(st, fh) ==
    IF fh THEN Stay([state |-> SSHPrimary, failures |-> 0])
          ELSE EnterDegraded(st, TRUE)

(* Mutant: WireGuard's recovery is enough to return to it. *)
StepSSHPrimaryEager(st, ph, fh, ff) ==
    CASE ph -> FailForward
      [] ~ph /\ ~ff /\ ~fh -> EnterDegraded(st, TRUE)
      [] ~ph /\ (ff \/ fh) -> Stay(st)

(* SSH_PRIMARY: only an operator's request leads back to WireGuard; a      *)
(* pending request that cannot be served also masks a dead fallback.       *)
StepSSHPrimary(st, ph, fh, ff) ==
    CASE ff /\ ph -> FailForward
      [] ff /\ ~ph -> Stay(st)
      [] ~ff /\ ~fh -> EnterDegraded(st, ~ph)
      [] ~ff /\ fh -> Stay(st)

(* Mutants: the policy is not looked at; no recovery towards SSH; no       *)
(* return to WireGuard on request.                                         *)
StepDegradedAnyPolicy(st, auto, ph, fh, ff) ==
    CASE ff /\ ph -> FailForward
      [] ~(ff /\ ph) /\ ~ph /\ fh -> StartFailback(st)
      [] ~(ff /\ ph) /\ ~(~ph /\ fh) -> Stay(st)

StepDegradedNoFailback(st, auto, ph, fh, ff) ==
    IF ff /\ ph THEN FailForward ELSE Stay(st)

StepDegradedNoForward(st, auto, ph, fh, ff) ==
    IF auto /\ ~ph /\ fh THEN StartFailback(st) ELSE Stay(st)

(* DEGRADED: left by a request or, when WireGuard is down, towards SSH. *)
StepDegraded(st, auto, ph, fh, ff) ==
    CASE ff /\ ph -> FailForward
      [] ~(ff /\ ph) /\ auto /\ ~ph /\ fh -> StartFailback(st)
      [] ~(ff /\ ph) /\ ~(auto /\ ~ph /\ fh) -> Stay(st)

(* failover.Step: `ph' and `fh' are the health verdicts, `ff' the pending  *)
(* operator request.  automatic_failforward does not appear: the code      *)
(* reads it only to choose a log line.                                     *)
Step(st, threshold, auto, ph, fh, ff) ==
    CASE st.state = WGPrimary -> StepWGPrimary(st, threshold, auto, ph, fh)
      [] st.state = FailbackInProgress -> StepFailbackInProgress(st, fh)
      [] st.state = SSHPrimary -> StepSSHPrimary(st, ph, fh, ff)
      [] st.state = Degraded -> StepDegraded(st, auto, ph, fh, ff)
=============================================================================
