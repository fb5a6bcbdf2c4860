-------------------------- MODULE TransportPolicy ---------------------------
(***************************************************************************)
(* What the failover subsystem of one host promises, seen from outside:    *)
(* one commit of transport-state.json moves every backend along at most    *)
(* one edge of the state graph, and WG_PRIMARY is entered again only on an *)
(* operator's request or because a reboot lost the volatile state          *)
(* directory.  Failover implements this specification.                     *)
(***************************************************************************)
EXTENDS TransportMachine

CONSTANT PolicyBackends

VARIABLES
    mode,       \* the transport state on record, per backend
    requested,  \* backends for which an operator has asked for Failback
    boots       \* boots of the edge host

policyVars == <<mode, requested, boots>>

PolicyInit ==
    /\ mode = [b \in PolicyBackends |-> WGPrimary]
    /\ requested = {}
    /\ boots = 0

(* Edges of the graph, as what one backend may do in one commit. *)
BeginFailback(b) == mode[b] \in {WGPrimary, Degraded} /\ mode'[b] = FailbackInProgress
CompleteFailback(b) == mode[b] = FailbackInProgress /\ mode'[b] = SSHPrimary
LoseTransport(b) == mode[b] # Degraded /\ mode'[b] = Degraded
ReturnToWireGuard(b) ==
    b \in requested /\ mode[b] \in {SSHPrimary, Degraded} /\ mode'[b] = WGPrimary

CommitCycle ==
    /\ \A b \in PolicyBackends :
          \/ mode'[b] = mode[b]
          \/ BeginFailback(b)
          \/ CompleteFailback(b)
          \/ LoseTransport(b)
          \/ ReturnToWireGuard(b)
    /\ UNCHANGED <<requested, boots>>

Request(b) ==
    /\ requested' = requested \cup {b}
    /\ UNCHANGED <<mode, boots>>

HostReboot ==
    /\ boots' = boots + 1
    /\ mode' = [b \in PolicyBackends |-> WGPrimary]
    /\ UNCHANGED requested

PolicyNext ==
    \/ CommitCycle
    \/ \E b \in PolicyBackends : Request(b)
    \/ HostReboot

PolicySpec == PolicyInit /\ [][PolicyNext]_policyVars
=============================================================================
