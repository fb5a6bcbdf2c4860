----------------------------- MODULE MCFailover -----------------------------
(***************************************************************************)
(* Values for the constants of Failover that a .cfg cannot write: health   *)
(* snapshots at the edges of the verdicts, and per-backend policies.       *)
(***************************************************************************)
EXTENDS Failover

Snap(iface, unit, overlay, age, probes) ==
    [iface |-> iface, unit |-> unit, overlay |-> overlay, handshakeAge |-> age,
     probesTotal |-> probes[1], probesFailed |-> probes[2]]

(* One healthy and one failed snapshot per side. *)
TwoPrimarySnaps == {Snap(TRUE, FALSE, TRUE, 0, <<1, 0>>), Snap(TRUE, FALSE, FALSE, 181, <<1, 1>>)}
TwoFallbackSnaps == {Snap(TRUE, TRUE, TRUE, 0, <<1, 0>>), Snap(TRUE, FALSE, TRUE, 0, <<1, 0>>)}

(* Both sides of the conditions in PrimaryFailed and FallbackHealthy. *)
EdgePrimarySnaps ==
    {Snap(FALSE, FALSE, FALSE, 0, <<0, 0>>),   \* failed: no interface
     Snap(TRUE, FALSE, TRUE, 181, <<1, 1>>),   \* failed: probe lost and handshake stale
     Snap(TRUE, FALSE, TRUE, 180, <<1, 1>>),   \* healthy: handshake not stale yet
     Snap(TRUE, FALSE, FALSE, 0, <<3, 2>>),    \* failed: two of three probes and the ping
     Snap(TRUE, FALSE, FALSE, 181, <<3, 1>>),  \* healthy: one of three probes is not enough
     Snap(TRUE, FALSE, FALSE, 181, <<0, 0>>)}  \* healthy: nothing to probe
EdgeFallbackSnaps ==
    {Snap(TRUE, TRUE, TRUE, 0, <<0, 0>>),      \* healthy: nothing to probe
     Snap(TRUE, TRUE, TRUE, 0, <<3, 1>>),      \* one failed probe is enough
     Snap(TRUE, FALSE, TRUE, 0, <<1, 0>>)}     \* unit not active

(* Addresses and policies. *)
AllWG == [b \in Backends |-> "wg"]
SecondOther == [b \in Backends |-> IF b = 2 THEN "other" ELSE "wg"]
ThresholdOne == [b \in Backends |-> 1]
ThresholdTwo == [b \in Backends |-> 2]
AllAutomatic == [b \in Backends |-> TRUE]
LastManual == [b \in Backends |-> b # NumBackends]
=============================================================================
