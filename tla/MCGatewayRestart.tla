-------------------------- MODULE MCGatewayRestart --------------------------
(* GatewayRestart on small sets, for TLC: every request touches one session. *)
EXTENDS GatewayRestart

CONSTANTS r1, r2, c1, s1

MCSessionOf == [r \in Requests |-> s1]

=============================================================================
