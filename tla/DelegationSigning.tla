-------------------------- MODULE DelegationSigning --------------------------
(***************************************************************************)
(* The closed map from delegation purposes to the one secret-use intent    *)
(* each admits (src/control_plane_kit_secrets/_delegation_signing.py).     *)
(* Two purposes share the gateway probe intent.                            *)
(***************************************************************************)

GatewaySigningIntent == "gateway.probe-signing-key"

Purposes ==
    { "gateway-probe", "gateway-node-control-transit", "workload-node-control",
      "workload-node-control-surface-read", "gateway-node-health-read-transit",
      "workload-node-health-read" }

SigningIntent == [p \in Purposes |->
    CASE p \in {"gateway-probe", "workload-node-control-surface-read"} ->
             GatewaySigningIntent
      [] p = "gateway-node-control-transit" ->
             "gateway.node-control-transit-signing-key"
      [] p = "workload-node-control" -> "workload.node-control-signing-key"
      [] p = "gateway-node-health-read-transit" ->
             "gateway.node-health-read-transit-signing-key"
      [] OTHER -> "workload.node-health-read-signing-key"]

\* require_delegation_signing_family: an exact admitted purpose and intent.
AdmittedFamily(purpose, intent) ==
    purpose \in Purposes /\ intent = SigningIntent[purpose]
=============================================================================
