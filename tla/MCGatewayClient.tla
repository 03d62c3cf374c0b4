--------------------------- MODULE MCGatewayClient ---------------------------
(* GatewayClient for TLC: every constant gets its value in the .cfg.       *)
EXTENDS GatewayClient
=============================================================================
