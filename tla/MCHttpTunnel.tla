---------------------------- MODULE MCHttpTunnel ----------------------------
(* HttpTunnel with values for TLC.                                         *)
EXTENDS HttpTunnel

CONSTANTS good

MCPsk == {good}
MCPublic == 1..MaxAttempt
=============================================================================
