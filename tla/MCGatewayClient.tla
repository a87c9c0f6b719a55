--------------------------- MODULE MCGatewayClient ---------------------------
EXTENDS GatewayClient, TLC

CONSTANTS c1, c2
=============================================================================
