------------------------------ MODULE MCPeers ------------------------------
EXTENDS Peers, TLC

CONSTANTS w1, w2, d1, d2
=============================================================================
