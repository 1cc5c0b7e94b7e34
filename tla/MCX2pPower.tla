----------------------------- MODULE MCX2pPower -----------------------------
EXTENDS X2pPower, MCX2pBridge
=============================================================================
