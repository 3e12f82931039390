----------------------------- MODULE MCRwsServer -----------------------------
EXTENDS RwsServer

CONSTANTS r1, r2, r3
=============================================================================
