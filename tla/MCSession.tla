------------------------------ MODULE MCSession -----------------------------
EXTENDS Session
CONSTANTS alice, bob, x, y, k1, k2
=============================================================================
