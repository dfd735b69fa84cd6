----------------------------- MODULE MCSession -----------------------------
EXTENDS Session, TLC
CONSTANTS c1, c2, c3
=============================================================================
