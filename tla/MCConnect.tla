----------------------------- MODULE MCConnect -----------------------------
EXTENDS Connect
============================================================================
