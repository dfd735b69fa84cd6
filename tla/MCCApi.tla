------------------------------- MODULE MCCApi -------------------------------
EXTENDS CApi
CONSTANTS s1, t1, o1, o2
=============================================================================
