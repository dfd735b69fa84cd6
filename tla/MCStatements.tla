---------------------------- MODULE MCStatements ----------------------------
EXTENDS Statements
CONSTANTS u1, u2
=============================================================================
