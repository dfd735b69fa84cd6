-------------------------- MODULE MCSecureSession --------------------------
EXTENDS SecureSession, TLC
CONSTANTS c1, c2
=============================================================================
