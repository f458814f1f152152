---------------------------- MODULE MC_StateLock ----------------------------
EXTENDS StateLock

CONSTANTS p1, p2, p3
=============================================================================
