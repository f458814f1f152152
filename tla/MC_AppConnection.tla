-------------------------- MODULE MC_AppConnection --------------------------
EXTENDS AppConnection

CONSTANTS t1, t2
=============================================================================
