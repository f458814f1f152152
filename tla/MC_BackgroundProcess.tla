------------------------ MODULE MC_BackgroundProcess ------------------------
EXTENDS BackgroundProcess

CONSTANTS c1, c2
=============================================================================
