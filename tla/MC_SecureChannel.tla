------------------------- MODULE MC_SecureChannel -------------------------
EXTENDS SecureChannel

CONSTANTS b1, b2, k1, k2, k3, s1, s2, h1, h2
=============================================================================
