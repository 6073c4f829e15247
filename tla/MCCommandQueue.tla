--------------------------- MODULE MCCommandQueue ---------------------------
EXTENDS CommandQueue, TLC

CONSTANTS b1, b2, s1, s2, c1, c2, r1
=============================================================================
