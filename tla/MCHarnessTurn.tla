---------------------------- MODULE MCHarnessTurn ----------------------------
EXTENDS HarnessTurn, TLC

CONSTANTS a1, a2, b1, A, B

MCSameSession == (a1 :> A) @@ (a2 :> A)
MCTwoSessions == (a1 :> A) @@ (b1 :> B)
=============================================================================
