------------------------ MODULE MCConnectionSwitch ------------------------
EXTENDS ConnectionSwitch, TLC

CONSTANTS env, alpha, own, other, one, two
Symmetry == Permutations({one, two})
=============================================================================
