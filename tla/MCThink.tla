------------------------------ MODULE MCThink ------------------------------
EXTENDS ThinkClaim, TLC

CONSTANTS p1, p2, p3

Symmetric == Permutations({p1, p2, p3})
=============================================================================
