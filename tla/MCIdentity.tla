----------------------------- MODULE MCIdentity -----------------------------
EXTENDS RuntimeIdentity, TLC

CONSTANTS p1, p2, p3, mA, mB, n1, n2

Symmetric == Permutations({p1, p2, p3}) \cup Permutations({mA, mB})
             \cup Permutations({n1, n2})
=============================================================================
