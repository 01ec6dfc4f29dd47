----------------------------- MODULE MCSession -----------------------------
(* Two workers on a profile of few statements.                               *)
EXTENDS SessionEngine, TLC

Symmetry == Permutations(Workers)
=============================================================================
