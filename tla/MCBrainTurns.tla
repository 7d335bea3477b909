----------------------------- MODULE MCBrainTurns -----------------------------
EXTENDS BrainTurns, TLC

CONSTANTS s1, s2, q1, q2, q3, c1, c2, x1, x2

Symmetry == Permutations({s1, s2}) \cup Permutations({c1, c2}) \cup Permutations({q1, q2, q3})
=============================================================================
