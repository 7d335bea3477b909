------------------------- MODULE MCBrainClarifications -------------------------
EXTENDS BrainClarifications, TLC

CONSTANTS s1, s2, t1, t2, r1, r2, k1, k2, b1, b2, a1, a2

\* Every set of names is interchangeable with itself: none of its members is special.
Symmetry ==
  Permutations({s1, s2}) \cup Permutations({t1, t2}) \cup Permutations({r1, r2})
    \cup Permutations({k1, k2}) \cup Permutations({a1, a2}) \cup Permutations({b1, b2})
=============================================================================
