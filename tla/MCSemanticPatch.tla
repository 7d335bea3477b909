--------------------------- MODULE MCSemanticPatch ---------------------------
EXTENDS SemanticPatch, TLC

CONSTANTS e1, e2

Symmetry == Permutations(Edits)
=============================================================================
