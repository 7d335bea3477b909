--------------------------- MODULE MCModelWorker ---------------------------
EXTENDS ModelWorker, TLC

CONSTANTS c1, c2, c3, k1
=============================================================================
