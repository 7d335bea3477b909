---------------------------- MODULE MCTurnRecord ---------------------------
EXTENDS TurnRecord, TLC

CONSTANT c1
=============================================================================
