--------------------------- MODULE MCMonitorClaims ---------------------------
EXTENDS MonitorClaims, TLC

CONSTANTS a, b, c

\* Program 1 is mentioned by every transaction, program 2 by all but a.
MCTouches == [p \in 1..NumPrograms |-> IF p = 1 THEN Sig ELSE Sig \ {a}]
=============================================================================
