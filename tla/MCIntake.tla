------------------------------ MODULE MCIntake ------------------------------
\* Three requests of every kind, with the key or without it.
EXTENDS Intake
CONSTANTS p1, p2, p3

Posts == {p1, p2, p3}
EveryStore == {"database", "map"}
=============================================================================
