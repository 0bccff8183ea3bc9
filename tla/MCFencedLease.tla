--------------------------- MODULE MCFencedLease ---------------------------
\* Three processes polling one job row.
EXTENDS FencedLease, TLC
CONSTANTS h1, h2, h3
Processes == {h1, h2, h3}
=============================================================================
