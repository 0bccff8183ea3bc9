-------------------------- MODULE MCAuthorization --------------------------
\* Two verifications, a consumption and one more call of either kind.
EXTENDS Authorization, TLC
CONSTANTS r1, r2, r3, r4

Requests == {r1, r2, r3, r4}
EveryStore == {"database", "directory", "memory"}
OneProcess == {"memory"}

Interchangeable == Permutations(Requests)
=============================================================================
