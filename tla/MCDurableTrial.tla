--------------------------- MODULE MCDurableTrial ---------------------------
\* Two workers and up to two signers on one trial.  MCScript is PassiveScript
\* with its two middle segments as one: an event before the check, an event
\* after it, and the hand-off or the signature.
EXTENDS DurableTrial, TLC
CONSTANTS w1, w2, s1, s2

Workers == {w1, w2}
Signers == {s1, s2}
OneOfThem == {s1}

MCScript == <<"DISCOVERING", Check, "SCORING">>

Interchangeable == Permutations(Workers) \cup Permutations(Signers)
=============================================================================
