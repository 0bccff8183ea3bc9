--------------------------- MODULE MCReceiptTrust ---------------------------
\* Two keys; two operators, two wallets, two environments.
EXTENDS ReceiptTrust, TLC
CONSTANTS k1, k2, o1, o2, w1, w2, b1, b2
Keys == {k1, k2}
Operators == {o1, o2}
Wallets == {w1, w2}
Bindings == {b1, b2}
Symmetry == Permutations(Keys) \cup Permutations(Operators)
              \cup Permutations(Wallets) \cup Permutations(Bindings)
=============================================================================
