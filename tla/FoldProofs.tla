------------------------------ MODULE FoldProofs ------------------------------
(***************************************************************************)
(* Induction along a sequence: what the library's FoldLeft computes, for   *)
(* every sequence and every operation.  The library defines it by a        *)
(* recursive function on sets of places (MapThenFoldSet); that function    *)
(* exists, is determined by its equation, and takes one more element at    *)
(* each step.  The loops of the program that carry a value along a list    *)
(* (a page's messages, a fetch's hops, a run's events, the layers of a     *)
(* Merkle tree) are instances of this module.                              *)
(***************************************************************************)
EXTENDS SequencesExt, SequenceTheorems, WellFoundedInduction, TLAPS

CONSTANT Op(_, _)    \* the body of the loop

\* The fold, with the operation left out of what the provers see applied.
Folded(base, seq) == FoldLeft(Op, base, seq)

\* A set with 0 and the successor of each of its naturals has all of them.
\* (A set rather than a predicate: WFMin takes no operator.)
LEMMA NatSetInduction ==
    ASSUME NEW S, 0 \in S, \A n \in Nat : n \in S => n + 1 \in S
    PROVE  \A n \in Nat : n \in S
<1> SUFFICES ASSUME \E n \in Nat : n \notin S PROVE FALSE
  OBVIOUS
<1> DEFINE T == {n \in Nat : n \notin S}
<1>1. T \subseteq Nat /\ T # {}
  OBVIOUS
<1>2. \E x \in T : \A y \in T : ~ (<<y, x>> \in OpToRel(<, Nat))
  BY <1>1, WFMin, NatLessThanWellFounded, Zenon
<1>3. PICK x \in T : \A y \in T : ~ (<<y, x>> \in OpToRel(<, Nat))
  BY <1>2, Zenon
<1>4. \A y \in T : ~ (y < x)
  BY <1>1, <1>3 DEF OpToRel
<1>5. x # 0 /\ x \in Nat
  OBVIOUS
<1>6. x - 1 \in Nat /\ x - 1 < x /\ (x - 1) + 1 = x
  BY <1>5
<1>7. x - 1 \in S
  BY <1>4, <1>6
<1> QED
  BY <1>6, <1>7

\* The equation that the fold over the places in D is defined by.
Folds(f, base, seq, D) ==
    f = [s \in SUBSET D |-> IF s = {} THEN base ELSE Op(f[s \ {Max(s)}], seq[Max(s)])]

\* The largest of some of the first m + 1 places, the last being one.
LEMMA MaxOfLast ==
    ASSUME NEW m \in Nat, NEW s \in SUBSET (1..m + 1), m + 1 \in s
    PROVE  Max(s) = m + 1
<1>1. \A y \in s : m + 1 >= y
  OBVIOUS
<1>2. Max(s) \in s /\ \A y \in s : Max(s) >= y
  BY <1>1 DEF Max
<1>3. Max(s) \in 1..m + 1 /\ Max(s) >= m + 1
  BY <1>2
<1> HIDE DEF Max
<1> QED BY <1>3

\* That equation has a solution, over any number of places.
LEMMA FoldExists ==
    ASSUME NEW base, NEW seq, NEW n \in Nat
    PROVE  \E f : Folds(f, base, seq, 1..n)
<1> DEFINE P(m) == \E f : Folds(f, base, seq, 1..m)
           S == {m \in Nat : P(m)}
<1>1. P(0)
  <2> DEFINE f == [s \in SUBSET (1..0) |-> base]
  <2>1. f = [s \in SUBSET (1..0) |-> IF s = {} THEN base ELSE Op(f[s \ {Max(s)}], seq[Max(s)])]
    OBVIOUS
  <2> QED BY <2>1 DEF Folds
<1>2. ASSUME NEW m \in Nat, P(m) PROVE P(m + 1)
  <2>1. PICK f : Folds(f, base, seq, 1..m)
    BY <1>2
  <2>2. /\ f[{}] = base
        /\ \A s \in SUBSET (1..m) : s # {} => f[s] = Op(f[s \ {Max(s)}], seq[Max(s)])
    BY <2>1 DEF Folds
  <2> DEFINE g == [s \in SUBSET (1..m + 1) |->
                      IF m + 1 \in s THEN Op(f[s \ {m + 1}], seq[m + 1]) ELSE f[s]]
  <2>3. \A s \in SUBSET (1..m + 1) : m + 1 \notin s => s \in SUBSET (1..m)
    OBVIOUS
  <2>4. \A s \in SUBSET (1..m) : g[s] = f[s]
    OBVIOUS
  <2>5. ASSUME NEW s \in SUBSET (1..m + 1)
        PROVE  g[s] = IF s = {} THEN base ELSE Op(g[s \ {Max(s)}], seq[Max(s)])
    <3>1. CASE s = {}
      BY <2>2, <3>1
    <3>2. CASE m + 1 \in s
      <4>1. s \ {m + 1} \in SUBSET (1..m)
        OBVIOUS
      <4>2. Max(s) = m + 1 /\ g[s \ {m + 1}] = f[s \ {m + 1}]
        BY <2>4, <3>2, <4>1, MaxOfLast
      <4> QED BY <3>2, <4>2
    <3>3. CASE m + 1 \notin s /\ s # {}
      <4>1. s \in SUBSET (1..m) /\ s \ {Max(s)} \in SUBSET (1..m)
        BY <2>3, <3>3
      <4>2. g[s] = f[s] /\ g[s \ {Max(s)}] = f[s \ {Max(s)}]
        BY <2>4, <4>1
      <4> QED BY <2>2, <3>3, <4>1, <4>2
    <3> QED BY <3>1, <3>2, <3>3
  <2>6. g = [s \in SUBSET (1..m + 1) |->
                IF s = {} THEN base ELSE Op(g[s \ {Max(s)}], seq[Max(s)])]
    BY <2>5
  <2> QED BY <2>6 DEF Folds
<1>3. 0 \in S /\ \A m \in Nat : m \in S => m + 1 \in S
  BY <1>1, <1>2
<1>4. n \in S
  <2> HIDE DEF S
  <2> QED BY <1>3, NatSetInduction
<1> QED BY <1>4

\* The fold of a sequence is its value on all its places.
LEMMA FoldIs ==
    ASSUME NEW base, NEW seq, NEW n \in Nat, DOMAIN seq = 1..n
    PROVE  \E f : Folds(f, base, seq, 1..n) /\ Folded(base, seq) = f[1..n]
<1> DEFINE f == CHOOSE f : Folds(f, base, seq, 1..n)
<1>1. Folds(f, base, seq, 1..n)
  BY FoldExists
<1>2. Folded(base, seq) = f[1..n]
  BY DEF Folded, FoldLeft, MapThenFoldSet, Folds
<1> QED BY <1>1, <1>2

\* Folds of sequences that agree on their first n elements agree there.
LEMMA FoldsAgree ==
    ASSUME NEW base, NEW seq, NEW t, NEW f, NEW g, NEW n \in Nat, NEW k \in Nat, n <= k,
           Folds(f, base, seq, 1..n), Folds(g, base, t, 1..k),
           \A i \in 1..n : seq[i] = t[i]
    PROVE  f[1..n] = g[1..n]
<1> DEFINE P(m) == m <= n => \A s \in SUBSET (1..m) : f[s] = g[s]
           S == {m \in Nat : P(m)}
<1>0. /\ f[{}] = base /\ g[{}] = base
      /\ \A s \in SUBSET (1..n) : s # {} => f[s] = Op(f[s \ {Max(s)}], seq[Max(s)])
      /\ \A s \in SUBSET (1..k) : s # {} => g[s] = Op(g[s \ {Max(s)}], t[Max(s)])
  <2>1. f = [s \in SUBSET (1..n) |-> IF s = {} THEN base ELSE Op(f[s \ {Max(s)}], seq[Max(s)])]
    BY DEF Folds
  <2>2. g = [s \in SUBSET (1..k) |-> IF s = {} THEN base ELSE Op(g[s \ {Max(s)}], t[Max(s)])]
    BY DEF Folds
  <2>3. {} \in SUBSET (1..n) /\ {} \in SUBSET (1..k)
    OBVIOUS
  <2>4. f[{}] = base /\ g[{}] = base
    BY <2>1, <2>2, <2>3, Zenon
  <2>5. \A s \in SUBSET (1..n) : s # {} => f[s] = Op(f[s \ {Max(s)}], seq[Max(s)])
    BY <2>1, Zenon
  <2>6. \A s \in SUBSET (1..k) : s # {} => g[s] = Op(g[s \ {Max(s)}], t[Max(s)])
    BY <2>2, Zenon
  <2> QED BY <2>4, <2>5, <2>6
<1>1. P(0)
  <2>1. \A s \in SUBSET (1..0) : s = {}
    OBVIOUS
  <2> QED BY <1>0, <2>1
<1>2. ASSUME NEW m \in Nat, P(m) PROVE P(m + 1)
  <2> SUFFICES ASSUME m + 1 <= n, NEW s \in SUBSET (1..m + 1) PROVE f[s] = g[s]
    OBVIOUS
  <2>1. CASE m + 1 \notin s
    <3>1. s \in SUBSET (1..m)
      BY <2>1
    <3> QED BY <1>2, <3>1
  <2>2. CASE m + 1 \in s
    <3>1. Max(s) = m + 1 /\ s \ {m + 1} \in SUBSET (1..m)
      BY <2>2, MaxOfLast
    <3>2. f[s \ {m + 1}] = g[s \ {m + 1}] /\ seq[m + 1] = t[m + 1]
      BY <1>2, <3>1
    <3>3. s \in SUBSET (1..n) /\ s \in SUBSET (1..k) /\ s # {}
      BY <2>2
    <3>4. f[s] = Op(f[s \ {m + 1}], seq[m + 1])
      BY <1>0, <3>1, <3>3
    <3>5. g[s] = Op(g[s \ {m + 1}], t[m + 1])
      BY <1>0, <3>1, <3>3
    <3> QED BY <3>2, <3>4, <3>5
  <2> QED BY <2>1, <2>2
<1>3. 0 \in S /\ \A m \in Nat : m \in S => m + 1 \in S
  <2> HIDE DEF P
  <2> QED BY <1>1, <1>2
<1>4. n \in S
  <2> HIDE DEF S
  <2> QED BY <1>3, NatSetInduction
<1> QED BY <1>4

\* The fold of nothing is the base.
THEOREM FoldEmpty == ASSUME NEW base PROVE Folded(base, <<>>) = base
<1>1. DOMAIN <<>> = 1..0
  OBVIOUS
<1>2. PICK f : Folds(f, base, <<>>, 1..0) /\ Folded(base, <<>>) = f[1..0]
  BY <1>1, FoldIs
<1> QED BY <1>2 DEF Folds

\* t is seq, of n elements, and one more.
Extends(t, seq, n) ==
    DOMAIN seq = 1..n /\ DOMAIN t = 1..n + 1 /\ \A i \in 1..n : seq[i] = t[i]

\* The fold of a sequence of n + 1 elements, from that of its first n.
THEOREM FoldNext ==
    ASSUME NEW base, NEW seq, NEW t, NEW n \in Nat, Extends(t, seq, n)
    PROVE  Folded(base, t) = Op(Folded(base, seq), t[n + 1])
<1>1. n \in Nat /\ DOMAIN seq = 1..n /\ DOMAIN t = 1..n + 1
  BY DEF Extends
<1>2. \A i \in 1..n : seq[i] = t[i]
  BY DEF Extends
<1>3. PICK f : Folds(f, base, seq, 1..n) /\ Folded(base, seq) = f[1..n]
  BY <1>1, FoldIs
<1>4. PICK g : Folds(g, base, t, 1..n + 1) /\ Folded(base, t) = g[1..n + 1]
  BY <1>1, FoldIs
<1>5. f[1..n] = g[1..n]
  <2>1. PICK k \in Nat : k = n + 1
    BY <1>1
  <2>2. n \in Nat /\ n <= k
    BY <1>1, <2>1
  <2>3. Folds(f, base, seq, 1..n) /\ Folds(g, base, t, 1..k)
    BY <1>3, <1>4, <2>1
  <2>4. \A i \in 1..n : seq[i] = t[i]
    BY <1>2
  <2> QED BY <2>2, <2>3, <2>4, FoldsAgree
<1>6. Max(1..n + 1) = n + 1 /\ (1..n + 1) \ {n + 1} = 1..n /\ 1..n + 1 # {}
  <2>1. 1..n + 1 \in SUBSET (1..n + 1) /\ n + 1 \in 1..n + 1
    BY <1>1
  <2>2. (1..n + 1) \ {n + 1} = 1..n
    BY <1>1
  <2> QED BY <1>1, <2>1, <2>2, MaxOfLast
<1>7. g[1..n + 1] = Op(g[1..n], t[n + 1])
  BY <1>4, <1>6 DEF Folds
<1> QED BY <1>3, <1>4, <1>5, <1>7

\* An invariant of the fold: what is in I[i] after i elements.
THEOREM FoldInduction ==
    ASSUME NEW E, NEW base, NEW seq \in Seq(E), NEW I, base \in I[0],
           \A i \in 1..Len(seq) : \A v \in I[i - 1] : Op(v, seq[i]) \in I[i]
    PROVE  Folded(base, seq) \in I[Len(seq)]
<1> DEFINE n == Len(seq)
<1>1. n \in Nat /\ DOMAIN seq = 1..n
  OBVIOUS
<1>2. base \in I[0] /\ \A i \in 1..n : \A v \in I[i - 1] : Op(v, seq[i]) \in I[i]
  OBVIOUS
<1> HIDE DEF n
<1>3. PICK f : Folds(f, base, seq, 1..n) /\ Folded(base, seq) = f[1..n]
  BY <1>1, FoldIs
<1>4. f[{}] = base
  BY <1>3 DEF Folds
<1> DEFINE P(m) == m <= n => f[1..m] \in I[m]
           S == {m \in Nat : P(m)}
<1>5. P(0)
  <2>1. 1..0 = {}
    OBVIOUS
  <2> QED BY <1>2, <1>4, <2>1
<1>6. ASSUME NEW m \in Nat, P(m) PROVE P(m + 1)
  <2> SUFFICES ASSUME m + 1 <= n PROVE f[1..m + 1] \in I[m + 1]
    OBVIOUS
  <2>1. f[1..m] \in I[m]
    BY <1>1, <1>6
  <2>2. 1..m + 1 \in SUBSET (1..n) /\ 1..m + 1 # {}
    <3>1. (\A x \in 1..m + 1 : x \in 1..n) /\ m + 1 \in 1..m + 1
      BY <1>1
    <3> QED BY <3>1
  <2>3. Max(1..m + 1) = m + 1
    <3>1. 1..m + 1 \in SUBSET (1..m + 1) /\ m + 1 \in 1..m + 1
      OBVIOUS
    <3> QED BY <3>1, MaxOfLast
  <2>4. (1..m + 1) \ {m + 1} = 1..m
    OBVIOUS
  <2>5. f[1..m + 1] = Op(f[(1..m + 1) \ {Max(1..m + 1)}], seq[Max(1..m + 1)])
    BY <1>3, <2>2 DEF Folds
  <2>6. f[1..m + 1] = Op(f[1..m], seq[m + 1])
    BY <2>3, <2>4, <2>5
  <2>7. m + 1 \in 1..n /\ (m + 1) - 1 = m
    BY <1>1
  <2> QED BY <1>2, <2>1, <2>6, <2>7
<1>7. 0 \in S /\ \A m \in Nat : m \in S => m + 1 \in S
  <2> HIDE DEF P
  <2> QED BY <1>5, <1>6
<1>8. n \in S
  <2> HIDE DEF S
  <2> QED BY <1>1, <1>7, NatSetInduction
<1>9. f[1..n] \in I[n]
  BY <1>1, <1>8
<1> QED BY <1>3, <1>9 DEF n
=============================================================================
