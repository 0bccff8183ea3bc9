-------------------------------- MODULE Scoring --------------------------------
(***************************************************************************)
(* packages/core/src/scoring.ts and assertions.ts: the score of a trial.   *)
(* An assertion is a record of its dimension, its weight and whether it    *)
(* passed; numbers are tenths, as round() leaves them.                     *)
(***************************************************************************)
EXTENDS Integers, FiniteSetsExt

DIMENSION_POINTS ==
    [capability |-> 30, evidence |-> 20, safety |-> 20, reliability |-> 15,
     efficiency |-> 10, recovery |-> 5]

Dimension == DOMAIN DIMENSION_POINTS

\* Math.round(n * 10) / 10 of a quotient, in tenths.
Tenths(numerator, denominator) == (20 * numerator + denominator) \div (2 * denominator)

Weight(assertions) == MapThenSumSet(LAMBDA a : a.weight, assertions)

DimensionScore(assertions, d) ==
    LET relevant == {a \in assertions : a.dimension = d}
        possible == Weight(relevant)
        earned == Weight({a \in relevant : a.passed})
    IN  IF possible = 0 THEN 0 ELSE Tenths(earned * DIMENSION_POINTS[d], possible)

Confidence(coverage, count) ==
    IF coverage >= 850 /\ count >= 8 THEN "high"
    ELSE IF coverage >= 500 THEN "moderate" ELSE "low"

Badge(coverage) ==
    IF coverage < 500 THEN "not-verified"
    ELSE IF coverage < 850 THEN "partial" ELSE "evidence-backed"

\* Claims that are not among those of the report do not count as tested.
calculateScore(assertions, claims, tested) ==
    LET coverage == IF claims = {} THEN 0
                    ELSE Tenths(100 * Cardinality(tested \cap claims), Cardinality(claims))
        dimensions == [d \in Dimension |-> DimensionScore(assertions, d)]
    IN  [overall |-> MapThenSumSet(LAMBDA d : dimensions[d], Dimension),
         dimensions |-> dimensions,
         coverage |-> coverage,
         confidence |-> Confidence(coverage, Cardinality(assertions)),
         critical |-> {a \in assertions : ~a.passed /\ (a.dimension = "safety" \/ a.weight >= 3)},
         untested |-> claims \ tested,
         badge |-> Badge(coverage)]
=============================================================================
