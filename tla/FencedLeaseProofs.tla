------------------------- MODULE FencedLeaseProofs -------------------------
(***************************************************************************)
(* The safety of FencedLease, for any number of processes and any retry    *)
(* budget.  The mutual exclusion is not inductive by itself: it rests on   *)
(* the tokens in circulation being distinct, which rests on every one of   *)
(* them having been issued by the row's counter.                           *)
(***************************************************************************)
EXTENDS FencedLease, TLAPS

\* Nobody holds a token the row has not issued.
TokensIssued == \A h \in Holder : held[h] <= attempts

\* A running row has been claimed, so 0 passes no fence.
RunningClaimed == status = "running" => attempts > 0

IInv == TypeOK /\ TokensIssued /\ RunningClaimed /\ DistinctTokens

\* The invariant holds when the table has no row for the run.
LEMMA InitInvariant == Init => IInv
  <1> SUFFICES ASSUME Init PROVE IInv
    OBVIOUS
  <1>1. TypeOK
    <2>1. status \in {"absent"} \cup Open \cup Settled /\ live \in BOOLEAN
      BY DEF Init, Open, Settled
    <2>2. attempts \in 0..MaxAttempts
      BY FencedLeaseAssumption DEF Init
    <2>3. held \in [Holder -> 0..MaxAttempts]
      BY FencedLeaseAssumption DEF Init
    <2>4. QED
      BY <2>1, <2>2, <2>3 DEF TypeOK
  <1>2. ASSUME NEW h \in Holder PROVE held[h] <= attempts
    <2>1. held[h] = 0 /\ attempts = 0
      BY DEF Init
    <2>2. QED
      BY <2>1
  <1>3. TokensIssued
    BY <1>2 DEF TokensIssued
  <1>4. RunningClaimed /\ DistinctTokens
    BY DEF Init, RunningClaimed, DistinctTokens
  <1>5. QED
    BY <1>1, <1>3, <1>4 DEF IInv

\* A claim issues a token larger than every token in circulation.
LEMMA ClaimInvariant == ASSUME IInv, NEW h \in Holder, Claim(h) PROVE IInv'
  <1> USE FencedLeaseAssumption DEF IInv, Claim, Claimable, NextToken
  <1>1. TypeOK'
    BY DEF TypeOK, Open, Settled
  <1>2. TokensIssued'
    BY DEF TypeOK, TokensIssued
  <1>3. RunningClaimed'
    BY DEF TypeOK, RunningClaimed
  <1>4. DistinctTokens'
    BY DEF TypeOK, TokensIssued, DistinctTokens
  <1>5. QED
    BY <1>1, <1>2, <1>3, <1>4

\* A holder that finishes or drops its token leaves the others theirs.
LEMMA ReleaseInvariant ==
    ASSUME IInv, NEW h \in Holder, Finish(h) \/ Drop(h) PROVE IInv'
  <1>1. held' = [held EXCEPT ![h] = 0] /\ attempts' = attempts /\ live' \in BOOLEAN
    BY DEF Finish, Drop, IInv, TypeOK
  <1>2. \/ status' = status
        \/ status' \in {"completed", "failed"}
    BY DEF Finish, Drop
  <1>3. TypeOK'
    <2>1. status' \in {"absent"} \cup Open \cup Settled
      BY <1>2 DEF IInv, TypeOK, Open, Settled
    <2>2. held' \in [Holder -> 0..MaxAttempts] /\ attempts' \in 0..MaxAttempts
      BY <1>1, FencedLeaseAssumption DEF IInv, TypeOK
    <2>3. QED
      BY <1>1, <2>1, <2>2 DEF TypeOK
  <1>4. TokensIssued'
    BY <1>1 DEF IInv, TypeOK, TokensIssued
  <1>5. RunningClaimed'
    BY <1>1, <1>2 DEF IInv, RunningClaimed
  <1>6. DistinctTokens'
    BY <1>1 DEF IInv, TypeOK, DistinctTokens
  <1>7. QED
    BY <1>3, <1>4, <1>5, <1>6 DEF IInv

\* The invariant is inductive.
LEMMA NextInvariant == IInv /\ [Next]_vars => IInv'
  <1> SUFFICES ASSUME IInv, [Next]_vars PROVE IInv'
    OBVIOUS
  <1>1. CASE Enqueue \/ Expire \/ Cancel \/ Exhaust
    BY <1>1 DEF IInv, TypeOK, TokensIssued, RunningClaimed, DistinctTokens,
                Enqueue, Expire, Cancel, Exhaust, Open, Settled
  <1>2. CASE \E h \in Holder : Claim(h)
    BY <1>2, ClaimInvariant
  <1>3. CASE \E h \in Holder : Finish(h) \/ Drop(h)
    BY <1>3, ReleaseInvariant
  <1>6. CASE \E h \in Holder : Renew(h)
    BY <1>6 DEF IInv, TypeOK, TokensIssued, RunningClaimed, DistinctTokens, Renew
  <1>4. CASE UNCHANGED vars
    BY <1>4 DEF vars, IInv, TypeOK, TokensIssued, RunningClaimed, DistinctTokens
  <1>5. QED
    BY <1>1, <1>2, <1>3, <1>4, <1>6 DEF Next

\* Every reachable state satisfies the invariant.
THEOREM Invariance == Spec => []IInv
  BY InitInvariant, NextInvariant, PTL DEF Spec

\* Attempts stay within the budget of the claim statement and tokens within
\* the attempts.
THEOREM TypeCorrect == Spec => []TypeOK
  <1>1. IInv => TypeOK
    BY DEF IInv
  <1>2. QED
    BY <1>1, Invariance, PTL

\* No two processes hold one lease_token.
THEOREM TokensDistinct == Spec => []DistinctTokens
  <1>1. IInv => DistinctTokens
    BY DEF IInv
  <1>2. QED
    BY <1>1, Invariance, PTL

\* At most one process passes the fence of the lease-bound statements.
THEOREM MutualExclusion == Spec => []OneHolder
  <1>1. IInv => OneHolder
    BY DEF IInv, TypeOK, RunningClaimed, DistinctTokens, OneHolder, Holds
  <1>2. QED
    BY <1>1, Invariance, PTL

\* A token that has lost the fence never passes it again.
THEOREM LossIsPermanent == Spec => LostIsLost
  <1> DEFINE Loss == \A h \in Holder :
                       ~Holds(h) /\ held[h] # 0 /\ held'[h] = held[h] => ~Holds(h)'
  <1>1. IInv /\ [Next]_vars => [Loss]_vars
    <2> SUFFICES ASSUME IInv, Next, NEW g \in Holder,
                        ~Holds(g), held[g] # 0, held'[g] = held[g]
                 PROVE  ~Holds(g)'
      OBVIOUS
    <2>1. CASE Enqueue \/ Expire \/ Cancel \/ Exhaust
      BY <2>1 DEF Enqueue, Expire, Cancel, Exhaust, Holds
    <2>2. ASSUME NEW h \in Holder, Claim(h) PROVE ~Holds(g)'
      BY <2>2 DEF IInv, TypeOK, TokensIssued, Claim, Claimable, NextToken, Holds
    <2>3. ASSUME NEW h \in Holder, Finish(h) \/ Drop(h) PROVE ~Holds(g)'
      BY <2>3 DEF Finish, Drop, Holds
    <2>5. ASSUME NEW h \in Holder, Renew(h) PROVE ~Holds(g)'
      <3>1. status = "running" /\ live
        BY <2>5 DEF Renew, Holds
      <3>2. held[g] # attempts
        BY <3>1 DEF Holds
      <3>3. QED
        BY <2>5, <3>2 DEF Renew, Holds
    <2>4. QED
      BY <2>1, <2>2, <2>3, <2>5 DEF Next
  <1>2. QED
    BY <1>1, Invariance, PTL DEF Spec, LostIsLost

\* A settled row is never claimed, cancelled or finished again.
THEOREM SettlementIsFinal == Spec => SettledIsFinal
  <1>1. [Next]_vars => [(status \in Settled) => (status' = status /\ attempts' = attempts)]_vars
    BY DEF Next, Enqueue, Claim, Claimable, Expire, Renew, Finish, Holds, Drop, Cancel,
           Exhaust, Open, Settled
  <1>2. QED
    BY <1>1, PTL DEF Spec, SettledIsFinal
=============================================================================
