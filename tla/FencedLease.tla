----------------------------- MODULE FencedLease -----------------------------
(***************************************************************************)
(* What a job row of AgentTrial promises: agenttrial_jobs for evaluation,  *)
(* agenttrial_signing_jobs for signing.  A row is claimed under a lease,   *)
(* every claim draws a fresh lease_token, and every statement a holder     *)
(* issues names its token and requires locked_until > now().               *)
(*                                                                         *)
(* A claim increments attempts and draws a random UUID in one UPDATE, so   *)
(* the token is represented by the attempt number: attempts is the token   *)
(* in the row and held[h] the one in h's memory, 0 for none.  The clock is *)
(* represented by live, which is locked_until > now(): a step may end it   *)
(* at any time, and only a claim begins a new one.                         *)
(***************************************************************************)
EXTENDS Integers

CONSTANTS
    Holder,         \* the processes that poll the table
    MaxAttempts,    \* the literal 3 of the claim statements
    Exhaustible     \* TRUE where a claim first closes rows out of attempts

ASSUME FencedLeaseAssumption ==
    /\ MaxAttempts \in Nat \ {0}
    /\ Exhaustible \in BOOLEAN

VARIABLES
    status,     \* of the row, "absent" before it is inserted
    attempts,
    live,       \* locked_until > now()
    held        \* held[h]: the token h presents, 0 when it presents none

vars == <<status, attempts, live, held>>

Open == {"queued", "running"}
Settled == {"completed", "failed", "cancelled"}

TypeOK ==
    /\ status \in {"absent"} \cup Open \cup Settled
    /\ attempts \in 0..MaxAttempts
    /\ live \in BOOLEAN
    /\ held \in [Holder -> 0..MaxAttempts]

\* The fence: what every lease-bound statement requires of the row.
Holds(h) == status = "running" /\ live /\ held[h] = attempts

Init ==
    /\ status = "absent"
    /\ attempts = 0
    /\ live = FALSE
    /\ held = [h \in Holder |-> 0]

Enqueue ==
    /\ status = "absent"
    /\ status' = "queued"
    /\ UNCHANGED <<attempts, live, held>>

\* Mutant: the claim forgets attempts < 3.
ClaimableForever == status = "queued" \/ (status = "running" /\ ~live)

Claimable ==
    /\ status = "queued" \/ (status = "running" /\ ~live)
    /\ attempts < MaxAttempts

\* Mutant: taking over an expired lease keeps its token.
TokenKept == IF status = "queued" THEN attempts + 1 ELSE attempts

NextToken == attempts + 1

Claim(h) ==
    /\ held[h] = 0
    /\ Claimable
    /\ status' = "running"
    /\ attempts' = NextToken
    /\ live' = TRUE
    /\ held' = [held EXCEPT ![h] = NextToken]

\* Time passes locked_until.
Expire ==
    /\ status = "running" /\ live
    /\ live' = FALSE
    /\ UNCHANGED <<status, attempts, held>>

\* Mutant: the renewal forgets locked_until > now().
RenewLate(h) ==
    /\ status = "running" /\ held[h] = attempts
    /\ live' = TRUE
    /\ UNCHANGED <<status, attempts, held>>

\* A holder in time moves locked_until on; one that is late finds nothing to renew.
Renew(h) ==
    /\ Holds(h)
    /\ live' = TRUE
    /\ UNCHANGED <<status, attempts, held>>

Finish(h) ==
    /\ Holds(h)
    /\ status' \in {"completed", "failed"}
    /\ live' = FALSE
    /\ held' = [held EXCEPT ![h] = 0]
    /\ UNCHANGED attempts

\* The holder crashes, or its last statement is refused and it moves on.
Drop(h) ==
    /\ held[h] # 0
    /\ held' = [held EXCEPT ![h] = 0]
    /\ UNCHANGED <<status, attempts, live>>

\* Mutant: the cancellation forgets status IN ('queued','running').
CancelAny ==
    /\ status \notin {"absent", "cancelled"}
    /\ status' = "cancelled"
    /\ live' = FALSE
    /\ UNCHANGED <<attempts, held>>

Cancel ==
    /\ status \in Open
    /\ status' = "cancelled"
    /\ live' = FALSE
    /\ UNCHANGED <<attempts, held>>

\* Mutant: off by one, a row at its last attempt is not exhausted.
ExhaustLate ==
    /\ Exhaustible
    /\ status = "running" /\ ~live /\ attempts > MaxAttempts
    /\ status' = "failed"
    /\ UNCHANGED <<attempts, live, held>>

Exhaust ==
    /\ Exhaustible
    /\ status = "running" /\ ~live /\ attempts >= MaxAttempts
    /\ status' = "failed"
    /\ UNCHANGED <<attempts, live, held>>

Next ==
    \/ Enqueue \/ Expire \/ Cancel \/ Exhaust
    \/ \E h \in Holder : Claim(h) \/ Renew(h) \/ Finish(h) \/ Drop(h)

Spec == Init /\ [][Next]_vars

\* A lease nobody alive renews does run out.
Orphaned == \A h \in Holder : ~Holds(h)

Fairness ==
    /\ WF_vars(\E h \in Holder : Claim(h))
    /\ WF_vars(\E h \in Holder : Finish(h) \/ Drop(h))
    /\ WF_vars(Orphaned /\ Expire)
    /\ WF_vars(Exhaust)

FairSpec == Spec /\ Fairness

-----------------------------------------------------------------------------
\* PROPERTIES

\* Two processes never both pass the fence, although both may believe they
\* hold the job: the token, not the belief, decides.
OneHolder == \A g, h \in Holder : Holds(g) /\ Holds(h) => g = h

\* Two processes never hold one token, so a superseded attempt cannot be
\* mistaken for the current one.
DistinctTokens ==
    \A g, h \in Holder : held[g] = held[h] /\ held[g] # 0 => g = h

\* A holder that lost the fence (its lease expired or the job was settled) does
\* not regain it with the token it has: renewRunLease cannot revive a lease.
LostIsLost ==
    [][\A h \in Holder : ~Holds(h) /\ held[h] # 0 /\ held'[h] = held[h] => ~Holds(h)']_vars

\* A settled job is never claimed, cancelled or finished again: what the status
\* guards of the claim, finish and cancel statements are for.
SettledIsFinal ==
    [][(status \in Settled) => (status' = status /\ attempts' = attempts)]_vars

\* Every evaluation job that is queued settles, however often its holders die:
\* the retry budget of claimRun and failExhaustedJobs.
Settles == status = "queued" ~> status \in Settled
=============================================================================
