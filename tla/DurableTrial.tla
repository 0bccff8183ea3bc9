---------------------------- MODULE DurableTrial ----------------------------
(***************************************************************************)
(* One trial in the database deployment: the web process that creates and  *)
(* cancels it, the workers that execute it and the signers that issue its  *)
(* receipt.  They share three rows keyed by the run id: agenttrial_runs    *)
(* (row), agenttrial_jobs (job) and agenttrial_signing_jobs (sig).  Trials *)
(* touch no row of one another, so one is enough.                          *)
(*                                                                         *)
(* Every SQL statement, and the explicit transactions of enqueueRun and    *)
(* cancelRunDurably, is one step.  Everything a process keeps between two  *)
(* statements is in its record and may be stale by the next one.  A save   *)
(* that waits for the row while a cancellation holds it has read the job   *)
(* before the cancellation closed it, and re-reads the row alone (READ     *)
(* COMMITTED): it is in waiting until it lands or is refused.              *)
(*                                                                         *)
(* A snapshot is represented by what the statements and the processes read *)
(* of it: its state, its revision (one per emitted segment of events), its *)
(* cancelled flag, and whether it carries the unsigned report (pend) or a  *)
(* signed bundle.  Leases are represented as in FencedLease.               *)
(***************************************************************************)
EXTENDS Pipeline

CONSTANTS
    Worker, Signer,
    MaxAttempts,    \* the literal 3 of the claim statements
    Script,         \* the executor of this run's mode
    Rethrows,       \* TRUE where that executor rethrows a LeaseLostError
    Separated,      \* AGENTTRIAL_EXECUTION_ONLY: receipts come from signers
    Stalls,         \* which processes may outlive their lease without crashing
    Waits,          \* whose saves may wait for the row while it is being cancelled
    MaxFaults       \* bound: crashes and failed statements in a behaviour

ASSUME DurableTrialAssumption ==
    /\ MaxAttempts \in Nat \ {0}
    /\ MaxFaults \in Nat
    /\ Rethrows \in BOOLEAN
    /\ Separated \in BOOLEAN
    /\ Stalls \subseteq {"worker", "signer"}
    /\ Waits \subseteq {"worker", "signer"}
    /\ Worker \cap Signer = {}
    /\ Script \in Seq({Check} \cup PipelineState)

VARIABLES
    row,        \* the agenttrial_runs row
    job,        \* the agenttrial_jobs row
    sig,        \* the agenttrial_signing_jobs row
    enqueueing, \* TRUE until the web process's enqueueRun ends
    upserts,    \* unleased saveRun calls of the web process still under way
    worker,     \* worker[w]: the memory of one worker process
    signer,     \* signer[s]: the memory of one signer process
    waiting,    \* whose save passed its fence and waits for the cancelled row
    acked,      \* history: "early" or "late" once a cancellation is acknowledged
    writer,     \* history: the attempt whose worker last wrote the row
    signedBy,   \* history: the signing attempt whose signer last wrote it
    faults      \* history: faults so far

vars == <<row, job, sig, enqueueing, upserts, worker, signer, waiting, acked, writer,
          signedBy, faults>>

-----------------------------------------------------------------------------
\* Snapshots and job rows

Snapshot ==
    [state : PipelineState \cup {"ABSENT"}, rev : Nat, cancelled : BOOLEAN,
     pend : BOOLEAN, bundle : BOOLEAN]

NoRow ==
    [state |-> "ABSENT", rev |-> 0, cancelled |-> FALSE, pend |-> FALSE, bundle |-> FALSE]

\* The run as created: the sealed input stored in the job's payload.
Created == [NoRow EXCEPT !.state = "CREATED", !.rev = 1]

Emit(run, state) == [run EXCEPT !.state = state, !.rev = @ + 1]

JobRow ==
    [status : {"absent", "queued", "running", "completed", "failed", "cancelled"},
     attempts : 0..MaxAttempts, live : BOOLEAN]

NoJob == [status |-> "absent", attempts |-> 0, live |-> FALSE]
Queued == [status |-> "queued", attempts |-> 0, live |-> FALSE]

\* Mutant: the claim forgets attempts < 3.
ClaimableForever(j) == j.status = "queued" \/ (j.status = "running" /\ ~j.live)

\* Mutant: the claim forgets locked_until < now().
ClaimableWhileHeld(j) == j.attempts < MaxAttempts /\ j.status \in {"queued", "running"}

Claimable(j) ==
    /\ j.attempts < MaxAttempts
    /\ j.status = "queued" \/ (j.status = "running" /\ ~j.live)

\* Mutant: taking over an expired lease keeps its token.
ClaimedKeepingToken(j) ==
    [status |-> "running", live |-> TRUE,
     attempts |-> IF j.status = "queued" THEN j.attempts + 1 ELSE j.attempts]

Claimed(j) == [status |-> "running", attempts |-> j.attempts + 1, live |-> TRUE]

\* Mutant: any worker's lease passes the fence.
HoldsAny(j, token) == j.status = "running" /\ j.live

\* Mutant: the token passes the fence whatever became of the job.
HoldsToken(j, token) == j.attempts = token

\* status = 'running' AND lease_token = ... AND locked_until > now()
Holds(j, token) == j.status = "running" /\ j.live /\ j.attempts = token

Close(j, status) == [j EXCEPT !.status = status, !.live = FALSE]

\* Mutant: the cancellation leaves a running job to its worker.
CancelledIfQueued(j) == IF j.status = "queued" THEN Close(j, "cancelled") ELSE j

\* The cancellation's update of a job row.
CancelledJob(j) == IF j.status \in {"queued", "running"} THEN Close(j, "cancelled") ELSE j

-----------------------------------------------------------------------------
\* Process memories

WorkerRecord ==
    [pc : {"idle", "load", "execute", "insert", "persist", "close", "save", "finish", "fail"},
     token : 0..MaxAttempts,    \* lease.attempt, 0 when idle
     at : 1..Len(Script) + 1,   \* the next entry of the script
     run : Snapshot,
     lost : BOOLEAN,            \* leaseState.lost
     chain : Seq(Snapshot)]     \* leaseState.checkpoint: saves not yet made

IdleWorker ==
    [pc |-> "idle", token |-> 0, at |-> 1, run |-> NoRow, lost |-> FALSE, chain |-> <<>>]

SignerRecord ==
    [pc : {"idle", "load", "save", "finish", "reject", "fail"},
     token : 0..MaxAttempts,
     run : Snapshot]

IdleSigner == [pc |-> "idle", token |-> 0, run |-> NoRow]

Init ==
    /\ row = NoRow
    /\ job = NoJob
    /\ sig = NoJob
    /\ enqueueing = TRUE
    /\ upserts = {Created}
    /\ worker = [w \in Worker |-> IdleWorker]
    /\ signer = [s \in Signer |-> IdleSigner]
    /\ waiting = {}
    /\ acked = "none"
    /\ writer = 0
    /\ signedBy = 0
    /\ faults = 0

\* The fence of a save, as its statement sees it: one that waits for the
\* cancelled row keeps what its EXISTS found before.
Passes(p, j, token) == p \in waiting \/ Holds(j, token)

\* The save of p has landed or was refused.
Answered(p) == waiting' = waiting \ {p}

\* A crash or a failed statement.
Fault == faults < MaxFaults /\ faults' = faults + 1

-----------------------------------------------------------------------------
\* The web process

\* enqueueRun's transaction commits.
Enqueue ==
    /\ enqueueing
    /\ enqueueing' = FALSE
    /\ row' = IF row = NoRow THEN Created ELSE row
    /\ job' = Queued
    /\ UNCHANGED <<sig, upserts, worker, signer, writer, waiting, faults, acked, signedBy>>

\* enqueueRun throws (the queue is full, or a statement failed) and
\* failQueuedRun publishes FAILED.
EnqueueRefused ==
    /\ enqueueing
    /\ enqueueing' = FALSE
    /\ upserts' = upserts \cup {Emit(Created, "FAILED")}
    /\ UNCHANGED <<row, job, sig, worker, signer, writer, waiting, faults, acked, signedBy>>

\* The transaction commits but its answer is lost.
EnqueueUnacknowledged ==
    /\ enqueueing
    /\ Fault
    /\ enqueueing' = FALSE
    /\ row' = IF row = NoRow THEN Created ELSE row
    /\ job' = Queued
    /\ upserts' = upserts \cup {Emit(Created, "FAILED")}
    /\ UNCHANGED <<sig, worker, signer, waiting, writer, acked, signedBy>>

\* saveRun without a lease.
Upsert(u) ==
    /\ u \in upserts
    /\ upserts' = upserts \ {u}
    /\ row' = IF row.rev <= u.rev /\ row.state # "CANCELLED" THEN u ELSE row
    /\ UNCHANGED <<job, sig, enqueueing, worker, signer, writer, waiting, faults, acked, signedBy>>

\* Workers and signers at a save that passes its fence.
Saving ==
    {w \in Worker : /\ "worker" \in Waits
                    /\ ~worker[w].lost /\ Holds(job, worker[w].token)
                    /\ worker[w].chain # <<>> \/ worker[w].pc \in {"persist", "close", "save"}}
    \cup {s \in Signer : /\ "signer" \in Waits
                         /\ Holds(sig, signer[s].token)
                         /\ signer[s].pc \in {"save", "reject"}}

\* cancelRunDurably's transaction, for a caller with the capability.  Saves may
\* have begun since it locked the row.
Cancel ==
    /\ row.state \notin Terminal \cup {"ABSENT"}
    /\ row' = [Emit(row, "CANCELLED") EXCEPT !.cancelled = TRUE]
    /\ acked' = IF job.status = "absent" THEN "early" ELSE "late"
    /\ job' = CancelledJob(job)
    /\ sig' = CancelledJob(sig)
    /\ \E begun \in SUBSET Saving : waiting' = waiting \cup begun
    /\ UNCHANGED <<enqueueing, upserts, worker, signer, writer, faults, signedBy>>

Web == Enqueue \/ EnqueueRefused \/ EnqueueUnacknowledged \/ Cancel \/ \E u \in upserts : Upsert(u)

-----------------------------------------------------------------------------
\* The worker: processNextRun and the executor it calls

Set(w, r) == worker' = [worker EXCEPT ![w] = r]

\* A save is not attempted once the lease is known to be lost.
Fenced(w) == IF worker[w].lost THEN w \in waiting ELSE Passes(w, job, worker[w].token)

\* Mutant: the save forgets revision <= EXCLUDED.revision.
LandsAtAnyRevision(w, run) == Fenced(w)

\* saveRun under a lease: the fence, and the revision guard, which is tested on
\* the row as the cancellation leaves it.
Lands(w, run) == Fenced(w) /\ row.rev <= run.rev

Write(w, run) == row' = run /\ writer' = worker[w].token

NoWrite == UNCHANGED <<row, writer>>

\* The catch block of an executor: publish the outcome, then persist.
Bail(r, state) ==
    LET run == Emit(r.run, state)
    IN [r EXCEPT !.pc = "close", !.run = run, !.chain = Append(@, run)]

\* A LeaseLostError thrown in an executor: executeAuthorizedExternalRun leaves
\* it to processNextRun, the others treat it like any error.
LoseLease(r) == IF Rethrows THEN [r EXCEPT !.pc = "fail"] ELSE Bail(r, "FAILED")

\* Mutant: off by one, a job at its last attempt is not exhausted.
ExhaustedLate(j) == j.status = "running" /\ ~j.live /\ j.attempts > MaxAttempts

Exhausted(j) == j.status = "running" /\ ~j.live /\ j.attempts >= MaxAttempts

\* claimRun begins with failExhaustedJobs, a statement of its own.
FailExhausted ==
    /\ \E w \in Worker : worker[w].pc = "idle"
    /\ Exhausted(job)
    /\ job' = Close(job, "failed")
    /\ row' = [row EXCEPT !.state = "FAILED"]
    /\ UNCHANGED <<sig, enqueueing, upserts, worker, signer, writer, waiting, faults, acked, signedBy>>

Claim(w) ==
    /\ worker[w].pc = "idle"
    /\ Claimable(job)
    /\ job' = Claimed(job)
    /\ Set(w, [IdleWorker EXCEPT !.pc = "load", !.token = Claimed(job).attempts])
    /\ NoWrite
    /\ UNCHANGED <<sig, enqueueing, upserts, signer, waiting, faults, acked, signedBy>>

\* loadRun; a retry discards it for the sealed input and says so in the log.
Load(w) ==
    LET first == worker[w].token = 1
        run == IF first THEN row ELSE Emit(Created, "CREATED")
    IN /\ worker[w].pc = "load"
       /\ Set(w, [worker[w] EXCEPT !.pc = "execute", !.run = run,
                                   !.chain = IF first THEN <<>> ELSE <<run>>])
       /\ NoWrite
       /\ UNCHANGED <<job, sig, enqueueing, upserts, signer, waiting, faults, acked, signedBy>>

Executing(w) == worker[w].pc = "execute" /\ worker[w].at <= Len(Script)

\* A segment of the executor: emit queues a checkpoint behind the others.
Advance(w) ==
    LET run == Emit(worker[w].run, Script[worker[w].at])
    IN /\ Executing(w) /\ Script[worker[w].at] # Check
       /\ Set(w, [worker[w] EXCEPT !.at = @ + 1, !.run = run, !.chain = Append(@, run)])
       /\ NoWrite
       /\ UNCHANGED <<job, sig, enqueueing, upserts, signer, waiting, faults, acked, signedBy>>

\* ensureActive: the answer is used after the await, when it may be stale.
EnsureActive(w) ==
    /\ Executing(w) /\ Script[worker[w].at] = Check
    /\ Set(w, IF worker[w].lost THEN LoseLease(worker[w])
              ELSE IF worker[w].run.cancelled \/ row.cancelled \/ row.state = "CANCELLED"
                   THEN Bail(worker[w], "CANCELLED")
                   ELSE [worker[w] EXCEPT !.at = @ + 1])
    /\ NoWrite
    /\ UNCHANGED <<job, sig, enqueueing, upserts, signer, waiting, faults, acked, signedBy>>

\* The target, its evidence, a budget or a lost lease's abort signal makes the
\* executor throw.
Throw(w) ==
    /\ Executing(w)
    /\ \/ Set(w, Bail(worker[w], "FAILED"))
       \/ worker[w].lost /\ Set(w, LoseLease(worker[w]))
    /\ NoWrite
    /\ UNCHANGED <<job, sig, enqueueing, upserts, signer, waiting, faults, acked, signedBy>>

Finished(w) == worker[w].pc = "execute" /\ worker[w].at > Len(Script)

\* The process signs for itself: the last checkpoint says COMPLETED and is
\* taken before the bundle is attached.
Sign(w) ==
    LET run == Emit(worker[w].run, "COMPLETED")
    IN /\ ~Separated
       /\ Finished(w)
       /\ Set(w, [worker[w] EXCEPT !.pc = "persist", !.run = [run EXCEPT !.bundle = TRUE],
                                   !.chain = Append(@, run)])
       /\ NoWrite
       /\ UNCHANGED <<job, sig, enqueueing, upserts, signer, waiting, faults, acked, signedBy>>

\* queueSigningIfSeparated, enqueueSigningJob's UPDATE: no lease, no revision
\* guard, and checkpoints may still be queued.
HandOff(w) ==
    LET run == [worker[w].run EXCEPT !.state = "SCORING", !.pend = TRUE]
    IN /\ Separated
       /\ Finished(w)
       /\ Set(w, [worker[w] EXCEPT !.pc = "insert", !.run = run])
       /\ Write(w, run)
       /\ UNCHANGED <<job, sig, enqueueing, upserts, signer, waiting, faults, acked, signedBy>>

\* enqueueSigningJob's INSERT ... ON CONFLICT DO NOTHING.
InsertSigningJob(w) ==
    /\ worker[w].pc = "insert"
    /\ sig' = IF sig.status = "absent" THEN Queued ELSE sig
    /\ Set(w, [worker[w] EXCEPT !.pc = "save"])
    /\ NoWrite
    /\ UNCHANGED <<job, enqueueing, upserts, signer, waiting, faults, acked, signedBy>>

\* Either statement of enqueueSigningJob fails instead.
HandOffFails(w) ==
    /\ Separated
    /\ Finished(w) \/ worker[w].pc = "insert"
    /\ Fault
    /\ Set(w, Bail([worker[w] EXCEPT !.run.state = "SCORING", !.run.pend = TRUE], "FAILED"))
    /\ NoWrite
    /\ UNCHANGED <<job, sig, enqueueing, upserts, waiting, signer, acked, signedBy>>

\* The head of the checkpoint chain.
Checkpoint(w) ==
    LET snapshot == Head(worker[w].chain)
        lands == Lands(w, snapshot)
    IN /\ worker[w].chain # <<>>
       /\ Set(w, [worker[w] EXCEPT !.chain = Tail(@), !.lost = @ \/ ~lands])
       /\ IF lands THEN Write(w, snapshot) ELSE NoWrite
       /\ Answered(w)
       /\ UNCHANGED <<job, sig, enqueueing, upserts, signer, faults, acked, signedBy>>

\* persistExecutionRun awaits the chain and saves.  When that throws inside
\* the executor's try block, the catch block publishes FAILED and persists
\* again; when it throws in the catch block, processNextRun's own catch runs.
Persist(w) ==
    LET saved == Lands(w, worker[w].run)
    IN /\ worker[w].pc \in {"persist", "close"} /\ worker[w].chain = <<>>
       /\ Set(w, IF saved THEN [worker[w] EXCEPT !.pc = "save"]
                 ELSE IF worker[w].pc = "persist" THEN LoseLease(worker[w])
                 ELSE [worker[w] EXCEPT !.pc = "fail"])
       /\ IF saved THEN Write(w, worker[w].run) ELSE NoWrite
       /\ Answered(w)
       /\ UNCHANGED <<job, sig, enqueueing, upserts, signer, faults, acked, signedBy>>

\* processNextRun's last save, after the chain has drained.
Save(w) ==
    LET saved == Lands(w, worker[w].run)
    IN /\ worker[w].pc = "save" /\ worker[w].chain = <<>>
       /\ Set(w, [worker[w] EXCEPT !.pc = IF saved THEN "finish" ELSE "fail"])
       /\ IF saved THEN Write(w, worker[w].run) ELSE NoWrite
       /\ Answered(w)
       /\ UNCHANGED <<job, sig, enqueueing, upserts, signer, faults, acked, signedBy>>

\* finishRunJob, and again from the catch block when it is refused.  It changes
\* no cancelled job, so a save that waits for the cancellation may come first.
Finish(w) ==
    LET held == Holds(job, worker[w].token)
        failed == worker[w].pc = "fail" \/ worker[w].run.state = "FAILED"
    IN /\ worker[w].pc \in {"finish", "fail"} /\ w \notin waiting
       /\ job' = IF held THEN Close(job, IF failed THEN "failed" ELSE "completed") ELSE job
       /\ Set(w, IF held \/ worker[w].pc = "fail" THEN IdleWorker
                 ELSE [worker[w] EXCEPT !.pc = "fail"])
       /\ NoWrite
       /\ UNCHANGED <<sig, enqueueing, upserts, signer, waiting, faults, acked, signedBy>>

\* renewRunLease finds that the lease is gone.
RenewalRefused(w) ==
    /\ worker[w].pc \in {"execute", "insert", "persist", "close", "save"}
    /\ ~worker[w].lost
    /\ ~Holds(job, worker[w].token)
    /\ Set(w, [worker[w] EXCEPT !.lost = TRUE])
    /\ NoWrite
    /\ UNCHANGED <<job, sig, enqueueing, upserts, signer, waiting, faults, acked, signedBy>>

\* A renewal or a checkpoint fails although the lease is held.
StatementFails(w) ==
    /\ worker[w].pc \in {"execute", "insert", "persist", "close", "save"}
    /\ ~worker[w].lost
    /\ Fault
    /\ Set(w, [worker[w] EXCEPT !.lost = TRUE])
    /\ NoWrite
    /\ UNCHANGED <<job, sig, enqueueing, upserts, waiting, signer, acked, signedBy>>

\* A save outside the chain fails although it would have landed.
SaveFails(w) ==
    /\ worker[w].pc \in {"persist", "close", "save"} /\ worker[w].chain = <<>>
    /\ Fault
    /\ Set(w, IF worker[w].pc = "persist" THEN Bail(worker[w], "FAILED")
              ELSE [worker[w] EXCEPT !.pc = "fail"])
    /\ NoWrite
    /\ Answered(w)
    /\ UNCHANGED <<job, sig, enqueueing, upserts, signer, acked, signedBy>>

WorkerCrash(w) ==
    /\ worker[w].pc # "idle"
    /\ Fault
    /\ Set(w, IdleWorker)
    /\ NoWrite
    /\ Answered(w)
    /\ UNCHANGED <<job, sig, enqueueing, upserts, signer, acked, signedBy>>

\* locked_until passes: the holder is dead, or stalled too long to renew.  A
\* renewal that succeeds leaves the row as it is here.
LeaseExpires ==
    /\ job.status = "running" /\ job.live
    /\ "worker" \in Stalls \/ \A w \in Worker : worker[w].token # job.attempts
    /\ job' = [job EXCEPT !.live = FALSE]
    /\ NoWrite
    /\ UNCHANGED <<sig, enqueueing, upserts, worker, signer, waiting, faults, acked, signedBy>>

WorkerStep(w) ==
    \/ Load(w) \/ Advance(w) \/ EnsureActive(w) \/ Throw(w) \/ Sign(w)
    \/ HandOff(w) \/ InsertSigningJob(w) \/ Checkpoint(w)
    \/ Persist(w) \/ Save(w) \/ Finish(w) \/ RenewalRefused(w)

WorkerFault(w) == HandOffFails(w) \/ StatementFails(w) \/ SaveFails(w) \/ WorkerCrash(w)

-----------------------------------------------------------------------------
\* The signer: processNextSigningJob

SetSigner(s, r) == signer' = [signer EXCEPT ![s] = r]

\* saveSignedRun's UPDATE: fenced by the signing lease alone.
WriteSigned(s) ==
    IF Passes(s, sig, signer[s].token)
    THEN row' = signer[s].run /\ signedBy' = signer[s].token
    ELSE UNCHANGED <<row, signedBy>>

\* Mutant: the signer leaves the unsigned report in the snapshot.
SignedKeepingPending(run) == [Emit(run, "COMPLETED") EXCEPT !.bundle = TRUE]

\* What finalizePendingRun makes of the unsigned run.
Signed(run) == [Emit(run, "COMPLETED") EXCEPT !.pend = FALSE, !.bundle = TRUE]

\* Mutant: the catch block of the signer records the error and no state.
RejectedSilently(run) == [run EXCEPT !.pend = FALSE, !.bundle = FALSE]

\* What the catch block saves: no bundle, no report, one more event.
Rejected(run) == [Emit(run, "FAILED") EXCEPT !.pend = FALSE, !.bundle = FALSE]

ClaimSigning(s) ==
    /\ signer[s].pc = "idle"
    /\ Claimable(sig)
    /\ sig' = Claimed(sig)
    /\ SetSigner(s, [IdleSigner EXCEPT !.pc = "load", !.token = Claimed(sig).attempts])
    /\ NoWrite
    /\ UNCHANGED <<job, enqueueing, upserts, worker, waiting, faults, acked, signedBy>>

\* loadRun and finalizePendingRun, which asks for the unsigned report and
\* nothing of the state, and may find the report invalid.
Finalize(s) ==
    /\ signer[s].pc = "load"
    /\ \/ row.pend /\ SetSigner(s, [signer[s] EXCEPT !.pc = "save", !.run = Signed(row)])
       \/ SetSigner(s, [signer[s] EXCEPT !.pc = "reject", !.run = Rejected(row)])
    /\ NoWrite
    /\ UNCHANGED <<job, sig, enqueueing, upserts, worker, waiting, faults, acked, signedBy>>

SaveSigned(s) ==
    LET held == Passes(s, sig, signer[s].token)
    IN /\ signer[s].pc = "save"
       /\ WriteSigned(s)
       /\ SetSigner(s, IF held THEN [signer[s] EXCEPT !.pc = "finish"]
                       ELSE [signer[s] EXCEPT !.pc = "reject", !.run = Rejected(@)])
       /\ Answered(s)
       /\ UNCHANGED <<job, sig, enqueueing, upserts, worker, writer, faults, acked>>

\* The catch block's saveSignedRun, whose refusal is ignored.
SaveRejected(s) ==
    /\ signer[s].pc = "reject"
    /\ WriteSigned(s)
    /\ SetSigner(s, [signer[s] EXCEPT !.pc = "fail"])
    /\ Answered(s)
    /\ UNCHANGED <<job, sig, enqueueing, upserts, worker, writer, faults, acked>>

\* finishSigningJob; a refusal after the receipt was saved is an error too.
FinishSigning(s) ==
    LET held == Holds(sig, signer[s].token)
        rejecting == signer[s].pc = "fail"
    IN /\ signer[s].pc \in {"finish", "fail"}
       /\ sig' = IF held THEN Close(sig, IF rejecting THEN "failed" ELSE "completed") ELSE sig
       /\ SetSigner(s, IF held \/ rejecting THEN IdleSigner
                       ELSE [signer[s] EXCEPT !.pc = "reject", !.run = Rejected(@)])
       /\ NoWrite
       /\ UNCHANGED <<job, enqueueing, upserts, worker, waiting, faults, acked, signedBy>>

\* saveSignedRun or finishSigningJob fails although the lease is held.
SigningFails(s) ==
    /\ signer[s].pc \in {"save", "finish"}
    /\ Fault
    /\ SetSigner(s, [signer[s] EXCEPT !.pc = "reject", !.run = Rejected(@)])
    /\ NoWrite
    /\ Answered(s)
    /\ UNCHANGED <<job, sig, enqueueing, upserts, worker, acked, signedBy>>

SignerCrash(s) ==
    /\ signer[s].pc # "idle"
    /\ Fault
    /\ SetSigner(s, IdleSigner)
    /\ NoWrite
    /\ Answered(s)
    /\ UNCHANGED <<job, sig, enqueueing, upserts, worker, acked, signedBy>>

\* Signing leases are never renewed: 30 seconds from the claim they are gone.
SigningLeaseExpires ==
    /\ sig.status = "running" /\ sig.live
    /\ "signer" \in Stalls \/ \A s \in Signer : signer[s].token # sig.attempts
    /\ sig' = [sig EXCEPT !.live = FALSE]
    /\ NoWrite
    /\ UNCHANGED <<job, enqueueing, upserts, worker, signer, waiting, faults, acked, signedBy>>

SignerStep(s) == Finalize(s) \/ SaveSigned(s) \/ SaveRejected(s) \/ FinishSigning(s)

SignerFault(s) == SigningFails(s) \/ SignerCrash(s)

-----------------------------------------------------------------------------
Next ==
    \/ Web
    \/ FailExhausted \/ LeaseExpires \/ SigningLeaseExpires
    \/ \E w \in Worker : Claim(w) \/ WorkerStep(w) \/ WorkerFault(w)
    \/ \E s \in Signer : ClaimSigning(s) \/ SignerStep(s) \/ SignerFault(s)

Spec == Init /\ [][Next]_vars

\* Processes keep polling and keep executing, requests that were sent are
\* processed, and a lease nobody holds runs out.  Nothing makes a user cancel,
\* a target fail or a process stall.
Fairness ==
    /\ WF_vars(Enqueue \/ EnqueueRefused)
    /\ WF_vars(\E u \in upserts : Upsert(u))
    /\ WF_vars(FailExhausted)
    /\ WF_vars(\E w \in Worker : Claim(w))
    /\ \A w \in Worker : WF_vars(WorkerStep(w))
    /\ WF_vars(\E s \in Signer : ClaimSigning(s))
    /\ \A s \in Signer : WF_vars(SignerStep(s))
    /\ WF_vars(LeaseExpires /\ \A w \in Worker : worker[w].token # job.attempts)
    /\ WF_vars(SigningLeaseExpires /\ \A s \in Signer : signer[s].token # sig.attempts)

FairSpec == Spec /\ Fairness

-----------------------------------------------------------------------------
\* PROPERTIES

\* The rows, the memories and the histories have their types; attempts and
\* tokens never exceed the retry budget of the claim statements.
TypeOK ==
    /\ row \in Snapshot
    /\ job \in JobRow
    /\ sig \in JobRow
    /\ enqueueing \in BOOLEAN
    /\ upserts \subseteq {Created, Emit(Created, "FAILED")}
    /\ worker \in [Worker -> WorkerRecord]
    /\ signer \in [Signer -> SignerRecord]
    /\ waiting \subseteq Worker \cup Signer
    /\ acked \in {"none", "early", "late"}
    /\ writer \in 0..MaxAttempts
    /\ signedBy \in 0..MaxAttempts
    /\ faults \in 0..MaxFaults

\* However leases expire and processes stall, at most one worker passes the
\* fence of agenttrial_jobs and at most one signer that of
\* agenttrial_signing_jobs (saveRun, renewRunLease, finishRunJob;
\* saveSignedRun, finishSigningJob).
OneExecutor ==
    \A v, w \in Worker :
        Holds(job, worker[v].token) /\ Holds(job, worker[w].token) => v = w

OneSigner ==
    \A s, t \in Signer :
        Holds(sig, signer[s].token) /\ Holds(sig, signer[t].token) => s = t

\* Where workers sign for themselves: once an attempt has written the run, no
\* earlier attempt writes it again (saveRun under a lease).
AttemptOrder == [][writer' >= writer]_vars

\* No signer writes over a later signing attempt, and none writes at all once
\* the signing job has finished (saveSignedRun, finishSigningJob).
SigningOrder ==
    [][/\ signedBy' >= signedBy
       /\ sig.status \in {"completed", "failed"} => signedBy' = signedBy]_vars

\* While workers keep their leases: once a cancellation has closed the signing
\* job of an unsigned run, the only receipt that may still appear is that of a
\* signer whose save was waiting for the cancellation to end, whichever others
\* had claimed the job (the fence of saveSignedRun).
SigningCancelIsFinal ==
    [][sig.status = "cancelled" /\ ~row.bundle /\ row'.bundle
         => \E s \in waiting \cap Signer : row' = signer[s].run]_vars

\* While workers keep their leases: a stored run is never both signed and
\* waiting to be signed (finalizePendingRun, enqueueSigningJob).
UnsignedOrSigned == ~(row.pend /\ row.bundle)

\* Where workers sign for themselves: the stored log never gets shorter,
\* whatever stalls, retries, waits or arrives late (the revision guards of
\* saveRun).  Its events may be replaced: a retry whose log has become as long
\* takes the place of the abandoned attempt's.
RevisionMonotone == [][row'.rev >= row.rev]_vars

\* Where workers sign for themselves: a cancellation acknowledged once the
\* trial was queued is never followed by a receipt, whatever the worker was
\* doing (cancelRunDurably closes the job in the same transaction).
CancelPreventsReceipt == acked = "late" => ~row.bundle

\* A retry whose lease is current, when no statement has failed, is never told
\* that its lease is lost (the revision guard of saveRun).
RetryIsClean == \A w \in Worker : worker[w].lost => ~Holds(job, worker[w].token)

\* A run that was stored as COMPLETED stays COMPLETED (transitions in
\* state-machine.ts gives COMPLETED no successor).
CompletedIsFinal == [][row.state = "COMPLETED" => row'.state = "COMPLETED"]_vars

\* Every queued job settles, however often its workers die
\* (failExhaustedJobs).
JobSettles == job.status = "queued" ~> job.status \in {"completed", "failed", "cancelled"}

\* Without a fault, and while no worker's save waits for a cancellation, every
\* trial comes to a terminal state that its readers see, and stays in one.
TrialSettles == <>(faults > 0) \/ <>[](row.state \in Terminal)

\* The two job tables are fenced leases: what the statements of workers,
\* signers and the cancellation do to them is allowed by FencedLease.
JobTable == INSTANCE FencedLease WITH
    Holder <- Worker, Exhaustible <- TRUE,
    status <- job.status, attempts <- job.attempts, live <- job.live,
    held <- [w \in Worker |-> worker[w].token]

SigningTable == INSTANCE FencedLease WITH
    Holder <- Signer, Exhaustible <- FALSE,
    status <- sig.status, attempts <- sig.attempts, live <- sig.live,
    held <- [s \in Signer |-> signer[s].token]

\* agenttrial_jobs implements FencedLease, with exhaustion.
JobTableSpec == JobTable!Spec

\* agenttrial_signing_jobs implements FencedLease; nothing closes an exhausted
\* signing job.
SigningTableSpec == SigningTable!Spec
=============================================================================
